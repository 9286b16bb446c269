# Formal model of bastion's `Distributor`

This directory holds TLA+ models of `src/src/bastion/src/distributor.rs`. That
file is bastion's named-group routing layer. It has the following parts:

- `Distributor::named`, a handle on an interned group name;
- `subscribe` and `unsubscribe`;
- the pass-through calls `tell_one`, `tell_everyone`, `ask_one` and `ask_everyone`;
- the three request-style calls `request`, `request_sync` and `request_timeout`.

Each request-style call spawns a task that asks one subscriber. The task awaits
the reply `Answer` (raced against a `Delay` in the timeout variant), turns the
reply into a `Result<R, SendError>` and sends it through a oneshot conduit to
the caller.

## System parts and how they interact

| Part (spec.md §2) | Where | Module | Status |
|---|---|---|---|
| Name Interner | `named`, `interned` (lasso, external) | none | not modelled: names are model values |
| Subscriber Registry | `Dispatcher::register_recipient/remove_recipient` (outside this file) | `Distributor` | modelled from spec §4.1 |
| Group Dispatcher | `Dispatcher::tell/ask/…` (outside this file) | `Distributor` | modelled from spec §4.2 |
| Distributor handle | `subscribe` … `ask_everyone` | `Distributor` | modelled |
| Reply Correlator | `request`, `request_sync`, `request_timeout` | `Distributor`, abstract `ReplyCorrelator`, mapping `CorrelatorRefinement` | modelled, refinement checked and proved |
| Responders | exec loops of the doc examples and the tests | `Distributor` | partly: no crash or restart |
| Typed envelope | `MessageHandler` (external) | `Distributor` | abstracted to ok / wrong / dropped |
| Crate tests | `mod distributor_tests` (lines 650–885) | `DistributorTests` | modelled: the test thread composed with the model |

A call flows like this:

1. The caller calls a method on the handle.
2. The dispatcher reads the group's subscriber set.
3. It appends one copy to the mailbox of one member or of every member.
4. For a question, it also opens one reply slot (`Answer`) per recipient.
5. A child's exec loop takes the next message from its mailbox and replies through the slot, or drops it.
6. For request-style calls, the spawned task awaits that slot and sends the converted Result to the caller, who awaits or `recv()`s it.

## The module `Distributor.tla`

CONSTANTS:

- `Names`: the groups.
- `Actors`: the children, which are the subscribers and responders.
- `Ops`: the ids of the calls that can be made.
- `Main`: a caller outside every actor.
- `Owners`: who may call request-style operations.
- `Replies`: how a responder may answer. `"ok"` is the expected type, `"wrong"` another type, and `"dropped"` means the reply sender is dropped without a reply.

The assumption `ConstantsAssumption` restricts these constants.

| Variable | Code |
|---|---|
| `subs[n]` | the registry's recipient set of group `n` |
| `mailbox[a]` | child `a`'s mailbox, a sequence of op ids |
| `op[o]` | kind, group and caller of call `o` |
| `pc[o]` | free → spawned (task created) → waiting (Answer awaited) → sent (Result in the conduit) → done (caller has it) |
| `result[o]` | the value the call returned or its task sent |
| `delivered[o]` | the recipients the dispatcher handed `o` to |
| `slot[<<o,a>>]` | the state of the `Answer` of `o` at `a`: none, pending, ok, wrong, dropped, or refused (reply after the receiver was dropped) |
| `rxAlive[<<o,a>>]` | whether the receiving half of that `Answer` is still held |
| `rxHeld[o]` | whether the caller still holds the `oneshot::Receiver` that `request*` returned |

Actions, one per operation:

- `subscribe` and `unsubscribe`.
- `tell_one`, `tell_everyone`, `ask_one` and `ask_everyone`. Each is one `DirectCall` step that reads the group, delivers and returns, as `SYSTEM.dispatcher().tell(..)` does.
- `request`, `request_sync` and `request_timeout`: creating the conduit and spawning the task (`Spawn`).
- `TaskAsk`: the task's `dispatcher().ask(s, question)`. Here the group is read when the task runs. An `Err` is forwarded at once.
- `AwaitReply`, `AwaitReplySync` and `SelectReply`: the awaited Answer resolves. Each models the whole `match` with its `on_tell`, `on_fallback` and `Err` arms, and the `sender.send`.
- `TimerElapsed`: the `Delay` branch of `select!`. The Answer future is dropped with the select.
- `Receive`: the caller's `.await` or `.recv()`.
- `DropReceiver`: the caller drops that receiver instead (or its await is cancelled). The task does not notice: its `sender.send` fails and `let _ =` ignores it (lines 122, 217, 317).
- `ReleaseAnswer`: an `ask_*` caller that drops or consumes its Answer.
- `Respond`: one turn of a child's loop. It takes the mailbox head and replies, or drops the sender. Replying after the receiver is gone gives `refused`.

An actor that holds the receiver of its own request is `Blocked`: its loop runs nothing else.

## Runs

| Run | cfg | Checks | Result |
|---|---|---|---|
| main | `MC_Distributor.cfg` | `TypeOK`, `DeliveredExactlyOnce`, `RequestOutcomeFaithful`, `SingleOutcome`, `NoHang`, `NoLeak` | pass |
| refinement | `MC_Refinement.cfg` | `CorrelatedResults`, `ImplementsReplyCorrelator` | pass |
| tests | `MC_Tests.cfg` (`MC_DistributorTests`) | `TestsPass` | pass |
| tests_untimed | `MC_TestsUntimed.cfg` | `TestsPass` without the timing assumption | violation (finding) |
| self_request | `MC_SelfRequest.cfg` | `NoHang` with actor callers | violation (finding) |
| late_reply | `MC_LateReply.cfg` | `ReplyAccepted` | violation (finding) |

The properties:

- `DeliveredExactlyOnce` (spec §4.2): a recipient holds at most one copy of a call. For a question, it has a slot exactly when it was a recipient. The slot is pending exactly while the copy waits in its mailbox.
- `RequestOutcomeFaithful`: a request-style call's Result is the one its own single recipient's Answer calls for: `Ok`, `TypeMismatch`, `ReplyFailed`, `Timeout` (only for `request_timeout`), or `Unreachable` with no recipient.
- `SingleOutcome` is an action property: once sent, a Result never changes. The `select!` sends exactly one.
- `NoHang`: every spawned request completes: the caller gets its Result, or it has dropped the receiver and the task has sent into the void.
- `NoLeak` (spec §5, "the losing branch must not leak"): for every request and child, a live Answer or a queued question is eventually gone, also when the Delay won or the caller dropped its receiver.
- `CorrelatedResults` and `ImplementsReplyCorrelator`: see "Refinement" below.
- `TestsPass`: see "The crate's tests" below.

Each property of the main run has a mutant in `Distributor.tla` that TLC kills:

- `ReplyOutcomeRaw` forwards the raw reply. It breaks `TypeOK`.
- `RespondNoTake` never takes the message. It breaks `DeliveredExactlyOnce`.
- `ReplyArrivesNoFallback` has no `on_fallback`. It breaks `RequestOutcomeFaithful`.
- `TimerElapsedLate` is a Delay that is not cancelled. It breaks `SingleOutcome`.
- `ReplyArrivesNoErrArm` has no `Err` arm. It breaks `NoHang`.
- `TimerElapsedKeep` sends Timeout but keeps the Answer alive after the select!. It breaks `NoLeak`.
- `RespondNoRefuse` lets a reply succeed after the Answer's receiver was dropped. It breaks `ImplementsReplyCorrelator`: the abstract slot must discard it.
- `RespondNoTake` also breaks `TestsPass`: the first tell stays at the head of a child's mailbox and no question is ever answered.

Bounds: one group, two actors and two op ids, with every call kind. This is the
smallest instance with these features:

- two concurrent calls, whose answers can resolve in either order;
- a broadcast with two recipients;
- a `tell_one` or `ask_one` that has a real choice of recipient;
- a subscription change between `request()` and its task's ask.

The main and refinement runs reach 322,544 distinct states each (about two and a half minutes).

Fairness is weak fairness on every step of a spawned task, on the caller's
receive and on each child's loop. The executor polls every spawned future that
can progress, a `Delay` always elapses, and the children loop forever on
`ctx.recv()`. There is no fairness on `subscribe`, `unsubscribe`, `DropReceiver` or the `ask_*`
callers' Answers, because nothing in the code forces those calls.

## Findings

1. **self_request** (spec gap, `distributor.rs:206`). An actor subscribed to a
   group can call `request_sync` or `request` and block on it. The dispatcher
   may choose that same actor as the responder. Its mailbox is then never read,
   and the call hangs. This contradicts §7's "never a hang".
2. **late_reply** (`distributor.rs:274`, `:327`). When the `Delay` wins, the
   Answer is dropped. A later `sender.reply(..)` then returns `Err`. The
   documented responder `unwrap()`s that `Err` and panics.
3. **tests_untimed** (`distributor.rs:800`). `test_request` unwraps `Ok(42)`
   from a `request_timeout` with a 100 ms `Delay`, and expects an `Err` from
   one with 1 ns. Only the children's 10 ms sleep makes this so: `select!`
   lets whichever branch is ready win, and TLC finds the 100 ms Delay winning,
   after which the test panics. On a slow or loaded executor the test is flaky.

## Refinement: `ReplyCorrelator` and `CorrelatorRefinement`

`ReplyCorrelator.tla` is what a request-style call promises (spec §4.3), with
no dispatcher, mailbox or task. Each call `o` goes
`Idle → Created → AskSent | AskFailed → Replied | TimedOut → Delivered`.
Its variables are `state`, `kind`, `answer` (the single-use reply slot) and `out`
(the Result). The actions are `Create`, `AskFail`, `SendAsk`, `Complete` (the
responder fills the slot once; after a timeout a reply is `discarded`), `Reply`
(`out` is the slot interpreted as the expected type), `TimeOut` (only
`request_timeout`) and `Deliver`. Fairness: a created call is asked, a sent
ask ends in a Result, and a slot is completed. `Deliver` has none, since
nothing obliges the caller to collect.

`CorrelatorRefinement.tla` maps `Distributor`'s state onto it:

- `stateBar[o]` is `Phase(o)` for a request, read off `pc[o]` and, once sent, `result[o]`. Tell and ask calls stay `Idle`.
- `kindBar[o]` is the request kind.
- `answerBar[o]` is the slot of the single recipient, with `refused` mapped to `discarded`.
- `outBar[o]` is `result[o]`.

`ImplementsReplyCorrelator == Correlator!Spec`, fairness included, is checked
by TLC in the `refinement` run. Under this mapping:

- `Spawn` is `Create`.
- `TaskAsk` is `AskFail` or `SendAsk`.
- The reply arms are `Reply`, and `TimerElapsed` is `TimeOut`.
- `Receive` of a request is `Deliver`.
- A child's `Respond` to a request is `Complete`. The reply is discarded exactly when the task already sent `Timeout`.
- Everything else is a stutter.

`ReplyCorrelator` states its own promise as `ResultFaithful`:

- a Result built from a reply is the interpretation of the reply in its slot;
- `Timeout` is the Result of `request_timeout` only;
- a reply is `discarded` only when `Timeout` has already won.

`CorrelatedResults == Correlator!ResultFaithful` reads it through the mapping.
The `refinement` run checks it. Its first two clauses repeat
`RequestOutcomeFaithful`. The third clause is new: a child's reply is refused
only after its task sent `Timeout`. The mutant `ReleaseAnswerAnyKind` breaks
it. That mutant drops the guard of `ReleaseAnswer` that limits it to ask
calls, so a request's Answer can go while its task still waits, and the reply
is then refused with no Timeout sent.

## The crate's tests: `DistributorTests`

`DistributorTests.tla` composes the test thread of `mod distributor_tests`
with the Distributor model. `TestInit` is the state `setup()` leaves: the
test group's children and the subscribe-test child subscribed through
`with_distributor`. `run_tests` steps through `test_tell`, `test_ask`,
`test_request` and `test_subscribe` in order, one variable `tpc` for where
the thread is. Each call is the model's action with that call's op id, and
each `unwrap`, `expect` and `assert` is a `Check` that panics the thread on
failure. The children reply with the expected type (`Replies = {"ok"}`), as
their exec loops do.

The two `request_timeout` calls are timed (100 ms and 1 ns against the
children's 10 ms sleep). The model has no clock. `DelayOrder` states the
order the test assumes, and `TimedTask` restricts those two `select!`s
accordingly. `TestsPass == <>(tpc = "finished")` holds with it (`tests`,
36,481 states with three test children) and fails without it
(`tests_untimed`). Deadlock is not checked: `run_tests` returns and nothing
is left to run. Three test children instead of five keep the run at seconds:
five also pass (761,501 states) but take over three minutes.

## Proofs

`DistributorProofs.tla` proves two theorems for every value of the constants
that satisfies `ConstantsAssumption`:

- `TypeCorrect == Spec => []TypeOK`;
- `RequestsFaithful == Spec => []RequestOutcomeFaithful`.

`CorrelatorRefinementProofs.tla` proves:

- `Refinement == Spec => Correlator!SafeSpec`, the safety part of the refinement.

`ReplyCorrelatorProofs.tla` proves `ResultsFaithful == SafeSpec => []ResultFaithful`
for the abstract correlator, under the hypothesis `RepliesOK` (a reply is `ok`,
`wrong` or `dropped`). `CorrelatorRefinementProofs.tla` then derives
`CorrelatedResultsHold == Spec => []CorrelatedResults` from `Refinement` and
`ResultsFaithful`.

`DeliveryProofs.tla` proves two more:

- `DeliveredOnce == Spec => []DeliveredExactlyOnce`;
- `SingleOutcomeHolds == Spec => SingleOutcome`, the action property.

The inductive invariants these proofs need (`IInv`, `RInv`, `DeliveryInv`,
`AInv`) are proof devices, not claims about the code. Each was checked once by
TLC on the main instance before its proof was written. No run checks them.

### `TypeCorrect`

The proof has three parts:

- `TypeInit`;
- `TypeStep`, with one step per action, built on per-action lemmas (`DeliverType`, `TaskAskType`, `RespondType`, …);
- PTL.

### `RequestsFaithful`

`RequestOutcomeFaithful` is not inductive by itself. Here is why. When a child
answers, it resolves the slot its mailbox head names. If a Result had already
been sent from that slot, the new answer would contradict it.

The strengthening `IInv == TypeOK /\ Rest` rules this out. `Rest` adds the
following conjuncts, each defined per op id in `Distributor.tla`:

- `FreshOps`: an unstarted op has no trace in any mailbox, slot or result.
- `TaskOps`: only request kinds have tasks, and a task that has not asked has sent nothing.
- `WaitingOps`: a waiting task has exactly one recipient with a slot, or none and `Unreachable`.
- `SlotsMatchBox`: a slot is pending exactly when its copy is still in the mailbox.
- `NoDups`: no mailbox holds the same op twice.

TLC checked `IInv` on the main instance before the proof relied on it.

The proof shows three facts:

1. `Init => IInv`.
2. `IInv /\ [Next]_vars => IInv'`.
3. `IInv => RequestOutcomeFaithful`.

PTL combines them.

The step is proved per op id. `RestByOp` splits `Rest` into the per-op
predicate `OpOK(o)` and `NoDups`. `OpFrame` says that `OpOK(o)` is unchanged by
any step that leaves `o`'s state and mailbox membership alone. Each action then
has a lemma (`RestSpawn`, `RestDirectCall`, `RestTaskAsk`, `RestSend`,
`RestReplyArrives`, `RestTimerElapsed`, `RestRespond`). Each lemma shows that
only the ops the action touches need real work.

The hardest case is `Respond`:

1. The head of a child's mailbox has a pending slot, by `SlotsMatchBox`.
2. So the task of that op is still waiting, or it has timed out.
3. A Result it has already sent is therefore `Timeout`, and the late answer leaves it alone.

The mailbox lemmas `AppendFacts`, `TailFacts`, `TailNoDup`, `BoxDeliver`,
`BoxTake` and `BoxSame` give what `Append` and `Tail` do to membership and to
duplicate-freedom.

### `Refinement`

The mapping needs three facts beyond `IInv`, gathered in `RInv`:

- `FreeOp`: an unused op id carries the placeholder record. So `Spawn` starts from an `Idle` abstract call.
- `SingleRecipient`: a request is handed to at most one child. So `Recipient(o)` names the slot `answerBar` reads.
- `AliveMatches`: while a request's slot is pending, the task has sent nothing or `Timeout`, and it holds the Answer exactly when it has sent nothing. This is what turns a refused reply into the abstract `discarded`.

The lemma `RInvariant` (`Spec => []RInv`) rests on `RInvStep`, which shows `IInv /\ RInv /\ [Next]_vars => RInv'`. As for `Rest`,
it works per op: `RInvByOp`, the frame lemma `ROpFrame`, and `RInvOne`.
`RInvOne` says a step that keeps every other op (`OthersFramed(o)`) and
re-establishes `o`'s part keeps `RInv`. There is one lemma per action.

`Refinement` rests on three facts, which PTL combines:

- `RefineInit`: `Init => Correlator!Init`.
- The conjunction `IInv /\ RInv` is inductive.
- `RefineStep`: `IInv /\ RInv /\ [Next]_vars => [Correlator!Next]_Correlator!avars`.

`BarFrame` and `BarOthers` show that a step changing the data of one op
changes the mapped state at that op at most. Each action then has a lemma
(`RefineSpawn`, `RefineTaskAsk`, `RefineReplyArrives`, `RefineTimerElapsed`,
`RefineReceive`, `RefineRespond`, `RefineDirectCall`, `RefineFrame`) naming
the abstract step it is. The hardest is `RefineRespond`:

1. The mailbox head has a pending slot (`SlotsMatchBox`) at its only recipient (`SingleRecipient`).
2. `AliveMatches` equates "the Answer is gone" with "`out` is `Timeout`". This is exactly the condition under which `Complete` discards.

### `DeliveredOnce` and `SingleOutcomeHolds`

`DeliveredExactlyOnce` counts copies with `Cardinality`, and `IInv` does
not say that a copy sits only at a recorded recipient. The strengthening is
`TypeOK /\ Rest /\ DeliveryInv`. `DeliveryInv` (per op and child,
`BoxDelivered`) says two things:

- a copy in a mailbox was handed to that mailbox's owner;
- a recipient of a question holds a slot that is not `"none"`.

It is inductive for these reasons:

- Only `Spawn`, `DirectCall` and `TaskAsk` give an op copies, recipients or slots, and they act on an op id that `FreshOps` says is untouched. `DInvFreshDeliver` covers the appends of `Deliver` and the pending slots of `OpenSlots`.
- A child's loop only removes copies (`BoxTake`).
- A child's loop resolves a slot to a reply or `refused`, never to `"none"`. This uses `Replies \subseteq {"ok", "wrong", "dropped"}` from `ConstantsAssumption`.
- Every other step leaves mailboxes, kinds, recipients and slots alone (`DInvFrame`).

`CopiesInSeq` is the one counting fact. In a sequence without duplicates, the
set of positions holding `o` is empty or a singleton, so its cardinality is 0
or 1 (`FS_EmptySet`, `FS_Singleton` of `FiniteSetTheorems`). With
`SlotsMatchBox` and `NoDups`, `ExactlyOnceFromInv` derives
`DeliveredExactlyOnce` from the strengthening.

`SingleOutcomeHolds` uses `TypeOK /\ Rest` only. `ResultStep` shows that
every step keeps every Result already sent. Only four actions write a Result,
and each writes only its own op's:

- `DirectCall` acts on a free op, whose Result is unset (`FreshOps`).
- `TaskAsk`, `ReplyArrives` and `TimerElapsed` act on a spawned or waiting task, which has sent nothing (`TaskOps`).

### `ResultsFaithful` and `CorrelatedResultsHold`

`ResultFaithful` needs a strengthening, `AInv`, and a type invariant,
`CTypeOK`. `AInv` adds two facts:

- a call that is `Idle` or `Created` has no Result;
- an `AskSent` call has a slot and no Result.

TLC checked `Correlator!AInv` on the refinement instance before the proof.
The step is proved per call: `AInvByCall` splits the invariant, `CallFrame`
covers the calls a step leaves alone, and `CallStep` has one case per
abstract action. `Complete` is the case that needs `RepliesOK`: a completed
slot is never `"none"` again, and a reply is never `pending`.

`CorrelatedResultsHold` proves nothing new about the implementation. It
instantiates `ReplyCorrelatorProofs` with the refinement mapping (`CP`) and
shows `CP!SafeSpec` to be `Correlator!SafeSpec` by expanding both. Then
`Refinement` and PTL finish. `ConstantsAssumption` discharges `RepliesOK`.
This is the use of a refinement: a fact proved once on the 100-line
abstract module holds of the implementation.

### What stays with TLC

TLAPS cannot prove the following, so they are only model-checked:

- `NoHang`, `NoLeak` and `TestsPass`, which need fairness and ENABLED;
- the fairness part of `ImplementsReplyCorrelator`;
- the violation runs.

## Plan for the next modules

1. Child stop and restart, with closed mailboxes: the partial failure of `tell_everyone` (line 542). Its return type `Result<Vec<()>, SendError>` carries no per-member outcome, so a property about it would be about the Dispatcher, which is outside this file.

## Not modelled

- The interner: names are model values.
- Message payloads and types beyond ok / wrong.
- The supervisor.
- Wall-clock durations: the `Delay` may elapse at any time while the task waits. In the test composition, `DelayOrder` stands in for the test's timing.
- The doc examples (`///` blocks) are not separate modules: their responders are `Respond`, and their callers are the model's callers.
- `test_tokio_distributor` and `blocking!` only choose the executor the tests run on.
