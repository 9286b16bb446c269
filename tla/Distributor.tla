----------------------------- MODULE Distributor -----------------------------
(***************************************************************************)
(* The named-group routing layer of bastion (src/distributor.rs): the      *)
(* subscriber registry, the group dispatcher's tell/ask operations, the    *)
(* actors that answer questions from their mailbox, and the three request  *)
(* variants that spawn a task which asks one subscriber, awaits its single *)
(* reply (racing a timer for request_timeout) and hands exactly one Result *)
(* to the caller through a oneshot conduit.                                *)
(*                                                                         *)
(* Data is abstracted: a message is the id of the operation that sent it, *)
(* a reply is only "of the expected type R" ("ok") or not ("wrong"), or    *)
(* the reply sender is dropped without replying ("dropped").               *)
(***************************************************************************)
EXTENDS Naturals, Sequences, FiniteSets

CONSTANTS
    Names,    \* distributor names (interned handles)
    Actors,   \* children that can subscribe to a distributor (ChildRef)
    Ops,      \* identities of the calls made through distributors
    Main,     \* a caller that is not an actor (a plain thread or main)
    Owners,   \* who may call request/request_sync/request_timeout
    Replies   \* what a responder's on_question handler may do with a question

ASSUME ConstantsAssumption ==
    /\ Names # {}
    /\ Main \notin Actors
    /\ Owners \subseteq Actors \cup {Main}
    /\ Replies \subseteq {"ok", "wrong", "dropped"}

VARIABLES
    subs,       \* subs[n]: the recipients registered for distributor n
    mailbox,    \* mailbox[a]: the messages (op ids) waiting in a's mailbox
    op,         \* op[o]: kind, distributor and caller of call o
    pc,         \* pc[o]: where call o (and its spawned task) is
    result,     \* result[o]: the value sent into o's result conduit
    delivered,  \* delivered[o]: the subscribers the dispatcher handed o to
    slot,       \* slot[<<o, a>>]: state of the reply slot (Answer) of o at a
    rxAlive,    \* rxAlive[<<o, a>>]: the Answer's receiving end is still held
    rxHeld      \* rxHeld[o]: the caller still holds o's result receiver

vars == <<subs, mailbox, op, pc, result, delivered, slot, rxAlive, rxHeld>>

RequestKinds == {"request", "request_sync", "request_timeout"}
AskKinds     == {"ask_one", "ask_everyone"}
TellKinds    == {"tell_one", "tell_everyone"}
Kinds        == RequestKinds \cup AskKinds \cup TellKinds

\* An op id not yet used by any call.
NoName == CHOOSE n \in Names : TRUE
NoOp   == [kind |-> "none", name |-> NoName, owner |-> Main]
OpRec  == [kind : Kinds, name : Names, owner : Actors \cup {Main}]

Slots       == Ops \X Actors
SlotStates  == {"none", "pending", "ok", "wrong", "dropped", "refused"}
PcStates    == {"free", "spawned", "waiting", "sent", "done"}
Outcomes    == {"Ok", "TypeMismatch", "ReplyFailed", "Timeout", "Unreachable",
                "Sent"}

(* The Result the request task builds from a resolved Answer: on_tell with *)
(* type R gives Ok, on_fallback gives the wrong-type error, and an Err of  *)
(* the Answer (its sender was dropped) gives "couldn't receive reply".     *)
\* Mutant: the task forwards the raw Answer state instead of converting it.
ReplyOutcomeRaw(s) == s

ReplyOutcome(s) ==
    IF s = "ok" THEN "Ok" ELSE IF s = "wrong" THEN "TypeMismatch"
                          ELSE "ReplyFailed"

\* An actor that awaits the result of its own request runs nothing else:
\* its exec loop is suspended and its mailbox is not read.
Blocked(a) == \E o \in Ops : op[o].owner = a /\ rxHeld[o]

-----------------------------------------------------------------------------
(* Registry and dispatcher (bastion's Dispatcher, outside this file).      *)

\* Hand op o to the recipients S: one copy appended to each mailbox.
Deliver(o, S) ==
    /\ mailbox' = [a \in Actors |->
                     IF a \in S THEN Append(mailbox[a], o) ELSE mailbox[a]]
    /\ delivered' = [delivered EXCEPT ![o] = S]

\* One fresh reply slot per recipient of a question.
OpenSlots(o, S) ==
    /\ slot' = [s \in Slots |-> IF s[1] = o /\ s[2] \in S THEN "pending" ELSE slot[s]]
    /\ rxAlive' = [s \in Slots |-> IF s[1] = o /\ s[2] \in S THEN TRUE ELSE rxAlive[s]]

register_recipient(n, a) ==
    /\ subs' = [subs EXCEPT ![n] = @ \cup {a}]
    /\ UNCHANGED <<mailbox, op, pc, result, delivered, slot, rxAlive, rxHeld>>

remove_recipient(n, a) ==
    /\ subs' = [subs EXCEPT ![n] = @ \ {a}]
    /\ UNCHANGED <<mailbox, op, pc, result, delivered, slot, rxAlive, rxHeld>>

-----------------------------------------------------------------------------
(* Distributor::subscribe / unsubscribe                                    *)

subscribe(n, a) == register_recipient(n, a)

unsubscribe(n, a) == remove_recipient(n, a)

(* Distributor::tell_one, tell_everyone, ask_one, ask_everyone: the        *)
(* dispatcher works on the subscriber set at call time and returns         *)
(* synchronously; an empty group is Unreachable.                           *)
DirectCall(o, k, n, S) ==
    /\ pc[o] = "free"
    /\ op' = [op EXCEPT ![o] = [kind |-> k, name |-> n, owner |-> Main]]
    /\ pc' = [pc EXCEPT ![o] = "done"]
    /\ IF S = {}
          THEN /\ result' = [result EXCEPT ![o] = "Unreachable"]
               /\ UNCHANGED <<mailbox, delivered, slot, rxAlive>>
          ELSE /\ result' = [result EXCEPT ![o] = "Sent"]
               /\ Deliver(o, S)
               /\ IF k \in AskKinds THEN OpenSlots(o, S)
                                    ELSE UNCHANGED <<slot, rxAlive>>
    /\ UNCHANGED <<subs, rxHeld>>

\* The subsets the "one" variants may pick from the group: one member, or
\* none when the group is empty.
OneOf(n) == IF subs[n] = {} THEN {{}} ELSE {{a} : a \in subs[n]}

tell_one(o, n) == \E S \in OneOf(n) : DirectCall(o, "tell_one", n, S)

tell_everyone(o, n) == DirectCall(o, "tell_everyone", n, subs[n])

ask_one(o, n) == \E S \in OneOf(n) : DirectCall(o, "ask_one", n, S)

ask_everyone(o, n) == DirectCall(o, "ask_everyone", n, subs[n])

\* Mutant: any holder may drop an Answer, a request's task included.
ReleaseAnswerAnyKind(o, a) ==
    /\ rxAlive[<<o, a>>]
    /\ rxAlive' = [rxAlive EXCEPT ![<<o, a>>] = FALSE]
    /\ UNCHANGED <<subs, mailbox, op, pc, result, delivered, slot, rxHeld>>

\* The caller of ask_one/ask_everyone awaits or drops an Answer it holds.
ReleaseAnswer(o, a) ==
    /\ op[o].kind \in AskKinds
    /\ rxAlive[<<o, a>>]
    /\ rxAlive' = [rxAlive EXCEPT ![<<o, a>>] = FALSE]
    /\ UNCHANGED <<subs, mailbox, op, pc, result, delivered, slot, rxHeld>>

-----------------------------------------------------------------------------
(* request, request_sync, request_timeout: create the result conduit,      *)
(* spawn the task and return the receiver at once.  The caller awaits     *)
(* (or recv()s) the receiver; an actor caller is suspended meanwhile.      *)
Spawn(o, k, n, w) ==
    /\ pc[o] = "free"
    /\ w \in Owners
    /\ w \in Actors => ~Blocked(w)
    /\ op' = [op EXCEPT ![o] = [kind |-> k, name |-> n, owner |-> w]]
    /\ pc' = [pc EXCEPT ![o] = "spawned"]
    /\ rxHeld' = [rxHeld EXCEPT ![o] = TRUE]
    /\ UNCHANGED <<subs, mailbox, result, delivered, slot, rxAlive>>

request(o, n, w) == Spawn(o, "request", n, w)

request_sync(o, n, w) == Spawn(o, "request_sync", n, w)

request_timeout(o, n, w) == Spawn(o, "request_timeout", n, w)

(* The spawned task runs SYSTEM.dispatcher().ask(s, question): the group   *)
(* is read now, not when request was called.  Err is forwarded at once.    *)
TaskAsk(o) ==
    /\ pc[o] = "spawned"
    /\ LET n == op[o].name IN
         \/ /\ subs[n] = {}
            /\ result' = [result EXCEPT ![o] = "Unreachable"]
            /\ pc' = [pc EXCEPT ![o] = "sent"]
            /\ UNCHANGED <<mailbox, delivered, slot, rxAlive>>
         \/ \E a \in subs[n] :
               /\ Deliver(o, {a})
               /\ OpenSlots(o, {a})
               /\ pc' = [pc EXCEPT ![o] = "waiting"]
               /\ UNCHANGED result
    /\ UNCHANGED <<subs, op, rxHeld>>

\* Mutant: on_fallback missing, a reply of any type is taken as Ok.
ReplyArrivesNoFallback(o) ==
    /\ pc[o] = "waiting"
    /\ \E a \in delivered[o] :
         /\ slot[<<o, a>>] \in {"ok", "wrong", "dropped"}
         /\ result' = [result EXCEPT ![o] =
                         IF slot[<<o, a>>] = "dropped" THEN "ReplyFailed" ELSE "Ok"]
         /\ rxAlive' = [rxAlive EXCEPT ![<<o, a>>] = FALSE]
    /\ pc' = [pc EXCEPT ![o] = "sent"]
    /\ UNCHANGED <<subs, mailbox, op, delivered, slot, rxHeld>>

\* Mutant: the Err arm of the awaited Answer is missing, a dropped reply
\* sender leaves the task waiting.
ReplyArrivesNoErrArm(o) ==
    /\ pc[o] = "waiting"
    /\ \E a \in delivered[o] :
         /\ slot[<<o, a>>] \in {"ok", "wrong"}
         /\ result' = [result EXCEPT ![o] = ReplyOutcome(slot[<<o, a>>])]
         /\ rxAlive' = [rxAlive EXCEPT ![<<o, a>>] = FALSE]
    /\ pc' = [pc EXCEPT ![o] = "sent"]
    /\ UNCHANGED <<subs, mailbox, op, delivered, slot, rxHeld>>

\* The awaited Answer resolved: turn it into the Result and send it.
ReplyArrives(o) ==
    /\ pc[o] = "waiting"
    /\ \E a \in delivered[o] :
         /\ slot[<<o, a>>] \in {"ok", "wrong", "dropped"}
         /\ result' = [result EXCEPT ![o] = ReplyOutcome(slot[<<o, a>>])]
         /\ rxAlive' = [rxAlive EXCEPT ![<<o, a>>] = FALSE]
    /\ pc' = [pc EXCEPT ![o] = "sent"]
    /\ UNCHANGED <<subs, mailbox, op, delivered, slot, rxHeld>>

AwaitReply(o) == op[o].kind = "request" /\ ReplyArrives(o)

AwaitReplySync(o) == op[o].kind = "request_sync" /\ ReplyArrives(o)

SelectReply(o) == op[o].kind = "request_timeout" /\ ReplyArrives(o)

\* Mutant: the Delay is not cancelled with the select! and still fires
\* after the reply was sent.
TimerElapsedLate(o) ==
    /\ pc[o] \in {"waiting", "sent"}
    /\ op[o].kind = "request_timeout"
    /\ result' = [result EXCEPT ![o] = "Timeout"]
    /\ rxAlive' = [s \in Slots |-> IF s[1] = o THEN FALSE ELSE rxAlive[s]]
    /\ pc' = [pc EXCEPT ![o] = "sent"]
    /\ UNCHANGED <<subs, mailbox, op, delivered, slot, rxHeld>>

\* Mutant: the Delay branch sends Timeout but the Answer outlives the race.
TimerElapsedKeep(o) ==
    /\ pc[o] = "waiting"
    /\ op[o].kind = "request_timeout"
    /\ result' = [result EXCEPT ![o] = "Timeout"]
    /\ pc' = [pc EXCEPT ![o] = "sent"]
    /\ UNCHANGED <<subs, mailbox, op, delivered, slot, rxAlive, rxHeld>>

(* The Delay of request_timeout wins the select!: Timeout is sent and the  *)
(* Answer future is dropped with the select, so a later reply is refused.  *)
TimerElapsed(o) ==
    /\ pc[o] = "waiting"
    /\ op[o].kind = "request_timeout"
    /\ result' = [result EXCEPT ![o] = "Timeout"]
    /\ rxAlive' = [s \in Slots |-> IF s[1] = o THEN FALSE ELSE rxAlive[s]]
    /\ pc' = [pc EXCEPT ![o] = "sent"]
    /\ UNCHANGED <<subs, mailbox, op, delivered, slot, rxHeld>>

\* The caller's receiver.await / recv() returns the Result.
Receive(o) ==
    /\ pc[o] = "sent"
    /\ rxHeld[o]
    /\ pc' = [pc EXCEPT ![o] = "done"]
    /\ rxHeld' = [rxHeld EXCEPT ![o] = FALSE]
    /\ UNCHANGED <<subs, mailbox, op, result, delivered, slot, rxAlive>>

(* The caller drops the receiver request* returned instead of awaiting it  *)
(* (or its await is cancelled).  The task does not notice: it goes on and  *)
(* its sender.send fails, which `let _ =` ignores.                         *)
DropReceiver(o) ==
    /\ rxHeld[o]
    /\ rxHeld' = [rxHeld EXCEPT ![o] = FALSE]
    /\ UNCHANGED <<subs, mailbox, op, pc, result, delivered, slot, rxAlive>>

-----------------------------------------------------------------------------
\* Mutant: the loop peeks at its next message without taking it.
RespondNoTake(a) ==
    /\ ~Blocked(a)
    /\ mailbox[a] # <<>>
    /\ LET o == Head(mailbox[a]) IN
         /\ UNCHANGED mailbox
         /\ IF op[o].kind \in TellKinds
               THEN UNCHANGED slot
               ELSE \E r \in Replies :
                      slot' = [slot EXCEPT ![<<o, a>>] =
                                 IF r # "dropped" /\ ~rxAlive[<<o, a>>]
                                    THEN "refused" ELSE r]
    /\ UNCHANGED <<subs, op, pc, result, delivered, rxAlive, rxHeld>>

\* Mutant: a reply succeeds even after the Answer's receiver was dropped.
RespondNoRefuse(a) ==
    /\ ~Blocked(a)
    /\ mailbox[a] # <<>>
    /\ LET o == Head(mailbox[a]) IN
         /\ mailbox' = [mailbox EXCEPT ![a] = Tail(@)]
         /\ IF op[o].kind \in TellKinds
               THEN UNCHANGED slot
               ELSE \E r \in Replies : slot' = [slot EXCEPT ![<<o, a>>] = r]
    /\ UNCHANGED <<subs, op, pc, result, delivered, rxAlive, rxHeld>>

(* A subscribed child's exec loop: ctx.recv() takes the next message and   *)
(* MessageHandler runs on_question, which replies with the expected type,  *)
(* with another type, or returns without replying (the sender is dropped). *)
(* sender.reply fails when the Answer's receiver is gone.                  *)
Respond(a) ==
    /\ ~Blocked(a)
    /\ mailbox[a] # <<>>
    /\ LET o == Head(mailbox[a]) IN
         /\ mailbox' = [mailbox EXCEPT ![a] = Tail(@)]
         /\ IF op[o].kind \in TellKinds
               THEN UNCHANGED slot
               ELSE \E r \in Replies :
                      slot' = [slot EXCEPT ![<<o, a>>] =
                                 IF r # "dropped" /\ ~rxAlive[<<o, a>>]
                                    THEN "refused" ELSE r]
    /\ UNCHANGED <<subs, op, pc, result, delivered, rxAlive, rxHeld>>

-----------------------------------------------------------------------------
Init ==
    /\ subs = [n \in Names |-> {}]
    /\ mailbox = [a \in Actors |-> <<>>]
    /\ op = [o \in Ops |-> NoOp]
    /\ pc = [o \in Ops |-> "free"]
    /\ result = [o \in Ops |-> "none"]
    /\ delivered = [o \in Ops |-> {}]
    /\ slot = [s \in Slots |-> "none"]
    /\ rxAlive = [s \in Slots |-> FALSE]
    /\ rxHeld = [o \in Ops |-> FALSE]

Next ==
    \/ \E n \in Names, a \in Actors : subscribe(n, a) \/ unsubscribe(n, a)
    \/ \E o \in Ops, n \in Names :
         \/ tell_one(o, n) \/ tell_everyone(o, n)
         \/ ask_one(o, n) \/ ask_everyone(o, n)
         \/ \E w \in Owners :
              request(o, n, w) \/ request_sync(o, n, w) \/ request_timeout(o, n, w)
    \/ \E o \in Ops :
         \/ TaskAsk(o) \/ AwaitReply(o) \/ AwaitReplySync(o) \/ SelectReply(o)
         \/ TimerElapsed(o) \/ Receive(o) \/ DropReceiver(o)
    \/ \E o \in Ops, a \in Actors : ReleaseAnswer(o, a)
    \/ \E a \in Actors : Respond(a)

(* The executor polls every spawned task and every child's loop whenever   *)
(* it can progress, the Delay always elapses, and a caller that awaits a   *)
(* result conduit gets it once it is sent.  Callers that hold an Answer of *)
(* ask_one/ask_everyone are under no obligation to await it.               *)
Fairness ==
    /\ \A o \in Ops :
         /\ WF_vars(TaskAsk(o))
         /\ WF_vars(AwaitReply(o)) /\ WF_vars(AwaitReplySync(o))
         /\ WF_vars(SelectReply(o)) /\ WF_vars(TimerElapsed(o))
         /\ WF_vars(Receive(o))
    /\ \A a \in Actors : WF_vars(Respond(a))

Spec == Init /\ [][Next]_vars /\ Fairness

-----------------------------------------------------------------------------
TypeOK ==
    /\ subs \in [Names -> SUBSET Actors]
    /\ mailbox \in [Actors -> Seq(Ops)]
    /\ op \in [Ops -> OpRec \cup {NoOp}]
    /\ pc \in [Ops -> PcStates]
    /\ result \in [Ops -> Outcomes \cup {"none"}]
    /\ delivered \in [Ops -> SUBSET Actors]
    /\ slot \in [Slots -> SlotStates]
    /\ rxAlive \in [Slots -> BOOLEAN]
    /\ rxHeld \in [Ops -> BOOLEAN]

\* The copies of op o waiting in a's mailbox.
Copies(o, a) == Cardinality({i \in DOMAIN mailbox[a] : mailbox[a][i] = o})

(* The dispatcher's fan-out and the children's loops together hand every  *)
(* recipient of a call exactly one copy and, for a question, exactly one   *)
(* reply slot: a copy waits in the mailbox while the slot is pending, and  *)
(* leaves it exactly when the handler resolves the slot (tell_everyone,    *)
(* ask_everyone, request* and Respond).                                    *)
DeliveredExactlyOnce ==
    \A o \in Ops, a \in Actors :
       /\ Copies(o, a) <= 1
       /\ Copies(o, a) = 1 => a \in delivered[o]
       /\ op[o].kind \notin TellKinds =>
            /\ (a \in delivered[o]) <=> (slot[<<o, a>>] # "none")
            /\ (slot[<<o, a>>] = "pending") <=> (Copies(o, a) = 1)

(* Reply correlation of request, request_sync and request_timeout: the     *)
(* Result a request task sends is the one its own Answer calls for: Ok or  *)
(* TypeMismatch after the chosen responder replied with the expected or    *)
(* another type, ReplyFailed after it dropped the reply sender, Timeout    *)
(* only for request_timeout, and Unreachable only when nothing was asked.  *)
OutcomeFaithful(o) ==
    op[o].kind \in RequestKinds /\ result[o] # "none" =>
       IF result[o] = "Unreachable" THEN delivered[o] = {}
       ELSE \E a \in Actors :
               /\ delivered[o] = {a}
               /\ \/ result[o] = "Timeout" /\ op[o].kind = "request_timeout"
                  \/ /\ slot[<<o, a>>] \in {"ok", "wrong", "dropped"}
                     /\ result[o] = ReplyOutcome(slot[<<o, a>>])

RequestOutcomeFaithful == \A o \in Ops : OutcomeFaithful(o)

(* A request observes exactly one of reply, timeout or upstream failure:   *)
(* once its task has sent a Result (select! in request_timeout included),  *)
(* no later step changes it.                                               *)
SingleOutcome ==
    [][\A o \in Ops : result[o] # "none" => result'[o] = result[o]]_vars

(* No request hangs: the task of every request, request_sync or          *)
(* request_timeout eventually sends its Result, and a caller that still    *)
(* holds the receiver gets it.                                            *)
NoHang ==
    \A o \in Ops : pc[o] = "spawned" ~> (pc[o] = "done" \/ (pc[o] = "sent" /\ ~rxHeld[o]))

(* A request leaves nothing behind (spec section 5: the losing branch of   *)
(* the race must not leak): the task eventually lets go of its Answer, and *)
(* its question is eventually taken from the child's mailbox, also when   *)
(* the Delay won or the caller dropped its receiver.                       *)
NoLeak ==
    \A o \in Ops, a \in Actors :
       (op[o].kind \in RequestKinds /\ (rxAlive[<<o, a>>] \/ slot[<<o, a>>] = "pending"))
          ~> (~rxAlive[<<o, a>>] /\ slot[<<o, a>>] # "pending")

(* The responders of the request/request_timeout doc examples call        *)
(* sender.reply(..).unwrap(): a reply to a question sent by a request task *)
(* is never refused because the task already let its Answer go.           *)
ReplyAccepted ==
    \A s \in Slots : op[s[1]].kind \in RequestKinds => slot[s] # "refused"

\* Op o waits in a's mailbox.
InBox(o, a) == \E i \in DOMAIN mailbox[a] : mailbox[a][i] = o

\* No message is twice in a mailbox.
NoDup(a) == \A i, j \in DOMAIN mailbox[a] : mailbox[a][i] = mailbox[a][j] => i = j

\* An op id not yet asked (free, or spawned but not yet dispatched) has
\* no result, no recipient, no slot and no copy in any mailbox.
FreshOp(o) ==
    pc[o] \in {"free", "spawned"} =>
       /\ result[o] = "none"
       /\ delivered[o] = {}
       /\ \A a \in Actors : slot[<<o, a>>] = "none" /\ ~InBox(o, a)

FreshOps == \A o \in Ops : FreshOp(o)

\* A spawned or waiting task belongs to a request and has sent nothing.
TaskOp(o) ==
    pc[o] \in {"spawned", "waiting"} =>
       op[o].kind \in RequestKinds /\ result[o] = "none"

TaskOps == \A o \in Ops : TaskOp(o)

\* A waiting task asked exactly one recipient, which holds its slot.
WaitingOp(o) ==
    pc[o] = "waiting" =>
       \E a \in Actors : delivered[o] = {a} /\ slot[<<o, a>>] # "none"

WaitingOps == \A o \in Ops : WaitingOp(o)

\* A question waits in its recipient's mailbox exactly while its slot is
\* pending, and only recipients have slots.
SlotMatchesBox(o, a) ==
    /\ op[o].kind \notin TellKinds =>
          ((slot[<<o, a>>] = "pending") <=> InBox(o, a))
    /\ slot[<<o, a>>] # "none" => a \in delivered[o]

SlotsMatchBox == \A o \in Ops, a \in Actors : SlotMatchesBox(o, a)

NoDups == \A a \in Actors : NoDup(a)

(* The inductive strengthening of RequestOutcomeFaithful: a resolved slot  *)
(* must never be resolved again, which needs SlotsMatchBox and NoDups; a   *)
(* task that sends its Result must find its single recipient, which needs  *)
(* FreshOps, TaskOps and WaitingOps.  The proofs use it; it is not a     *)
(* claim of its own about the code.                                        *)
IInv ==
    /\ TypeOK
    /\ RequestOutcomeFaithful
    /\ FreshOps
    /\ TaskOps
    /\ WaitingOps
    /\ SlotsMatchBox
    /\ NoDups

=============================================================================
