------------------------- MODULE CorrelatorRefinement -------------------------
(***************************************************************************)
(* Distributor implements ReplyCorrelator: the state of a request's task,  *)
(* its result conduit and the Answer of its single recipient, mapped to    *)
(* the abstract state machine of one request-style call.  Tell and ask     *)
(* calls are not request-style calls and stay Idle.                        *)
(***************************************************************************)
EXTENDS Distributor

IsRequest(o) == op[o].kind \in RequestKinds

\* The recipient the task asked (its delivery set has at most one member).
Recipient(o) == CHOOSE a \in delivered[o] : TRUE

\* Where the task of request o is; a sent Result tells which branch won.
Phase(o) ==
    CASE pc[o] = "spawned" -> "Created"
      [] pc[o] = "waiting" -> "AskSent"
      [] pc[o] = "done"    -> "Delivered"
      [] pc[o] = "sent" /\ result[o] = "Unreachable" -> "AskFailed"
      [] pc[o] = "sent" /\ result[o] = "Timeout"     -> "TimedOut"
      [] OTHER                                       -> "Replied"

\* A reply refused because the Answer was already dropped is discarded.
SlotAnswer(s) == IF s = "refused" THEN "discarded" ELSE s

stateBar  == [o \in Ops |-> IF IsRequest(o) THEN Phase(o) ELSE "Idle"]
kindBar   == [o \in Ops |-> IF IsRequest(o) THEN op[o].kind ELSE "none"]
answerBar == [o \in Ops |-> IF IsRequest(o) /\ delivered[o] # {}
                              THEN SlotAnswer(slot[<<o, Recipient(o)>>])
                              ELSE "none"]
outBar    == [o \in Ops |-> IF IsRequest(o) THEN result[o] ELSE "none"]

Correlator == INSTANCE ReplyCorrelator
                 WITH state <- stateBar, kind <- kindBar,
                      answer <- answerBar, out <- outBar

(* The three request variants together implement the reply correlator of *)
(* spec section 4.3, fairness included: every behaviour of request,       *)
(* request_sync and request_timeout (spawned task, dispatcher ask, reply   *)
(* or Delay, send through the conduit, the caller's receive) is a          *)
(* behaviour of the abstract state machine, and every call the abstract    *)
(* machine must move on does move on.                                      *)
ImplementsReplyCorrelator == Correlator!Spec

(* The correlation promise of the abstract correlator, read through the    *)
(* mapping: a request's Result built from a reply is that of its single    *)
(* recipient's Answer, Timeout comes from request_timeout alone, and a     *)
(* reply is refused (discarded) only after its task sent Timeout.          *)
CorrelatedResults == Correlator!ResultFaithful

-----------------------------------------------------------------------------
(* What the refinement proof needs beyond IInv.                            *)

\* An op id not yet used still carries the placeholder record.
FreeOp(o) == pc[o] = "free" => op[o] = NoOp

\* A request task asks at most one recipient.
SingleRecipient(o) == IsRequest(o) => delivered[o] = {} \/ \E a \in Actors : delivered[o] = {a}

(* While a request's question still waits for its reply, the task holds   *)
(* the Answer exactly when it has not yet sent a Result, and the only      *)
(* Result it can have sent is Timeout.                                     *)
AliveMatches(o, a) ==
    IsRequest(o) /\ slot[<<o, a>>] = "pending" =>
       /\ result[o] \in {"none", "Timeout"}
       /\ rxAlive[<<o, a>>] <=> result[o] = "none"

RInv ==
    \A o \in Ops : FreeOp(o) /\ SingleRecipient(o) /\ \A a \in Actors : AliveMatches(o, a)

=============================================================================
