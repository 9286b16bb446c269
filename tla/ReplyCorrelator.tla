--------------------------- MODULE ReplyCorrelator ---------------------------
(***************************************************************************)
(* What a request-style call promises (spec section 4.3), one call at a    *)
(* time, with no dispatcher, mailbox or task: each call goes               *)
(*                                                                         *)
(*   Created -> AskSent -> {Replied | TimedOut | AskFailed} -> Delivered   *)
(*                                                                         *)
(* AskFailed short-circuits without a reply slot.  An AskSent call owns    *)
(* one single-use reply slot that its responder completes at most once;    *)
(* the Result is the slot's reply interpreted as the expected type, or     *)
(* Timeout for request_timeout, and once chosen it never changes.  A reply *)
(* that completes the slot after the timer won is discarded.               *)
(***************************************************************************)
CONSTANTS
    Ops,      \* identities of the request-style calls
    Replies   \* what a responder may do with a question

VARIABLES
    state,    \* state[o]: where call o is in its state machine
    kind,     \* kind[o]: request, request_sync or request_timeout
    answer,   \* answer[o]: the reply slot of o
    out       \* out[o]: the Result chosen for o

avars == <<state, kind, answer, out>>

CallKinds == {"request", "request_sync", "request_timeout"}

\* The typed-envelope step: the expected type gives Ok, another type
\* TypeMismatch, and a slot dropped without a reply ReplyFailed.
Interpret(r) ==
    IF r = "ok" THEN "Ok" ELSE IF r = "wrong" THEN "TypeMismatch" ELSE "ReplyFailed"

Init ==
    /\ state = [o \in Ops |-> "Idle"]
    /\ kind = [o \in Ops |-> "none"]
    /\ answer = [o \in Ops |-> "none"]
    /\ out = [o \in Ops |-> "none"]

Create(o, k) ==
    /\ state[o] = "Idle"
    /\ state' = [state EXCEPT ![o] = "Created"]
    /\ kind' = [kind EXCEPT ![o] = k]
    /\ UNCHANGED <<answer, out>>

\* No subscriber: the failure is the Result, and no slot is ever made.
AskFail(o) ==
    /\ state[o] = "Created"
    /\ state' = [state EXCEPT ![o] = "AskFailed"]
    /\ out' = [out EXCEPT ![o] = "Unreachable"]
    /\ UNCHANGED <<kind, answer>>

SendAsk(o) ==
    /\ state[o] = "Created"
    /\ state' = [state EXCEPT ![o] = "AskSent"]
    /\ answer' = [answer EXCEPT ![o] = "pending"]
    /\ UNCHANGED <<kind, out>>

\* The responder completes the slot once; after a timer win the reply is
\* discarded (a slot dropped without reply is dropped either way).
Complete(o, r) ==
    /\ answer[o] = "pending"
    /\ answer' = [answer EXCEPT ![o] =
                    IF r # "dropped" /\ out[o] = "Timeout" THEN "discarded" ELSE r]
    /\ UNCHANGED <<state, kind, out>>

Reply(o) ==
    /\ state[o] = "AskSent"
    /\ answer[o] \in {"ok", "wrong", "dropped"}
    /\ state' = [state EXCEPT ![o] = "Replied"]
    /\ out' = [out EXCEPT ![o] = Interpret(answer[o])]
    /\ UNCHANGED <<kind, answer>>

TimeOut(o) ==
    /\ state[o] = "AskSent"
    /\ kind[o] = "request_timeout"
    /\ state' = [state EXCEPT ![o] = "TimedOut"]
    /\ out' = [out EXCEPT ![o] = "Timeout"]
    /\ UNCHANGED <<kind, answer>>

Deliver(o) ==
    /\ state[o] \in {"Replied", "TimedOut", "AskFailed"}
    /\ state' = [state EXCEPT ![o] = "Delivered"]
    /\ UNCHANGED <<kind, answer, out>>

Next ==
    \E o \in Ops :
       \/ \E k \in CallKinds : Create(o, k)
       \/ AskFail(o) \/ SendAsk(o) \/ Reply(o) \/ TimeOut(o) \/ Deliver(o)
       \/ \E r \in Replies : Complete(o, r)

(* A created call is always asked, a sent ask always ends in a Result, and *)
(* a slot is always completed.  Nothing obliges the caller to collect the *)
(* Result, so Deliver has no fairness.                                     *)
Fairness ==
    \A o \in Ops :
       /\ WF_avars(AskFail(o) \/ SendAsk(o))
       /\ WF_avars(Reply(o) \/ TimeOut(o))
       /\ WF_avars(\E r \in Replies : Complete(o, r))

SafeSpec == Init /\ [][Next]_avars

(* The correlation promise of section 4.3: a Result built from a reply is  *)
(* the interpretation of the reply its own slot holds, and that reply no   *)
(* longer changes; Timeout is the Result of request_timeout only; and a    *)
(* reply is discarded only when the timer has already won.                 *)
ResultFaithful ==
    \A o \in Ops :
       /\ out[o] \in {"Ok", "TypeMismatch", "ReplyFailed"} =>
             /\ answer[o] \in {"ok", "wrong", "dropped"}
             /\ out[o] = Interpret(answer[o])
       /\ out[o] = "Timeout" => kind[o] = "request_timeout"
       /\ answer[o] = "discarded" => out[o] = "Timeout"

(* Its inductive strengthening: a call not yet asked has no Result, and a  *)
(* call whose ask is out has a slot and no Result.                         *)
AInv ==
    /\ ResultFaithful
    /\ \A o \in Ops :
          /\ state[o] \in {"Idle", "Created"} => out[o] = "none"
          /\ state[o] = "AskSent" => out[o] = "none" /\ answer[o] # "none"

Spec == SafeSpec /\ Fairness

=============================================================================
