------------------------- MODULE ReplyCorrelatorProofs -------------------------
(***************************************************************************)
(* The abstract reply correlator keeps its correlation promise             *)
(* (ResultFaithful) in every reachable state, for every set of calls and   *)
(* every set of replies a responder can make.                              *)
(***************************************************************************)
EXTENDS ReplyCorrelator, TLAPS

\* What a responder can do with a question: reply with the expected type,
\* with another one, or drop the reply sender.
RepliesOK == Replies \subseteq {"ok", "wrong", "dropped"}

\* The abstract variables are functions on the calls.
CTypeOK ==
    /\ state \in [Ops -> {"Idle", "Created", "AskSent", "AskFailed", "Replied",
                          "TimedOut", "Delivered"}]
    /\ kind \in [Ops -> CallKinds \cup {"none"}]
    /\ answer \in [Ops -> Replies \cup {"none", "pending", "discarded"}]
    /\ out \in [Ops -> {"none", "Ok", "TypeMismatch", "ReplyFailed", "Timeout",
                        "Unreachable"}]

LEMMA CTypeInit == Init => CTypeOK
BY DEF Init, CTypeOK

LEMMA CTypeStep == CTypeOK /\ [Next]_avars => CTypeOK'
<1> SUFFICES ASSUME CTypeOK, [Next]_avars PROVE CTypeOK'
  OBVIOUS
<1>1. ASSUME NEW o \in Ops, NEW k \in CallKinds, Create(o, k) PROVE CTypeOK'
  BY <1>1 DEF Create, CTypeOK
<1>2. ASSUME NEW o \in Ops, AskFail(o) \/ SendAsk(o) \/ TimeOut(o) \/ Deliver(o)
      PROVE  CTypeOK'
  BY <1>2 DEF AskFail, SendAsk, TimeOut, Deliver, CTypeOK
<1>3. ASSUME NEW o \in Ops, Reply(o) PROVE CTypeOK'
  BY <1>3 DEF Reply, CTypeOK, Interpret
<1>4. ASSUME NEW o \in Ops, NEW r \in Replies, Complete(o, r) PROVE CTypeOK'
  BY <1>4 DEF Complete, CTypeOK
<1>5. CASE UNCHANGED avars
  BY <1>5 DEF avars, CTypeOK
<1>. QED BY <1>1, <1>2, <1>3, <1>4, <1>5 DEF Next

\* The per-call part of AInv.
CallOK(o) ==
    /\ out[o] \in {"Ok", "TypeMismatch", "ReplyFailed"} =>
          /\ answer[o] \in {"ok", "wrong", "dropped"}
          /\ out[o] = Interpret(answer[o])
    /\ out[o] = "Timeout" => kind[o] = "request_timeout"
    /\ answer[o] = "discarded" => out[o] = "Timeout"
    /\ state[o] \in {"Idle", "Created"} => out[o] = "none"
    /\ state[o] = "AskSent" => out[o] = "none" /\ answer[o] # "none"

LEMMA AInvByCall ==
    /\ AInv <=> \A o \in Ops : CallOK(o)
    /\ AInv' <=> \A o \in Ops : CallOK(o)'
BY DEF AInv, ResultFaithful, CallOK

\* A call whose state, kind, slot and Result are unchanged keeps CallOK.
LEMMA CallFrame ==
    ASSUME NEW o, state'[o] = state[o], kind'[o] = kind[o],
           answer'[o] = answer[o], out'[o] = out[o]
    PROVE  CallOK(o)' <=> CallOK(o)
BY DEF CallOK, Interpret

LEMMA AInvInit == Init => AInv
<1> SUFFICES ASSUME Init, NEW o \in Ops PROVE CallOK(o)
  BY AInvByCall
<1>. QED BY DEF Init, CallOK

(* Every step of one call keeps its CallOK, and leaves every other call    *)
(* alone.                                                                  *)
LEMMA CallStep ==
    ASSUME RepliesOK, CTypeOK, AInv, NEW o \in Ops,
           \/ \E k \in CallKinds : Create(o, k)
           \/ AskFail(o) \/ SendAsk(o) \/ Reply(o) \/ TimeOut(o) \/ Deliver(o)
           \/ \E r \in Replies : Complete(o, r)
    PROVE  AInv'
<1>0. CallOK(o)
  BY AInvByCall
<1>1. \A o2 \in Ops \ {o} : CallOK(o2)'
  <2>1. \A o2 \in Ops \ {o} :
           /\ state'[o2] = state[o2] /\ kind'[o2] = kind[o2]
           /\ answer'[o2] = answer[o2] /\ out'[o2] = out[o2]
    BY DEF Create, AskFail, SendAsk, Reply, TimeOut, Deliver, Complete, CTypeOK
  <2>. QED BY <2>1, CallFrame, AInvByCall
<1>2. CallOK(o)'
  <2>1. CASE \E k \in CallKinds : Create(o, k)
    BY <1>0, <2>1 DEF Create, CallOK, CTypeOK
  <2>2. CASE AskFail(o)
    BY <1>0, <2>2 DEF AskFail, CallOK, CTypeOK
  <2>3. CASE SendAsk(o)
    BY <1>0, <2>3 DEF SendAsk, CallOK, CTypeOK
  <2>4. CASE Reply(o)
    BY <1>0, <2>4 DEF Reply, CallOK, Interpret, CTypeOK
  <2>5. CASE TimeOut(o)
    BY <1>0, <2>5 DEF TimeOut, CallOK, CTypeOK
  <2>6. CASE Deliver(o)
    BY <1>0, <2>6 DEF Deliver, CallOK, CTypeOK
  <2>7. CASE \E r \in Replies : Complete(o, r)
    <3>1. PICK r \in Replies : Complete(o, r)
      BY <2>7
    <3>2. r \in {"ok", "wrong", "dropped"}
      BY DEF RepliesOK
    <3>. QED BY <1>0, <3>1, <3>2 DEF Complete, CallOK, CTypeOK
  <2>. QED BY <2>1, <2>2, <2>3, <2>4, <2>5, <2>6, <2>7
<1>. QED BY <1>1, <1>2, AInvByCall

LEMMA AInvStep == RepliesOK /\ CTypeOK /\ AInv /\ [Next]_avars => AInv'
<1> SUFFICES ASSUME RepliesOK, CTypeOK, AInv, [Next]_avars PROVE AInv'
  OBVIOUS
<1>1. CASE Next
  BY <1>1, CallStep DEF Next
<1>2. CASE UNCHANGED avars
  BY <1>2 DEF avars, AInv, ResultFaithful
<1>. QED BY <1>1, <1>2

(* The correlator keeps its promise in every reachable state when replies  *)
(* are replies of the expected type, of another type, or dropped senders: *)
(* a Result built from a reply is that reply's interpretation, Timeout     *)
(* belongs to request_timeout, and a discarded reply means Timeout won.    *)
THEOREM ResultsFaithful ==
    ASSUME RepliesOK PROVE SafeSpec => []ResultFaithful
<1>1. Init => CTypeOK /\ AInv
  BY CTypeInit, AInvInit
<1>2. CTypeOK /\ AInv /\ [Next]_avars => CTypeOK' /\ AInv'
  BY CTypeStep, AInvStep
<1>3. CTypeOK /\ AInv => ResultFaithful
  BY DEF AInv
<1>. QED BY <1>1, <1>2, <1>3, PTL DEF SafeSpec

=============================================================================
