---------------------- MODULE CorrelatorRefinementProofs ----------------------
(***************************************************************************)
(* Proof that Distributor implements the safety part of ReplyCorrelator   *)
(* under the mapping of CorrelatorRefinement, for every value of the      *)
(* constants allowed by ConstantsAssumption.                               *)
(***************************************************************************)
EXTENDS CorrelatorRefinement, DistributorProofs

-----------------------------------------------------------------------------
(* RInv, the facts the mapping needs beyond IInv, is kept by every step.   *)

\* The per-op part of RInv.
ROpOK(o) == FreeOp(o) /\ SingleRecipient(o) /\ \A a \in Actors : AliveMatches(o, a)

LEMMA RInvByOp ==
    /\ RInv <=> \A o \in Ops : ROpOK(o)
    /\ RInv' <=> \A o \in Ops : ROpOK(o)'
BY DEF RInv, ROpOK

\* An op whose own data, slots and Answers are unchanged keeps its part.
LEMMA ROpFrame ==
    ASSUME NEW o, op'[o] = op[o], pc'[o] = pc[o], result'[o] = result[o],
           delivered'[o] = delivered[o],
           \A a \in Actors : /\ slot'[<<o, a>>] = slot[<<o, a>>]
                             /\ rxAlive'[<<o, a>>] = rxAlive[<<o, a>>]
    PROVE  ROpOK(o)' <=> ROpOK(o)
BY DEF ROpOK, FreeOp, SingleRecipient, AliveMatches, IsRequest, NoOp

LEMMA RInvInit == Init => RInv
BY DEF Init, RInv, FreeOp, SingleRecipient, AliveMatches, IsRequest, NoOp,
       RequestKinds

\* Every op other than o keeps its data, slots and Answers.
OthersFramed(o) ==
    \A o2 \in Ops \ {o} :
       /\ op'[o2] = op[o2] /\ pc'[o2] = pc[o2] /\ result'[o2] = result[o2]
       /\ delivered'[o2] = delivered[o2]
       /\ \A a \in Actors : /\ slot'[<<o2, a>>] = slot[<<o2, a>>]
                            /\ rxAlive'[<<o2, a>>] = rxAlive[<<o2, a>>]

\* A step that changes the data of one op o keeps RInv if it keeps o's part.
LEMMA RInvOne ==
    ASSUME RInv, NEW o \in Ops, OthersFramed(o), ROpOK(o)'
    PROVE  RInv'
<1>1. ASSUME NEW o2 \in Ops PROVE ROpOK(o2)'
  <2>1. CASE o2 = o
    BY <2>1
  <2>2. CASE o2 # o
    <3>1. ROpOK(o2)
      BY RInvByOp
    <3>. QED BY <2>2, <3>1, ROpFrame DEF OthersFramed
  <2>. QED BY <2>1, <2>2
<1>. QED BY <1>1, RInvByOp

\* Spawning a request: the fresh op has no recipient and no slot yet.
LEMMA RInvSpawn ==
    ASSUME TypeOK, Rest, RInv, NEW o \in Ops, NEW k \in RequestKinds,
           NEW n \in Names, NEW w, Spawn(o, k, n, w)
    PROVE  RInv'
<1>1. /\ pc[o] = "free" /\ pc' = [pc EXCEPT ![o] = "spawned"]
      /\ op' = [op EXCEPT ![o] = [kind |-> k, name |-> n, owner |-> w]]
      /\ UNCHANGED <<result, delivered, slot, rxAlive>>
  BY DEF Spawn
<1>2. delivered[o] = {} /\ \A a \in Actors : slot[<<o, a>>] = "none"
  BY <1>1, RestByOp DEF OpOK, FreshOp
<1>3. OthersFramed(o)
  BY <1>1 DEF OthersFramed, TypeOK
<1>4. ROpOK(o)'
  <2>1. pc'[o] = "spawned"
    BY <1>1 DEF TypeOK
  <2>. QED BY <1>1, <1>2, <2>1 DEF ROpOK, FreeOp, SingleRecipient, AliveMatches
<1>. QED BY <1>3, <1>4, RInvOne

\* A tell or ask call changes the data of o only.
LEMMA DirectCallFramed ==
    ASSUME TypeOK, NEW o \in Ops, NEW k \in AskKinds \cup TellKinds,
           NEW n \in Names, NEW S \in SUBSET Actors, DirectCall(o, k, n, S)
    PROVE  /\ pc[o] = "free" /\ pc' = [pc EXCEPT ![o] = "done"]
           /\ op' = [op EXCEPT ![o] = [kind |-> k, name |-> n, owner |-> Main]]
           /\ OthersFramed(o)
<1>1. /\ pc[o] = "free" /\ pc' = [pc EXCEPT ![o] = "done"]
      /\ op' = [op EXCEPT ![o] = [kind |-> k, name |-> n, owner |-> Main]]
  BY DEF DirectCall
<1>2. \A o2 \in Ops \ {o} : result'[o2] = result[o2] /\ delivered'[o2] = delivered[o2]
  <2>1. CASE S = {}
    BY <2>1 DEF DirectCall, TypeOK
  <2>2. CASE S # {}
    BY <2>2 DEF DirectCall, Deliver, TypeOK
  <2>. QED BY <2>1, <2>2
<1>3. \A s \in Slots : s[1] # o => slot'[s] = slot[s] /\ rxAlive'[s] = rxAlive[s]
  <2>1. CASE S # {} /\ k \in AskKinds
    BY <2>1 DEF DirectCall, OpenSlots
  <2>2. CASE ~(S # {} /\ k \in AskKinds)
    BY <2>2 DEF DirectCall
  <2>. QED BY <2>1, <2>2
<1>4. OthersFramed(o)
  BY <1>1, <1>2, <1>3 DEF OthersFramed, TypeOK, Slots
<1>. QED BY <1>1, <1>4

\* A tell or ask call makes o a non-request op; no other op changes.
LEMMA RInvDirectCall ==
    ASSUME TypeOK, RInv, NEW o \in Ops, NEW k \in AskKinds \cup TellKinds,
           NEW n \in Names, NEW S \in SUBSET Actors, DirectCall(o, k, n, S)
    PROVE  RInv'
<1>1. /\ op' = [op EXCEPT ![o] = [kind |-> k, name |-> n, owner |-> Main]]
      /\ pc' = [pc EXCEPT ![o] = "done"]
      /\ OthersFramed(o)
  BY DirectCallFramed
<1>2. ROpOK(o)'
  <2>1. op'[o].kind \notin RequestKinds /\ pc'[o] # "free"
    BY <1>1 DEF TypeOK, AskKinds, TellKinds, RequestKinds
  <2>. QED BY <2>1 DEF ROpOK, FreeOp, SingleRecipient, AliveMatches, IsRequest
<1>. QED BY <1>1, <1>2, RInvOne

\* The task's ask: either nothing is asked, or one recipient with a live
\* Answer on a pending slot, and no Result yet.
LEMMA RInvTaskAsk ==
    ASSUME TypeOK, Rest, RInv, NEW o \in Ops, TaskAsk(o)
    PROVE  RInv'
<1>0. OpOK(o)
  BY RestByOp
<1>1. /\ pc[o] = "spawned" /\ op' = op /\ result[o] = "none"
      /\ \A a \in Actors : slot[<<o, a>>] = "none"
  BY <1>0 DEF TaskAsk, OpOK, FreshOp, TaskOp
<1>2. subs[op[o].name] \subseteq Actors
  BY NoNameInNames, ConstantsAssumption DEF TypeOK, OpRec, NoOp
<1>3. CASE /\ result' = [result EXCEPT ![o] = "Unreachable"]
           /\ pc' = [pc EXCEPT ![o] = "sent"]
           /\ UNCHANGED <<delivered, slot, rxAlive>>
  <2>1. OthersFramed(o)
    BY <1>1, <1>3 DEF OthersFramed, TypeOK
  <2>2. ROpOK(o)'
    <3>1. pc'[o] = "sent" /\ delivered'[o] = delivered[o]
      BY <1>3 DEF TypeOK
    <3>2. SingleRecipient(o)
      BY RInvByOp DEF ROpOK
    <3>. QED BY <1>1, <1>3, <3>1, <3>2 DEF ROpOK, FreeOp, SingleRecipient,
                                           AliveMatches, IsRequest
  <2>. QED BY <2>1, <2>2, RInvOne
<1>4. ASSUME NEW a \in Actors,
             /\ Deliver(o, {a})
             /\ OpenSlots(o, {a})
             /\ pc' = [pc EXCEPT ![o] = "waiting"]
             /\ UNCHANGED result
      PROVE  RInv'
  <2>1. /\ delivered' = [delivered EXCEPT ![o] = {a}]
        /\ \A s \in Slots : slot'[s] = IF s[1] = o /\ s[2] = a THEN "pending" ELSE slot[s]
        /\ \A s \in Slots : rxAlive'[s] = IF s[1] = o /\ s[2] = a THEN TRUE ELSE rxAlive[s]
    BY <1>4 DEF Deliver, OpenSlots
  <2>2. OthersFramed(o)
    BY <1>1, <1>4, <2>1 DEF OthersFramed, TypeOK, Slots
  <2>3. ROpOK(o)'
    <3>1. pc'[o] = "waiting" /\ delivered'[o] = {a} /\ result'[o] = "none"
      BY <1>1, <1>4, <2>1 DEF TypeOK
    <3>2. \A b \in Actors : /\ slot'[<<o, b>>] = IF b = a THEN "pending" ELSE "none"
                            /\ b = a => rxAlive'[<<o, b>>]
      BY <1>1, <2>1 DEF Slots
    <3>. QED BY <3>1, <3>2 DEF ROpOK, FreeOp, SingleRecipient, AliveMatches
  <2>. QED BY <2>2, <2>3, RInvOne
<1>. QED BY <1>2, <1>3, <1>4 DEF TaskAsk

\* The awaited Answer resolved: the task's only slot is no longer pending.
LEMMA RInvReplyArrives ==
    ASSUME TypeOK, Rest, RInv, NEW o \in Ops, ReplyArrives(o)
    PROVE  RInv'
<1>0. OpOK(o) /\ ROpOK(o)
  BY RestByOp, RInvByOp
<1>1. PICK a \in delivered[o] :
         /\ slot[<<o, a>>] \in {"ok", "wrong", "dropped"}
         /\ result' = [result EXCEPT ![o] = ReplyOutcome(slot[<<o, a>>])]
         /\ rxAlive' = [rxAlive EXCEPT ![<<o, a>>] = FALSE]
  BY Zenon DEF ReplyArrives
<1>2. /\ pc[o] = "waiting" /\ pc' = [pc EXCEPT ![o] = "sent"]
      /\ op' = op /\ delivered' = delivered /\ slot' = slot
  BY DEF ReplyArrives
<1>3. a \in Actors
  BY DEF TypeOK
<1>4. \A c \in Actors : slot[<<o, c>>] # "pending"
  <2>1. PICK b \in Actors : delivered[o] = {b}
    BY <1>0, <1>2, Zenon DEF OpOK, WaitingOp
  <2>2. \A c \in Actors : slot[<<o, c>>] # "none" => c \in delivered[o]
    BY <1>0 DEF OpOK, SlotMatchesBox
  <2>. QED BY <1>1, <2>1, <2>2
<1>5. OthersFramed(o)
  BY <1>1, <1>2, <1>3 DEF OthersFramed, TypeOK
<1>6. ROpOK(o)'
  <2>1. pc'[o] = "sent"
    BY <1>2 DEF TypeOK
  <2>. QED BY <1>0, <1>2, <1>4, <2>1 DEF ROpOK, FreeOp, SingleRecipient,
                                          AliveMatches, IsRequest
<1>. QED BY <1>5, <1>6, RInvOne

\* The Delay won: Timeout is sent and every Answer of o is dropped.
LEMMA RInvTimerElapsed ==
    ASSUME TypeOK, RInv, NEW o \in Ops, TimerElapsed(o)
    PROVE  RInv'
<1>1. /\ pc' = [pc EXCEPT ![o] = "sent"]
      /\ result' = [result EXCEPT ![o] = "Timeout"]
      /\ rxAlive' = [s \in Slots |-> IF s[1] = o THEN FALSE ELSE rxAlive[s]]
      /\ op' = op /\ delivered' = delivered /\ slot' = slot
  BY DEF TimerElapsed
<1>2. OthersFramed(o)
  BY <1>1 DEF OthersFramed, TypeOK, Slots
<1>3. ROpOK(o)'
  <2>1. /\ pc'[o] = "sent" /\ result'[o] = "Timeout"
        /\ \A a \in Actors : ~rxAlive'[<<o, a>>]
    BY <1>1 DEF TypeOK, Slots
  <2>2. SingleRecipient(o)
    BY RInvByOp DEF ROpOK
  <2>. QED BY <1>1, <2>1, <2>2 DEF ROpOK, FreeOp, SingleRecipient, AliveMatches,
                                   IsRequest
<1>. QED BY <1>2, <1>3, RInvOne

\* A child's loop resolves the slot of its mailbox head h at a; nothing
\* else changes, and a resolved slot is not pending.
LEMMA RInvRespond ==
    ASSUME TypeOK, RInv, NEW a \in Actors, Respond(a)
    PROVE  RInv'
<1>1. /\ mailbox[a] # <<>>
      /\ op' = op /\ pc' = pc /\ result' = result /\ delivered' = delivered
      /\ rxAlive' = rxAlive
  BY DEF Respond
<1>h. PICK h \in Ops : h = Head(mailbox[a])
  BY <1>1 DEF TypeOK
<1>2. /\ \A s \in Slots : s # <<h, a>> => slot'[s] = slot[s]
      /\ IsRequest(h) => slot'[<<h, a>>] # "pending"
  <2>1. CASE op[h].kind \in TellKinds
    <3>1. slot' = slot
      BY <1>1, <1>h, <2>1 DEF Respond
    <3>2. ~IsRequest(h)
      BY <2>1 DEF IsRequest, TellKinds, RequestKinds
    <3>. QED BY <3>1, <3>2
  <2>2. CASE op[h].kind \notin TellKinds
    <3>1. PICK r \in Replies :
             slot' = [slot EXCEPT ![<<h, a>>] =
                        IF r # "dropped" /\ ~rxAlive[<<h, a>>] THEN "refused" ELSE r]
      BY <1>1, <1>h, <2>2, Zenon DEF Respond
    <3>. QED BY <3>1, ConstantsAssumption DEF TypeOK, Slots
  <2>. QED BY <2>1, <2>2
<1>3. OthersFramed(h)
  BY <1>1, <1>2 DEF OthersFramed, Slots
<1>4. ROpOK(h)'
  <2>1. ROpOK(h)
    BY RInvByOp
  <2>2. \A b \in Actors \ {a} : slot'[<<h, b>>] = slot[<<h, b>>]
    BY <1>2 DEF Slots
  <2>. QED BY <1>1, <1>2, <2>1, <2>2 DEF ROpOK, FreeOp, SingleRecipient,
                                         AliveMatches, IsRequest
<1>. QED BY <1>3, <1>4, RInvOne

\* The steps that touch no op's request part: subscriptions, receivers, and
\* dropping the Answer of an ask.
LEMMA RInvFrameSteps ==
    ASSUME TypeOK, RInv,
           \/ UNCHANGED <<op, pc, result, delivered, slot, rxAlive>>
           \/ \E o \in Ops, a \in Actors : ReleaseAnswer(o, a)
           \/ \E o \in Ops : Receive(o)
    PROVE  RInv'
<1>1. CASE UNCHANGED <<op, pc, result, delivered, slot, rxAlive>>
  <2>1. ASSUME NEW o \in Ops PROVE ROpOK(o)'
    BY <1>1, ROpFrame, RInvByOp
  <2>. QED BY <2>1, RInvByOp
<1>2. ASSUME NEW o \in Ops, NEW a \in Actors, ReleaseAnswer(o, a) PROVE RInv'
  <2>1. OthersFramed(o)
    BY <1>2 DEF ReleaseAnswer, OthersFramed, TypeOK
  <2>0. ROpOK(o)
    BY RInvByOp
  <2>2. ROpOK(o)'
    BY <1>2, <2>0 DEF ReleaseAnswer, ROpOK, FreeOp, SingleRecipient, AliveMatches,
                IsRequest, AskKinds, RequestKinds
  <2>. QED BY <2>1, <2>2, RInvOne
<1>3. ASSUME NEW o \in Ops, Receive(o) PROVE RInv'
  <2>1. OthersFramed(o)
    BY <1>3 DEF Receive, OthersFramed, TypeOK
  <2>2. ROpOK(o)
    BY RInvByOp
  <2>3. pc'[o] = "done"
    BY <1>3 DEF Receive, TypeOK
  <2>. QED BY <1>3, <2>1, <2>2, <2>3, RInvOne
           DEF Receive, ROpOK, FreeOp, SingleRecipient, AliveMatches, IsRequest
<1>. QED BY <1>1, <1>2, <1>3

\* RInv is preserved by every step, given IInv.
LEMMA RInvStep == IInv /\ RInv /\ [Next]_vars => RInv'
<1> SUFFICES ASSUME TypeOK, Rest, RInv, [Next]_vars PROVE RInv'
  BY DEF IInv, Rest
<1>1. ASSUME NEW n \in Names, NEW a \in Actors,
             subscribe(n, a) \/ unsubscribe(n, a)
      PROVE  RInv'
  BY <1>1, RInvFrameSteps
     DEF subscribe, unsubscribe, register_recipient, remove_recipient
<1>2. ASSUME NEW o \in Ops, NEW n \in Names,
             tell_one(o, n) \/ ask_one(o, n)
      PROVE  RInv'
  <2>1. PICK k \in AskKinds \cup TellKinds, S \in OneOf(n) :
          DirectCall(o, k, n, S)
    BY <1>2 DEF tell_one, ask_one, AskKinds, TellKinds
  <2>2. S \in SUBSET Actors
    BY OneOfType
  <2>. QED BY <2>1, <2>2, RInvDirectCall
<1>3. ASSUME NEW o \in Ops, NEW n \in Names,
             tell_everyone(o, n) \/ ask_everyone(o, n)
      PROVE  RInv'
  <2>1. PICK k \in AskKinds \cup TellKinds : DirectCall(o, k, n, subs[n])
    BY <1>3 DEF tell_everyone, ask_everyone, AskKinds, TellKinds
  <2>2. subs[n] \in SUBSET Actors
    BY DEF TypeOK
  <2>. QED BY <2>1, <2>2, RInvDirectCall
<1>4. ASSUME NEW o \in Ops, NEW n \in Names, NEW w \in Owners,
             \/ request(o, n, w) \/ request_sync(o, n, w)
             \/ request_timeout(o, n, w)
      PROVE  RInv'
  <2>1. PICK k \in RequestKinds : Spawn(o, k, n, w)
    BY <1>4 DEF request, request_sync, request_timeout, RequestKinds
  <2>. QED BY <2>1, RInvSpawn
<1>5. ASSUME NEW o \in Ops, TaskAsk(o) PROVE RInv'
  BY <1>5, RInvTaskAsk
<1>6. ASSUME NEW o \in Ops,
             AwaitReply(o) \/ AwaitReplySync(o) \/ SelectReply(o)
      PROVE  RInv'
  BY <1>6, RInvReplyArrives DEF AwaitReply, AwaitReplySync, SelectReply
<1>7. ASSUME NEW o \in Ops, TimerElapsed(o) PROVE RInv'
  BY <1>7, RInvTimerElapsed
<1>8. ASSUME NEW a \in Actors, Respond(a) PROVE RInv'
  BY <1>8, RInvRespond
<1>9. ASSUME NEW o \in Ops, DropReceiver(o) PROVE RInv'
  BY <1>9, RInvFrameSteps DEF DropReceiver
<1>10. ASSUME NEW o \in Ops, Receive(o) PROVE RInv'
  BY <1>10, RInvFrameSteps
<1>11. ASSUME NEW o \in Ops, NEW a \in Actors, ReleaseAnswer(o, a) PROVE RInv'
  BY <1>11, RInvFrameSteps
<1>12. CASE UNCHANGED vars
  BY <1>12, RInvFrameSteps DEF vars
<1>. QED BY <1>1, <1>2, <1>3, <1>4, <1>5, <1>6, <1>7, <1>8, <1>9, <1>10,
            <1>11, <1>12 DEF Next

(* In every reachable state, for every number of groups, children and      *)
(* calls: a request task asks at most one child, and while that child's    *)
(* reply is still pending the task holds its Answer exactly until the      *)
(* Delay wins (request_timeout), which is the only Result it can have sent *)
(* meanwhile.  This is what makes a late reply be refused rather than      *)
(* delivered into a conduit whose Result is already Timeout.               *)
THEOREM RInvariant == Spec => []RInv
<1>1. Init => IInv /\ RInv
  BY TypeInit, RestInit, RInvInit DEF IInv, Rest
<1>2. IInv /\ RInv /\ [Next]_vars => IInv' /\ RInv'
  BY TypeStep, RestStep, RInvStep DEF IInv, Rest
<1>. QED BY <1>1, <1>2, PTL DEF Spec

-----------------------------------------------------------------------------
(* The refinement: every step of Distributor is a step of ReplyCorrelator  *)
(* on the mapped state, or leaves it unchanged.                            *)

\* The mapped state of op o is the same before and after the step.
BarsSame(o) ==
    /\ stateBar'[o] = stateBar[o] /\ kindBar'[o] = kindBar[o]
    /\ answerBar'[o] = answerBar[o] /\ outBar'[o] = outBar[o]

\* The mapped state of o reads only o's own data and slots.
LEMMA BarFrame ==
    ASSUME TypeOK, NEW o \in Ops, op'[o] = op[o], pc'[o] = pc[o],
           result'[o] = result[o], delivered'[o] = delivered[o],
           \A a \in Actors : slot'[<<o, a>>] = slot[<<o, a>>]
    PROVE  BarsSame(o)
<1>1. Recipient(o)' = Recipient(o)
  BY DEF Recipient
<1>2. delivered[o] # {} => Recipient(o) \in Actors
  BY DEF Recipient, TypeOK
<1>. QED BY <1>1, <1>2 DEF BarsSame, stateBar, kindBar, answerBar, outBar,
                           IsRequest, Phase

\* When no op's mapped state changes, the abstract state does not change.
LEMMA BarsAllSame ==
    ASSUME \A o \in Ops : BarsSame(o)
    PROVE  UNCHANGED Correlator!avars
<1>1. stateBar' = stateBar
  BY DEF BarsSame, stateBar
<1>2. kindBar' = kindBar
  BY DEF BarsSame, kindBar
<1>3. answerBar' = answerBar
  BY DEF BarsSame, answerBar
<1>4. outBar' = outBar
  BY DEF BarsSame, outBar
<1>. QED BY <1>1, <1>2, <1>3, <1>4 DEF Correlator!avars

\* A step that keeps every op other than o changes the mapped state at o
\* at most.
LEMMA BarOthers ==
    ASSUME TypeOK, NEW o \in Ops, OthersFramed(o)
    PROVE  /\ stateBar' = [stateBar EXCEPT ![o] = stateBar'[o]]
           /\ kindBar' = [kindBar EXCEPT ![o] = kindBar'[o]]
           /\ answerBar' = [answerBar EXCEPT ![o] = answerBar'[o]]
           /\ outBar' = [outBar EXCEPT ![o] = outBar'[o]]
           /\ stateBar'[o] = stateBar[o] => stateBar' = stateBar
           /\ kindBar'[o] = kindBar[o] => kindBar' = kindBar
           /\ answerBar'[o] = answerBar[o] => answerBar' = answerBar
           /\ outBar'[o] = outBar[o] => outBar' = outBar
           /\ BarsSame(o) => UNCHANGED Correlator!avars
<1>1. \A o2 \in Ops \ {o} : BarsSame(o2)
  BY BarFrame DEF OthersFramed
<1>2. stateBar' = [stateBar EXCEPT ![o] = stateBar'[o]]
  BY <1>1 DEF BarsSame, stateBar
<1>3. kindBar' = [kindBar EXCEPT ![o] = kindBar'[o]]
  BY <1>1 DEF BarsSame, kindBar
<1>4. answerBar' = [answerBar EXCEPT ![o] = answerBar'[o]]
  BY <1>1 DEF BarsSame, answerBar
<1>5. outBar' = [outBar EXCEPT ![o] = outBar'[o]]
  BY <1>1 DEF BarsSame, outBar
<1>6. BarsSame(o) => UNCHANGED Correlator!avars
  BY <1>1, BarsAllSame
<1>7. stateBar'[o] = stateBar[o] => stateBar' = stateBar
  BY <1>1 DEF BarsSame, stateBar
<1>8. kindBar'[o] = kindBar[o] => kindBar' = kindBar
  BY <1>1 DEF BarsSame, kindBar
<1>9. answerBar'[o] = answerBar[o] => answerBar' = answerBar
  BY <1>1 DEF BarsSame, answerBar
<1>10. outBar'[o] = outBar[o] => outBar' = outBar
  BY <1>1 DEF BarsSame, outBar
<1>. QED BY <1>2, <1>3, <1>4, <1>5, <1>6, <1>7, <1>8, <1>9, <1>10

\* No op is a request at the start: every call is Idle.
LEMMA RefineInit == Init => Correlator!Init
BY DEF Init, Correlator!Init, stateBar, kindBar, answerBar, outBar, IsRequest,
       NoOp, RequestKinds

\* A step that leaves every op's data and slots alone is a stutter.
LEMMA RefineFrame ==
    ASSUME TypeOK, UNCHANGED <<op, pc, result, delivered, slot>>
    PROVE  UNCHANGED Correlator!avars
<1>1. \A o \in Ops : BarsSame(o)
  BY BarFrame
<1>. QED BY <1>1, BarsAllSame

\* request, request_sync, request_timeout create the call: Idle -> Created.
LEMMA RefineSpawn ==
    ASSUME TypeOK, Rest, RInv, NEW o \in Ops, NEW k \in RequestKinds,
           NEW n \in Names, NEW w, Spawn(o, k, n, w)
    PROVE  Correlator!Create(o, k)
<1>1. /\ pc[o] = "free" /\ pc' = [pc EXCEPT ![o] = "spawned"]
      /\ op' = [op EXCEPT ![o] = [kind |-> k, name |-> n, owner |-> w]]
      /\ UNCHANGED <<result, delivered, slot, rxAlive>>
  BY DEF Spawn
<1>2. op[o] = NoOp /\ result[o] = "none" /\ delivered[o] = {}
  BY <1>1, RInvByOp, RestByOp DEF ROpOK, FreeOp, OpOK, FreshOp
<1>3. OthersFramed(o)
  BY <1>1 DEF OthersFramed, TypeOK
<1>4. ~IsRequest(o) /\ IsRequest(o)'
  BY <1>1, <1>2 DEF IsRequest, NoOp, RequestKinds, TypeOK
<1>5. /\ stateBar[o] = "Idle" /\ stateBar'[o] = "Created"
      /\ kindBar'[o] = k
      /\ answerBar'[o] = answerBar[o] /\ outBar'[o] = outBar[o]
  BY <1>1, <1>2, <1>4 DEF stateBar, kindBar, answerBar, outBar, Phase, TypeOK
<1>. QED BY <1>3, <1>5, BarOthers DEF Correlator!Create

\* tell_one, tell_everyone, ask_one, ask_everyone are not request-style
\* calls: the call stays Idle.
LEMMA RefineDirectCall ==
    ASSUME TypeOK, RInv, NEW o \in Ops, NEW k \in AskKinds \cup TellKinds,
           NEW n \in Names, NEW S \in SUBSET Actors, DirectCall(o, k, n, S)
    PROVE  UNCHANGED Correlator!avars
<1>1. /\ pc[o] = "free"
      /\ op' = [op EXCEPT ![o] = [kind |-> k, name |-> n, owner |-> Main]]
      /\ OthersFramed(o)
  BY DirectCallFramed
<1>2. op[o] = NoOp
  BY <1>1, RInvByOp DEF ROpOK, FreeOp
<1>3. ~IsRequest(o) /\ ~IsRequest(o)'
  BY <1>1, <1>2 DEF IsRequest, NoOp, RequestKinds, AskKinds, TellKinds, TypeOK
<1>4. BarsSame(o)
  BY <1>3 DEF BarsSame, stateBar, kindBar, answerBar, outBar
<1>. QED BY <1>1, <1>4, BarOthers

\* The task's ask: no subscriber is AskFail, one recipient is SendAsk.
LEMMA RefineTaskAsk ==
    ASSUME TypeOK, Rest, NEW o \in Ops, TaskAsk(o)
    PROVE  Correlator!AskFail(o) \/ Correlator!SendAsk(o)
<1>0. OpOK(o)
  BY RestByOp
<1>1. /\ pc[o] = "spawned" /\ op' = op /\ IsRequest(o)
      /\ result[o] = "none" /\ delivered[o] = {}
  BY <1>0 DEF TaskAsk, OpOK, FreshOp, TaskOp, IsRequest
<1>2. stateBar[o] = "Created" /\ kindBar'[o] = kindBar[o]
  BY <1>1 DEF stateBar, kindBar, Phase, IsRequest
<1>3. subs[op[o].name] \subseteq Actors
  BY NoNameInNames, ConstantsAssumption DEF TypeOK, OpRec, NoOp
<1>4. CASE /\ result' = [result EXCEPT ![o] = "Unreachable"]
           /\ pc' = [pc EXCEPT ![o] = "sent"]
           /\ UNCHANGED <<delivered, slot, rxAlive>>
  <2>1. OthersFramed(o)
    BY <1>1, <1>4 DEF OthersFramed, TypeOK
  <2>2. /\ stateBar'[o] = "AskFailed" /\ outBar'[o] = "Unreachable"
        /\ answerBar'[o] = answerBar[o]
    BY <1>1, <1>4 DEF stateBar, outBar, answerBar, Phase, IsRequest, TypeOK
  <2>. QED BY <1>2, <2>1, <2>2, BarOthers DEF Correlator!AskFail
<1>5. ASSUME NEW a \in Actors,
             /\ Deliver(o, {a})
             /\ OpenSlots(o, {a})
             /\ pc' = [pc EXCEPT ![o] = "waiting"]
             /\ UNCHANGED result
      PROVE  Correlator!AskFail(o) \/ Correlator!SendAsk(o)
  <2>1. /\ delivered' = [delivered EXCEPT ![o] = {a}]
        /\ \A s \in Slots : slot'[s] = IF s[1] = o /\ s[2] = a THEN "pending" ELSE slot[s]
        /\ \A s \in Slots : rxAlive'[s] = IF s[1] = o /\ s[2] = a THEN TRUE ELSE rxAlive[s]
    BY <1>5 DEF Deliver, OpenSlots
  <2>2. OthersFramed(o)
    BY <1>1, <1>5, <2>1 DEF OthersFramed, TypeOK, Slots
  <2>3. delivered'[o] = {a} /\ slot'[<<o, a>>] = "pending"
    BY <2>1 DEF TypeOK, Slots
  <2>4. Recipient(o)' = a
    BY <2>3 DEF Recipient
  <2>5. /\ stateBar'[o] = "AskSent" /\ outBar'[o] = outBar[o]
        /\ answerBar'[o] = "pending"
    BY <1>1, <1>5, <2>3, <2>4 DEF stateBar, outBar, answerBar, Phase, IsRequest,
                                  SlotAnswer, TypeOK
  <2>. QED BY <1>2, <2>2, <2>5, BarOthers DEF Correlator!SendAsk
<1>. QED BY <1>3, <1>4, <1>5 DEF TaskAsk

\* The awaited Answer resolved: the single recipient's reply becomes the
\* Result, interpreted as the abstract Reply does.
LEMMA RefineReplyArrives ==
    ASSUME TypeOK, Rest, RInv, NEW o \in Ops, ReplyArrives(o)
    PROVE  Correlator!Reply(o)
<1>0. OpOK(o)
  BY RestByOp
<1>1. PICK a \in delivered[o] :
         /\ slot[<<o, a>>] \in {"ok", "wrong", "dropped"}
         /\ result' = [result EXCEPT ![o] = ReplyOutcome(slot[<<o, a>>])]
         /\ rxAlive' = [rxAlive EXCEPT ![<<o, a>>] = FALSE]
  BY Zenon DEF ReplyArrives
<1>2. /\ pc[o] = "waiting" /\ pc' = [pc EXCEPT ![o] = "sent"]
      /\ op' = op /\ delivered' = delivered /\ slot' = slot
  BY DEF ReplyArrives
<1>3. IsRequest(o) /\ a \in Actors
  BY <1>0, <1>2 DEF OpOK, TaskOp, IsRequest, TypeOK
<1>4. delivered[o] = {a}
  BY <1>0, <1>1, <1>2, Zenon DEF OpOK, WaitingOp
<1>5. Recipient(o) = a /\ Recipient(o)' = a
  BY <1>2, <1>4 DEF Recipient
<1>6. OthersFramed(o)
  BY <1>1, <1>2, <1>3 DEF OthersFramed, TypeOK
<1>7. /\ stateBar[o] = "AskSent"
      /\ answerBar[o] = slot[<<o, a>>]
      /\ kindBar'[o] = kindBar[o] /\ answerBar'[o] = answerBar[o]
  <2>1. Phase(o) = "AskSent"
    BY <1>2 DEF Phase
  <2>2. stateBar[o] = "AskSent"
    BY <1>3, <2>1 DEF stateBar
  <2>3. answerBar[o] = slot[<<o, a>>]
    BY <1>1, <1>3, <1>4, <1>5 DEF answerBar, SlotAnswer
  <2>4. kindBar'[o] = kindBar[o]
    BY <1>2 DEF kindBar, IsRequest
  <2>5. answerBar'[o] = answerBar[o]
    BY <1>2, <1>5 DEF answerBar, IsRequest
  <2>. QED BY <2>2, <2>3, <2>4, <2>5
<1>8. /\ stateBar'[o] = "Replied"
      /\ outBar'[o] = Correlator!Interpret(slot[<<o, a>>])
  BY <1>1, <1>2, <1>3 DEF stateBar, outBar, Phase, IsRequest, ReplyOutcome,
                          Correlator!Interpret, TypeOK
<1>. QED BY <1>1, <1>6, <1>7, <1>8, BarOthers DEF Correlator!Reply

\* The Delay wins the select!: TimeOut.
LEMMA RefineTimerElapsed ==
    ASSUME TypeOK, NEW o \in Ops, TimerElapsed(o)
    PROVE  Correlator!TimeOut(o)
<1>1. /\ pc[o] = "waiting" /\ op[o].kind = "request_timeout"
      /\ pc' = [pc EXCEPT ![o] = "sent"]
      /\ result' = [result EXCEPT ![o] = "Timeout"]
      /\ rxAlive' = [s \in Slots |-> IF s[1] = o THEN FALSE ELSE rxAlive[s]]
      /\ op' = op /\ delivered' = delivered /\ slot' = slot
  BY DEF TimerElapsed
<1>2. OthersFramed(o)
  BY <1>1 DEF OthersFramed, TypeOK, Slots
<1>3. /\ stateBar[o] = "AskSent" /\ kindBar[o] = "request_timeout"
      /\ stateBar'[o] = "TimedOut" /\ outBar'[o] = "Timeout"
      /\ kindBar'[o] = kindBar[o] /\ answerBar'[o] = answerBar[o]
  <2>1. IsRequest(o) /\ IsRequest(o)'
    BY <1>1 DEF IsRequest, RequestKinds
  <2>2. Phase(o) = "AskSent"
    BY <1>1 DEF Phase
  <2>3. pc'[o] = "sent" /\ result'[o] = "Timeout"
    BY <1>1 DEF TypeOK
  <2>4. Phase(o)' = "TimedOut"
    BY <2>3 DEF Phase
  <2>5. stateBar[o] = "AskSent" /\ stateBar'[o] = "TimedOut"
    BY <2>1, <2>2, <2>4 DEF stateBar
  <2>6. kindBar[o] = "request_timeout" /\ kindBar'[o] = kindBar[o]
    BY <1>1, <2>1 DEF kindBar
  <2>7. outBar'[o] = "Timeout" /\ answerBar'[o] = answerBar[o]
    BY <1>1, <2>1, <2>3 DEF outBar, answerBar, Recipient
  <2>. QED BY <2>5, <2>6, <2>7
<1>. QED BY <1>2, <1>3, BarOthers DEF Correlator!TimeOut

\* The caller's receive: Deliver for a request, a stutter otherwise.
LEMMA RefineReceive ==
    ASSUME TypeOK, NEW o \in Ops, Receive(o)
    PROVE  Correlator!Deliver(o) \/ UNCHANGED Correlator!avars
<1>1. /\ pc[o] = "sent" /\ pc' = [pc EXCEPT ![o] = "done"]
      /\ UNCHANGED <<op, result, delivered, slot, rxAlive>>
  BY DEF Receive
<1>2. OthersFramed(o)
  BY <1>1 DEF OthersFramed, TypeOK
<1>3. /\ kindBar'[o] = kindBar[o] /\ answerBar'[o] = answerBar[o]
      /\ outBar'[o] = outBar[o]
  BY <1>1 DEF kindBar, answerBar, outBar, IsRequest, Recipient
<1>4. CASE IsRequest(o)
  <2>1. /\ stateBar[o] \in {"Replied", "TimedOut", "AskFailed"}
        /\ stateBar'[o] = "Delivered"
    <3>1. Phase(o) \in {"Replied", "TimedOut", "AskFailed"}
      BY <1>1 DEF Phase
    <3>2. pc'[o] = "done"
      BY <1>1 DEF TypeOK
    <3>3. Phase(o)' = "Delivered"
      BY <3>2 DEF Phase
    <3>4. IsRequest(o)'
      BY <1>1, <1>4 DEF IsRequest
    <3>. QED BY <1>4, <3>1, <3>3, <3>4 DEF stateBar
  <2>. QED BY <1>2, <1>3, <2>1, BarOthers DEF Correlator!Deliver
<1>5. CASE ~IsRequest(o)
  <2>1. BarsSame(o)
    BY <1>1, <1>3, <1>5 DEF BarsSame, stateBar, IsRequest
  <2>. QED BY <1>2, <2>1, BarOthers
<1>. QED BY <1>4, <1>5

(* A child's reply to a request completes the call's single reply slot:    *)
(* Complete, whose reply is discarded exactly when the call already timed  *)
(* out.  A tell or an ask taken from a mailbox is a stutter.              *)
LEMMA RefineRespond ==
    ASSUME TypeOK, Rest, RInv, NEW a \in Actors, Respond(a)
    PROVE  \/ \E o \in Ops, r \in Replies : Correlator!Complete(o, r)
           \/ UNCHANGED Correlator!avars
<1>1. /\ mailbox[a] # <<>>
      /\ op' = op /\ pc' = pc /\ result' = result /\ delivered' = delivered
      /\ rxAlive' = rxAlive
  BY DEF Respond
<1>h. PICK h \in Ops : h = Head(mailbox[a])
  BY <1>1 DEF TypeOK
<1>2. \A s \in Slots : s # <<h, a>> => slot'[s] = slot[s]
  <2>1. CASE op[h].kind \in TellKinds
    BY <1>1, <1>h, <2>1 DEF Respond
  <2>2. CASE op[h].kind \notin TellKinds
    <3>1. PICK r \in Replies :
             slot' = [slot EXCEPT ![<<h, a>>] =
                        IF r # "dropped" /\ ~rxAlive[<<h, a>>] THEN "refused" ELSE r]
      BY <1>1, <1>h, <2>2, Zenon DEF Respond
    <3>. QED BY <3>1 DEF TypeOK, Slots
  <2>. QED BY <2>1, <2>2
<1>3. OthersFramed(h)
  BY <1>1, <1>2 DEF OthersFramed, Slots
<1>4. /\ stateBar'[h] = stateBar[h] /\ kindBar'[h] = kindBar[h]
      /\ outBar'[h] = outBar[h]
  BY <1>1 DEF stateBar, kindBar, outBar, Phase, IsRequest
<1>5. CASE ~IsRequest(h)
  <2>1. answerBar'[h] = answerBar[h]
    BY <1>1, <1>5 DEF answerBar, IsRequest
  <2>. QED BY <1>3, <1>4, <2>1, BarOthers DEF BarsSame
<1>6. CASE IsRequest(h)
  <2>1. PICK r \in Replies :
           slot' = [slot EXCEPT ![<<h, a>>] =
                      IF r # "dropped" /\ ~rxAlive[<<h, a>>] THEN "refused" ELSE r]
    <3>1. op[h].kind \notin TellKinds
      BY <1>6 DEF IsRequest, RequestKinds, TellKinds
    <3>. QED BY <1>1, <1>h, <3>1, Zenon DEF Respond
  <2>2. InBox(h, a)
    BY <1>1, <1>h DEF InBox, TypeOK
  <2>3. slot[<<h, a>>] = "pending" /\ a \in delivered[h]
    <3>1. SlotMatchesBox(h, a)
      BY RestByOp DEF OpOK
    <3>. QED BY <1>6, <2>2, <3>1 DEF SlotMatchesBox, IsRequest, RequestKinds,
                                     TellKinds
  <2>4. ROpOK(h)
    BY RInvByOp
  <2>5. delivered[h] = {a}
    BY <1>6, <2>3, <2>4 DEF ROpOK, SingleRecipient
  <2>6. Recipient(h) = a /\ Recipient(h)' = a
    BY <1>1, <2>5 DEF Recipient
  <2>7. /\ result[h] \in {"none", "Timeout"}
        /\ rxAlive[<<h, a>>] <=> result[h] = "none"
    BY <1>6, <2>3, <2>4 DEF ROpOK, AliveMatches
  <2>8. answerBar[h] = "pending"
    BY <1>6, <2>3, <2>5, <2>6 DEF answerBar, SlotAnswer
  <2>9. slot'[<<h, a>>] =
          IF r # "dropped" /\ ~rxAlive[<<h, a>>] THEN "refused" ELSE r
    BY <2>1 DEF TypeOK, Slots
  <2>10. answerBar'[h] =
           IF r # "dropped" /\ outBar[h] = "Timeout" THEN "discarded" ELSE r
    <3>1. outBar[h] = result[h]
      BY <1>6 DEF outBar
    <3>2. answerBar'[h] = SlotAnswer(slot'[<<h, a>>])
      BY <1>1, <1>6, <2>5, <2>6 DEF answerBar, IsRequest
    <3>3. r \in {"ok", "wrong", "dropped"}
      BY ConstantsAssumption
    <3>. QED BY <2>7, <2>9, <3>1, <3>2, <3>3 DEF SlotAnswer
  <2>11. Correlator!Complete(h, r)
    BY <1>3, <1>4, <2>8, <2>10, BarOthers DEF Correlator!Complete
  <2>. QED BY <2>11
<1>. QED BY <1>5, <1>6

\* Every step of Distributor is a ReplyCorrelator step or a stutter of it.
LEMMA RefineStep ==
    IInv /\ RInv /\ [Next]_vars => [Correlator!Next]_Correlator!avars
<1> SUFFICES ASSUME TypeOK, Rest, RInv, [Next]_vars
             PROVE  [Correlator!Next]_Correlator!avars
  BY DEF IInv, Rest
<1>1. ASSUME NEW n \in Names, NEW a \in Actors,
             subscribe(n, a) \/ unsubscribe(n, a)
      PROVE  UNCHANGED Correlator!avars
  BY <1>1, RefineFrame
     DEF subscribe, unsubscribe, register_recipient, remove_recipient
<1>2. ASSUME NEW o \in Ops, NEW n \in Names,
             tell_one(o, n) \/ ask_one(o, n) \/ tell_everyone(o, n)
             \/ ask_everyone(o, n)
      PROVE  UNCHANGED Correlator!avars
  <2>1. PICK k \in AskKinds \cup TellKinds, S \in SUBSET Actors :
          DirectCall(o, k, n, S)
    <3>1. \A S \in OneOf(n) : S \in SUBSET Actors
      BY OneOfType
    <3>2. subs[n] \in SUBSET Actors
      BY DEF TypeOK
    <3>. QED BY <1>2, <3>1, <3>2
             DEF tell_one, ask_one, tell_everyone, ask_everyone, AskKinds,
                 TellKinds
  <2>. QED BY <2>1, RefineDirectCall
<1>3. ASSUME NEW o \in Ops, NEW n \in Names, NEW w \in Owners,
             \/ request(o, n, w) \/ request_sync(o, n, w)
             \/ request_timeout(o, n, w)
      PROVE  Correlator!Next
  <2>1. PICK k \in RequestKinds : Spawn(o, k, n, w)
    BY <1>3 DEF request, request_sync, request_timeout, RequestKinds
  <2>2. Correlator!Create(o, k)
    BY <2>1, RefineSpawn
  <2>. QED BY <2>2 DEF Correlator!Next, Correlator!CallKinds, RequestKinds
<1>4. ASSUME NEW o \in Ops, TaskAsk(o) PROVE Correlator!Next
  BY <1>4, RefineTaskAsk DEF Correlator!Next
<1>5. ASSUME NEW o \in Ops,
             AwaitReply(o) \/ AwaitReplySync(o) \/ SelectReply(o)
      PROVE  Correlator!Next
  BY <1>5, RefineReplyArrives DEF Correlator!Next, AwaitReply, AwaitReplySync,
                                  SelectReply
<1>6. ASSUME NEW o \in Ops, TimerElapsed(o) PROVE Correlator!Next
  BY <1>6, RefineTimerElapsed DEF Correlator!Next
<1>7. ASSUME NEW o \in Ops, Receive(o)
      PROVE  [Correlator!Next]_Correlator!avars
  BY <1>7, RefineReceive DEF Correlator!Next
<1>8. ASSUME NEW a \in Actors, Respond(a)
      PROVE  [Correlator!Next]_Correlator!avars
  BY <1>8, RefineRespond DEF Correlator!Next
<1>9. ASSUME NEW o \in Ops, DropReceiver(o) PROVE UNCHANGED Correlator!avars
  BY <1>9, RefineFrame DEF DropReceiver
<1>10. ASSUME NEW o \in Ops, NEW a \in Actors, ReleaseAnswer(o, a)
       PROVE  UNCHANGED Correlator!avars
  BY <1>10, RefineFrame DEF ReleaseAnswer
<1>11. CASE UNCHANGED vars
  BY <1>11, RefineFrame DEF vars
<1>. QED BY <1>1, <1>2, <1>3, <1>4, <1>5, <1>6, <1>7, <1>8, <1>9, <1>10,
            <1>11 DEF Next

(* Every behaviour of request, request_sync and request_timeout, for every *)
(* number of groups, children and calls, is a behaviour of the abstract    *)
(* reply correlator of spec section 4.3 (its safety part): each call goes  *)
(* Created, AskSent or AskFailed, one Result, Delivered; its single reply  *)
(* slot is completed at most once, and a reply that arrives after the     *)
(* Delay won is discarded rather than delivered.                           *)
THEOREM Refinement == Spec => Correlator!SafeSpec
<1>1. Init => IInv /\ RInv /\ Correlator!Init
  BY TypeInit, RestInit, RInvInit, RefineInit DEF IInv, Rest
<1>2. IInv /\ RInv /\ [Next]_vars => IInv' /\ RInv'
  BY TypeStep, RestStep, RInvStep DEF IInv, Rest
<1>3. IInv /\ RInv /\ [Next]_vars => [Correlator!Next]_Correlator!avars
  BY RefineStep
<1>. QED BY <1>1, <1>2, <1>3, PTL DEF Spec, Correlator!SafeSpec


-----------------------------------------------------------------------------
(* What the abstract correlator promises, carried down the refinement.     *)

\* The proofs about the abstract correlator, read through the mapping.
CP == INSTANCE ReplyCorrelatorProofs
         WITH state <- stateBar, kind <- kindBar,
              answer <- answerBar, out <- outBar

(* For every number of groups, children and calls, the correlation promise *)
(* of the abstract correlator holds of request, request_sync and           *)
(* request_timeout: a Result built from a reply is that of the single      *)
(* recipient's Answer, Timeout comes from request_timeout alone, and a     *)
(* reply is refused only after its task sent Timeout.  It follows from     *)
(* Refinement and the abstract theorem ResultsFaithful.                    *)
THEOREM CorrelatedResultsHold == Spec => []CorrelatedResults
<1>1. CP!RepliesOK
  BY ConstantsAssumption DEF CP!RepliesOK
<1>2. CP!SafeSpec => []CP!ResultFaithful
  BY <1>1, CP!ResultsFaithful
<1>3. Correlator!SafeSpec <=> CP!SafeSpec
  BY DEF Correlator!SafeSpec, CP!SafeSpec, Correlator!Init, CP!Init,
         Correlator!Next, CP!Next, Correlator!avars, CP!avars,
         Correlator!Create, CP!Create, Correlator!AskFail, CP!AskFail,
         Correlator!SendAsk, CP!SendAsk, Correlator!Reply, CP!Reply,
         Correlator!TimeOut, CP!TimeOut, Correlator!Deliver, CP!Deliver,
         Correlator!Complete, CP!Complete, Correlator!Interpret, CP!Interpret,
         Correlator!CallKinds, CP!CallKinds
<1>4. Correlator!ResultFaithful <=> CP!ResultFaithful
  BY DEF Correlator!ResultFaithful, CP!ResultFaithful, Correlator!Interpret,
         CP!Interpret
<1>. QED BY <1>2, <1>3, <1>4, Refinement, PTL DEF CorrelatedResults

=============================================================================
