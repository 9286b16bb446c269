---------------------------- MODULE DeliveryProofs ----------------------------
(***************************************************************************)
(* Proofs that the dispatcher and the children's loops deliver every call  *)
(* exactly once (DeliveredExactlyOnce) and that a Result once sent is     *)
(* never replaced (SingleOutcome).  They rest on the lemmas of             *)
(* DistributorProofs about mailboxes and about Rest.                       *)
(***************************************************************************)
EXTENDS DistributorProofs, FiniteSetTheorems

-----------------------------------------------------------------------------
(* Counting copies: in a mailbox without duplicates an op has one copy or  *)
(* none.                                                                   *)

LEMMA CopiesInSeq ==
    ASSUME NEW s \in Seq(Ops), NoDupSeq(s), NEW o
    PROVE  Cardinality({i \in DOMAIN s : s[i] = o}) = IF InSeq(o, s) THEN 1 ELSE 0
<1>1. CASE InSeq(o, s)
  <2>1. PICK i \in DOMAIN s : s[i] = o
    BY <1>1 DEF InSeq
  <2>2. {j \in DOMAIN s : s[j] = o} = {i}
    BY <2>1 DEF NoDupSeq
  <2>. QED BY <1>1, <2>2, FS_Singleton
<1>2. CASE ~InSeq(o, s)
  <2>1. {j \in DOMAIN s : s[j] = o} = {}
    BY <1>2 DEF InSeq
  <2>. QED BY <1>2, <2>1, FS_EmptySet
<1>. QED BY <1>1, <1>2

\* Copies(o, a) is 1 when o is in a's mailbox and 0 otherwise.
LEMMA CopiesInBox ==
    ASSUME TypeOK, NoDups, NEW o \in Ops, NEW a \in Actors
    PROVE  Copies(o, a) = IF InBox(o, a) THEN 1 ELSE 0
<1>1. mailbox[a] \in Seq(Ops) /\ NoDupSeq(mailbox[a])
  BY DEF TypeOK, NoDups, NoDup, NoDupSeq
<1>2. InBox(o, a) <=> InSeq(o, mailbox[a])
  BY DEF InBox, InSeq
<1>. QED BY <1>1, <1>2, CopiesInSeq DEF Copies

-----------------------------------------------------------------------------
(* DeliveryInv, step by step.  Only a call on a fresh op id (Spawn,        *)
(* DirectCall, TaskAsk) gives an op copies, recipients or slots; the      *)
(* child's loop only removes copies and resolves slots to a value other   *)
(* than "none"; every other step leaves all four alone.                    *)

(* A copy waits only in the mailbox of a child the dispatcher handed the   *)
(* call to, and every recipient of a question holds a reply slot.  With    *)
(* IInv this gives DeliveredExactlyOnce (ExactlyOnceFromInv).             *)
BoxDelivered(o, a) ==
    /\ InBox(o, a) => a \in delivered[o]
    /\ op[o].kind \notin TellKinds /\ a \in delivered[o] => slot[<<o, a>>] # "none"

DeliveryInv == \A o \in Ops, a \in Actors : BoxDelivered(o, a)

\* A step that adds no copy, keeps the recipients and kinds, and never
\* closes a slot keeps DeliveryInv.
LEMMA DInvMono ==
    ASSUME DeliveryInv, op' = op, delivered' = delivered,
           \A o \in Ops, a \in Actors : InBox(o, a)' => InBox(o, a),
           \A o \in Ops, a \in Actors :
              slot[<<o, a>>] # "none" => slot'[<<o, a>>] # "none"
    PROVE  DeliveryInv'
BY DEF DeliveryInv, BoxDelivered

\* A step that changes the data of op o alone keeps DeliveryInv when o's
\* own conjuncts hold afterwards.
LEMMA DInvOne ==
    ASSUME DeliveryInv, NEW o \in Ops,
           \A o2 \in Ops \ {o} :
              /\ op'[o2] = op[o2] /\ delivered'[o2] = delivered[o2]
              /\ \A a \in Actors : /\ InBox(o2, a)' <=> InBox(o2, a)
                                   /\ slot'[<<o2, a>>] = slot[<<o2, a>>],
           \A a \in Actors : BoxDelivered(o, a)'
    PROVE  DeliveryInv'
<1> SUFFICES ASSUME NEW o2 \in Ops, NEW a \in Actors PROVE BoxDelivered(o2, a)'
  BY DEF DeliveryInv
<1>1. CASE o2 = o
  BY <1>1
<1>2. CASE o2 # o
  <2>1. /\ op'[o2] = op[o2] /\ delivered'[o2] = delivered[o2]
        /\ InBox(o2, a)' <=> InBox(o2, a)
        /\ slot'[<<o2, a>>] = slot[<<o2, a>>]
    BY <1>2
  <2>2. BoxDelivered(o2, a)
    BY DEF DeliveryInv
  <2>. QED BY <2>1, <2>2 DEF BoxDelivered
<1>. QED BY <1>1, <1>2

\* An op id that is free or spawned has no copy and no recipient (FreshOp).
LEMMA FreshNothing ==
    ASSUME Rest, NEW o \in Ops, pc[o] \in {"free", "spawned"}
    PROVE  /\ result[o] = "none" /\ delivered[o] = {}
           /\ \A a \in Actors : slot[<<o, a>>] = "none" /\ ~InBox(o, a)
<1>1. OpOK(o)
  BY RestByOp
<1>. QED BY <1>1 DEF OpOK, FreshOp

\* A step that leaves the mailboxes, the recipients and the slots alone
\* and changes a kind only of an op with no recipient keeps DeliveryInv.
LEMMA DInvQuiet ==
    ASSUME DeliveryInv, NEW o \in Ops, delivered[o] = {},
           mailbox' = mailbox, delivered' = delivered, slot' = slot,
           \A o2 \in Ops \ {o} : op'[o2] = op[o2]
    PROVE  DeliveryInv'
<1>1. \A o2, b : InBox(o2, b)' <=> InBox(o2, b)
  BY BoxSame
<1>2. \A a \in Actors : BoxDelivered(o, a)'
  BY <1>1 DEF DeliveryInv, BoxDelivered
<1>. QED BY <1>1, <1>2, DInvOne

\* A fresh op handed to the recipients S (appended to their mailboxes,
\* delivered set S, and, for a question, pending slots at S) keeps
\* DeliveryInv.
LEMMA DInvFreshDeliver ==
    ASSUME TypeOK, Rest, DeliveryInv, NEW o \in Ops, NEW S \in SUBSET Actors,
           pc[o] \in {"free", "spawned"}, Deliver(o, S),
           \A o2 \in Ops \ {o} : op'[o2] = op[o2],
           \A s2 \in Slots : s2[1] # o => slot'[s2] = slot[s2],
           op'[o].kind \notin TellKinds =>
              \A a \in S : slot'[<<o, a>>] = "pending"
    PROVE  DeliveryInv'
<1>1. /\ delivered[o] = {}
      /\ \A a \in Actors : ~InBox(o, a)
  BY FreshNothing
<1>2. NoDups
  BY RestByOp
<1>3. \A o2 \in Ops, b \in Actors :
         InBox(o2, b)' <=> (InBox(o2, b) \/ (o2 = o /\ b \in S))
  BY <1>1, <1>2, BoxDeliver
<1>4. delivered' = [delivered EXCEPT ![o] = S]
  BY DEF Deliver
<1>5. \A o2 \in Ops \ {o} :
         /\ op'[o2] = op[o2] /\ delivered'[o2] = delivered[o2]
         /\ \A a \in Actors : /\ InBox(o2, a)' <=> InBox(o2, a)
                              /\ slot'[<<o2, a>>] = slot[<<o2, a>>]
  BY <1>3, <1>4 DEF Slots
<1>6. ASSUME NEW a \in Actors PROVE BoxDelivered(o, a)'
  <2>1. delivered'[o] = S
    BY <1>4 DEF TypeOK
  <2>2. InBox(o, a)' <=> a \in S
    BY <1>1, <1>3
  <2>. QED BY <2>1, <2>2 DEF BoxDelivered
<1>. QED BY <1>5, <1>6, DInvOne

\* request*: a free op id gets its task; nothing is delivered yet.
LEMMA DInvSpawn ==
    ASSUME TypeOK, Rest, DeliveryInv, NEW o \in Ops, NEW k, NEW n, NEW w,
           Spawn(o, k, n, w)
    PROVE  DeliveryInv'
<1>1. pc[o] = "free" /\ mailbox' = mailbox /\ delivered' = delivered /\ slot' = slot
  BY DEF Spawn
<1>2. \A o2 \in Ops \ {o} : op'[o2] = op[o2]
  BY DEF Spawn, TypeOK
<1>3. delivered[o] = {}
  BY <1>1, FreshNothing
<1>. QED BY <1>1, <1>2, <1>3, DInvQuiet

\* tell_*/ask_*: a free op id is delivered to S, or to no one.
LEMMA DInvDirectCall ==
    ASSUME TypeOK, Rest, DeliveryInv, NEW o \in Ops,
           NEW k \in AskKinds \cup TellKinds, NEW n \in Names,
           NEW S \in SUBSET Actors, DirectCall(o, k, n, S)
    PROVE  DeliveryInv'
<1>1. /\ pc[o] = "free"
      /\ op' = [op EXCEPT ![o] = [kind |-> k, name |-> n, owner |-> Main]]
  BY DEF DirectCall
<1>2. \A o2 \in Ops \ {o} : op'[o2] = op[o2]
  BY <1>1 DEF TypeOK
<1>3. CASE S = {}
  <2>1. mailbox' = mailbox /\ delivered' = delivered /\ slot' = slot
    BY <1>3 DEF DirectCall
  <2>2. delivered[o] = {}
    BY <1>1, FreshNothing
  <2>. QED BY <1>2, <2>1, <2>2, DInvQuiet
<1>4. CASE S # {}
  <2>1. Deliver(o, S)
    BY <1>4 DEF DirectCall
  <2>2. op'[o].kind = k
    BY <1>1 DEF TypeOK
  <2>3. CASE k \in AskKinds
    <3>1. OpenSlots(o, S)
      BY <1>4, <2>3 DEF DirectCall
    <3>2. /\ \A s2 \in Slots : s2[1] # o => slot'[s2] = slot[s2]
          /\ \A a \in S : slot'[<<o, a>>] = "pending"
      BY <3>1 DEF OpenSlots, Slots
    <3>. QED BY <1>1, <1>2, <2>1, <3>2, DInvFreshDeliver
  <2>4. CASE k \in TellKinds
    <3>1. slot' = slot
      BY <1>4, <2>4 DEF DirectCall, AskKinds, TellKinds
    <3>. QED BY <1>1, <1>2, <2>1, <2>2, <2>4, <3>1, DInvFreshDeliver
  <2>. QED BY <2>3, <2>4
<1>. QED BY <1>3, <1>4

\* The task of a request asks one subscriber, or finds none.
LEMMA DInvTaskAsk ==
    ASSUME TypeOK, Rest, DeliveryInv, NEW o \in Ops, TaskAsk(o)
    PROVE  DeliveryInv'
<1>1. pc[o] = "spawned" /\ op' = op
  BY DEF TaskAsk
<1>2. \A o2 \in Ops \ {o} : op'[o2] = op[o2]
  BY <1>1
<1>3. CASE mailbox' = mailbox /\ delivered' = delivered /\ slot' = slot
  <2>1. delivered[o] = {}
    BY <1>1, FreshNothing
  <2>. QED BY <1>2, <1>3, <2>1, DInvQuiet
<1>4. CASE \E a \in Actors : Deliver(o, {a}) /\ OpenSlots(o, {a})
  <2>1. PICK a \in Actors : Deliver(o, {a}) /\ OpenSlots(o, {a})
    BY <1>4
  <2>2. /\ \A s2 \in Slots : s2[1] # o => slot'[s2] = slot[s2]
        /\ slot'[<<o, a>>] = "pending"
    BY <2>1 DEF OpenSlots, Slots
  <2>. QED BY <1>1, <1>2, <2>1, <2>2, DInvFreshDeliver
<1>5. subs[op[o].name] \subseteq Actors
  <2>1. op[o].name \in Names
    BY NoNameInNames DEF TypeOK, OpRec, NoOp
  <2>. QED BY <2>1 DEF TypeOK
<1>6. \/ mailbox' = mailbox /\ delivered' = delivered /\ slot' = slot
      \/ \E a \in subs[op[o].name] : Deliver(o, {a}) /\ OpenSlots(o, {a})
  BY DEF TaskAsk
<1>. QED BY <1>3, <1>4, <1>5, <1>6

\* A child's loop takes the head of its mailbox and resolves its slot to
\* a reply or a refusal, never back to "none".
LEMMA DInvRespond ==
    ASSUME TypeOK, Rest, DeliveryInv, NEW a \in Actors, Respond(a)
    PROVE  DeliveryInv'
<1>1. /\ mailbox[a] # <<>>
      /\ mailbox' = [mailbox EXCEPT ![a] = Tail(@)]
      /\ op' = op /\ delivered' = delivered
  BY DEF Respond
<1>2. \A o \in Ops, b \in Actors : InBox(o, b)' => InBox(o, b)
  <2>1. NoDups
    BY RestByOp
  <2>. QED BY <1>1, <2>1, BoxTake
<1>3. \A s2 \in Slots : slot'[s2] = slot[s2] \/ slot'[s2] \in {"ok", "wrong", "dropped", "refused"}
  <2>1. CASE slot' = slot
    BY <2>1
  <2>2. CASE \E r \in Replies :
               slot' = [slot EXCEPT ![<<Head(mailbox[a]), a>>] =
                          IF r # "dropped" /\ ~rxAlive[<<Head(mailbox[a]), a>>]
                             THEN "refused" ELSE r]
    <3>1. PICK r \in Replies :
               slot' = [slot EXCEPT ![<<Head(mailbox[a]), a>>] =
                          IF r # "dropped" /\ ~rxAlive[<<Head(mailbox[a]), a>>]
                             THEN "refused" ELSE r]
      BY <2>2, Zenon
    <3>2. r \in {"ok", "wrong", "dropped"}
      BY ConstantsAssumption
    <3>. QED BY <3>1, <3>2
  <2>. QED BY <2>1, <2>2, <1>1, Zenon DEF Respond
<1>. QED BY <1>1, <1>2, <1>3, DInvMono DEF Slots

\* A step that leaves the mailboxes, kinds, recipients and slots alone.
LEMMA DInvFrame ==
    ASSUME DeliveryInv, UNCHANGED <<mailbox, op, delivered, slot>>
    PROVE  DeliveryInv'
<1>1. \A o2, b : InBox(o2, b)' <=> InBox(o2, b)
  BY BoxSame
<1>. QED BY <1>1, DInvMono

LEMMA DInvInit == Init => DeliveryInv
BY DEF Init, DeliveryInv, BoxDelivered, InBox

\* Every step keeps DeliveryInv, given the type invariant and Rest.
LEMMA DInvStep == TypeOK /\ Rest /\ DeliveryInv /\ [Next]_vars => DeliveryInv'
<1> SUFFICES ASSUME TypeOK, Rest, DeliveryInv, [Next]_vars PROVE DeliveryInv'
  OBVIOUS
<1>1. ASSUME UNCHANGED <<mailbox, op, delivered, slot>> PROVE DeliveryInv'
  BY <1>1, DInvFrame
<1>2. ASSUME NEW n \in Names, NEW a \in Actors,
             subscribe(n, a) \/ unsubscribe(n, a)
      PROVE  DeliveryInv'
  BY <1>1, <1>2 DEF subscribe, unsubscribe, register_recipient, remove_recipient
<1>3. ASSUME NEW o \in Ops, NEW n \in Names,
             tell_one(o, n) \/ ask_one(o, n)
      PROVE  DeliveryInv'
  <2>1. PICK k \in AskKinds \cup TellKinds, S \in OneOf(n) :
          DirectCall(o, k, n, S)
    BY <1>3 DEF tell_one, ask_one, AskKinds, TellKinds
  <2>2. S \in SUBSET Actors
    BY OneOfType
  <2>. QED BY <2>1, <2>2, DInvDirectCall
<1>4. ASSUME NEW o \in Ops, NEW n \in Names,
             tell_everyone(o, n) \/ ask_everyone(o, n)
      PROVE  DeliveryInv'
  <2>1. PICK k \in AskKinds \cup TellKinds : DirectCall(o, k, n, subs[n])
    BY <1>4 DEF tell_everyone, ask_everyone, AskKinds, TellKinds
  <2>2. subs[n] \in SUBSET Actors
    BY DEF TypeOK
  <2>. QED BY <2>1, <2>2, DInvDirectCall
<1>5. ASSUME NEW o \in Ops, NEW n \in Names, NEW w \in Owners,
             \/ request(o, n, w) \/ request_sync(o, n, w)
             \/ request_timeout(o, n, w)
      PROVE  DeliveryInv'
  <2>1. PICK k \in RequestKinds : Spawn(o, k, n, w)
    BY <1>5 DEF request, request_sync, request_timeout, RequestKinds
  <2>. QED BY <2>1, DInvSpawn
<1>6. ASSUME NEW o \in Ops, TaskAsk(o) PROVE DeliveryInv'
  BY <1>6, DInvTaskAsk
<1>7. ASSUME NEW o \in Ops,
             \/ AwaitReply(o) \/ AwaitReplySync(o) \/ SelectReply(o)
             \/ TimerElapsed(o) \/ Receive(o) \/ DropReceiver(o)
      PROVE  DeliveryInv'
  BY <1>1, <1>7 DEF AwaitReply, AwaitReplySync, SelectReply, ReplyArrives,
                    TimerElapsed, Receive, DropReceiver
<1>8. ASSUME NEW o \in Ops, NEW a \in Actors, ReleaseAnswer(o, a)
      PROVE  DeliveryInv'
  BY <1>1, <1>8 DEF ReleaseAnswer
<1>9. ASSUME NEW a \in Actors, Respond(a) PROVE DeliveryInv'
  BY <1>9, DInvRespond
<1>10. CASE UNCHANGED vars
  BY <1>1, <1>10 DEF vars
<1>. QED BY <1>2, <1>3, <1>4, <1>5, <1>6, <1>7, <1>8, <1>9, <1>10 DEF Next

-----------------------------------------------------------------------------
(* From the invariants to DeliveredExactlyOnce.                            *)

\* IInv with DeliveryInv gives DeliveredExactlyOnce in every state.
LEMMA ExactlyOnceFromInv ==
    TypeOK /\ Rest /\ DeliveryInv => DeliveredExactlyOnce
<1> SUFFICES ASSUME TypeOK, Rest, DeliveryInv, NEW o \in Ops, NEW a \in Actors
             PROVE  /\ Copies(o, a) <= 1
                    /\ Copies(o, a) = 1 => a \in delivered[o]
                    /\ op[o].kind \notin TellKinds =>
                         /\ (a \in delivered[o]) <=> (slot[<<o, a>>] # "none")
                         /\ (slot[<<o, a>>] = "pending") <=> (Copies(o, a) = 1)
  BY DEF DeliveredExactlyOnce
<1>1. NoDups /\ SlotMatchesBox(o, a)
  <2>1. OpOK(o) /\ NoDups
    BY RestByOp
  <2>. QED BY <2>1 DEF OpOK
<1>2. Copies(o, a) = IF InBox(o, a) THEN 1 ELSE 0
  BY <1>1, CopiesInBox
<1>3. BoxDelivered(o, a)
  BY DEF DeliveryInv
<1>. QED BY <1>1, <1>2, <1>3 DEF BoxDelivered, SlotMatchesBox

(* The dispatcher and the children's loops hand every recipient of a call   *)
(* exactly one copy and, for a question, one reply slot that is pending    *)
(* exactly while the copy waits (tell_everyone, ask_everyone, request*,    *)
(* Respond), for every number of groups, children and calls.               *)
THEOREM DeliveredOnce == Spec => []DeliveredExactlyOnce
<1>1. Init => TypeOK /\ Rest /\ DeliveryInv
  BY TypeInit, RestInit, DInvInit
<1>2. TypeOK /\ Rest /\ DeliveryInv /\ [Next]_vars
         => (TypeOK /\ Rest /\ DeliveryInv)'
  BY TypeStep, RestStep, DInvStep
<1>. QED BY <1>1, <1>2, ExactlyOnceFromInv, PTL DEF Spec

-----------------------------------------------------------------------------
(* SingleOutcome.  Only a call (DirectCall, TaskAsk) and the end of a      *)
(* request task (ReplyArrives, TimerElapsed) write a Result, and each      *)
(* writes only the Result of its own op, whose pc (free, spawned or        *)
(* waiting) says by FreshOps and TaskOps that nothing was sent yet.        *)

\* No Result already sent is changed by the step.
ResultKept == \A o2 \in Ops : result[o2] # "none" => result'[o2] = result[o2]

\* A step that writes only the Result of an op whose Result is unset.
LEMMA ResultKeptOne ==
    ASSUME TypeOK, NEW o \in Ops, result[o] = "none", NEW v,
           result' = [result EXCEPT ![o] = v]
    PROVE  ResultKept
BY DEF ResultKept, TypeOK

\* A task still spawned or waiting has sent nothing (TaskOps).
LEMMA TaskUnsent ==
    ASSUME Rest, NEW o \in Ops, pc[o] \in {"spawned", "waiting"}
    PROVE  result[o] = "none"
<1>1. OpOK(o)
  BY RestByOp
<1>. QED BY <1>1 DEF OpOK, TaskOp

\* Every step keeps every Result already sent.
LEMMA ResultStep == TypeOK /\ Rest /\ [Next]_vars => ResultKept
<1> SUFFICES ASSUME TypeOK, Rest, [Next]_vars PROVE ResultKept
  OBVIOUS
<1>1. ASSUME result' = result PROVE ResultKept
  BY <1>1 DEF ResultKept
<1>2. ASSUME NEW o \in Ops, NEW k, NEW n, NEW S, DirectCall(o, k, n, S)
      PROVE  ResultKept
  <2>1. result[o] = "none"
    BY <1>2, FreshNothing DEF DirectCall
  <2>2. \E v : result' = [result EXCEPT ![o] = v]
    BY <1>2 DEF DirectCall
  <2>. QED BY <2>1, <2>2, ResultKeptOne
<1>3. ASSUME NEW o \in Ops, TaskAsk(o) PROVE ResultKept
  <2>1. result[o] = "none"
    BY <1>3, TaskUnsent DEF TaskAsk
  <2>2. result' = result \/ result' = [result EXCEPT ![o] = "Unreachable"]
    BY <1>3 DEF TaskAsk
  <2>. QED BY <1>1, <2>1, <2>2, ResultKeptOne
<1>4. ASSUME NEW o \in Ops, ReplyArrives(o) PROVE ResultKept
  <2>1. result[o] = "none"
    BY <1>4, TaskUnsent DEF ReplyArrives
  <2>2. \E v : result' = [result EXCEPT ![o] = v]
    BY <1>4, Zenon DEF ReplyArrives
  <2>. QED BY <2>1, <2>2, ResultKeptOne
<1>5. ASSUME NEW o \in Ops, TimerElapsed(o) PROVE ResultKept
  <2>1. result[o] = "none"
    BY <1>5, TaskUnsent DEF TimerElapsed
  <2>. QED BY <1>5, <2>1, ResultKeptOne DEF TimerElapsed
<1>6. ASSUME NEW o \in Ops, NEW n \in Names,
             \/ tell_one(o, n) \/ ask_one(o, n)
             \/ tell_everyone(o, n) \/ ask_everyone(o, n)
      PROVE  ResultKept
  BY <1>2, <1>6 DEF tell_one, ask_one, tell_everyone, ask_everyone
<1>7. CASE UNCHANGED vars
  BY <1>1, <1>7 DEF vars
<1>. QED BY <1>1, <1>3, <1>4, <1>5, <1>6, <1>7
         DEF Next, subscribe, unsubscribe, register_recipient, remove_recipient,
             request, request_sync, request_timeout, Spawn, AwaitReply,
             AwaitReplySync, SelectReply, Receive, DropReceiver, ReleaseAnswer,
             Respond

(* A request observes exactly one of reply, timeout or upstream failure:   *)
(* once a call or its task has sent a Result (the select! of               *)
(* request_timeout included), no later step of any actor replaces it.      *)
THEOREM SingleOutcomeHolds == Spec => SingleOutcome
<1>1. Init => TypeOK /\ Rest
  BY TypeInit, RestInit
<1>2. TypeOK /\ Rest /\ [Next]_vars => (TypeOK /\ Rest)'
  BY TypeStep, RestStep
<1>3. TypeOK /\ Rest /\ [Next]_vars
         => [\A o \in Ops : result[o] # "none" => result'[o] = result[o]]_vars
  BY ResultStep DEF ResultKept
<1>. QED BY <1>1, <1>2, <1>3, PTL DEF Spec, SingleOutcome

====
