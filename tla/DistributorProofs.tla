-------------------------- MODULE DistributorProofs --------------------------
(***************************************************************************)
(* Machine-checked proofs about Distributor, for every value of the        *)
(* constants allowed by ConstantsAssumption.                               *)
(***************************************************************************)
EXTENDS Distributor, TLAPS

USE ConstantsAssumption

\* The placeholder record of an unused op id is a well-formed value.
LEMMA NoNameInNames == NoName \in Names
BY DEF NoName

\* Handing op o to recipients S keeps the mailboxes and delivery sets typed.
LEMMA DeliverType ==
    ASSUME TypeOK, NEW o \in Ops, NEW S \in SUBSET Actors, Deliver(o, S)
    PROVE  /\ mailbox' \in [Actors -> Seq(Ops)]
           /\ delivered' \in [Ops -> SUBSET Actors]
BY DEF Deliver, TypeOK

\* Opening reply slots keeps the slot functions typed.
LEMMA OpenSlotsType ==
    ASSUME TypeOK, NEW o \in Ops, NEW S \in SUBSET Actors, OpenSlots(o, S)
    PROVE  /\ slot' \in [Slots -> SlotStates]
           /\ rxAlive' \in [Slots -> BOOLEAN]
BY DEF OpenSlots, TypeOK, SlotStates

LEMMA DirectCallType ==
    ASSUME TypeOK, NEW o \in Ops, NEW k \in AskKinds \cup TellKinds,
           NEW n \in Names, NEW S \in SUBSET Actors, DirectCall(o, k, n, S)
    PROVE  TypeOK'
<1>1. op' \in [Ops -> OpRec \cup {NoOp}] /\ pc' \in [Ops -> PcStates]
  BY DEF DirectCall, TypeOK, OpRec, Kinds, PcStates
<1>2. CASE S = {}
  BY <1>1, <1>2 DEF DirectCall, TypeOK, Outcomes
<1>3. CASE S # {}
  <2>1. result' \in [Ops -> Outcomes \cup {"none"}]
    BY <1>3 DEF DirectCall, TypeOK, Outcomes
  <2>2. /\ mailbox' \in [Actors -> Seq(Ops)]
        /\ delivered' \in [Ops -> SUBSET Actors]
    BY <1>3, DeliverType DEF DirectCall
  <2>3. /\ slot' \in [Slots -> SlotStates]
        /\ rxAlive' \in [Slots -> BOOLEAN]
    BY <1>3, OpenSlotsType DEF DirectCall, TypeOK
  <2>4. subs' = subs /\ rxHeld' = rxHeld
    BY DEF DirectCall
  <2>. QED BY <1>1, <2>1, <2>2, <2>3, <2>4 DEF TypeOK
<1>. QED BY <1>2, <1>3

\* The sets the "one" variants choose from are sets of recipients.
LEMMA OneOfType ==
    ASSUME TypeOK, NEW n \in Names
    PROVE  OneOf(n) \subseteq SUBSET Actors
BY DEF OneOf, TypeOK

LEMMA TaskAskType ==
    ASSUME TypeOK, NEW o \in Ops, TaskAsk(o)
    PROVE  TypeOK'
<1>. DEFINE n == op[o].name
<1>0. rxHeld' = rxHeld
  BY DEF TaskAsk
<1>1. n \in Names
  BY DEF TypeOK, OpRec, NoOp, NoName
<1>2. CASE /\ subs[n] = {}
           /\ result' = [result EXCEPT ![o] = "Unreachable"]
           /\ pc' = [pc EXCEPT ![o] = "sent"]
           /\ UNCHANGED <<mailbox, delivered, slot, rxAlive>>
           /\ UNCHANGED <<subs, op>>
  BY <1>0, <1>2 DEF TypeOK, Outcomes, PcStates
<1>3. CASE /\ \E a \in subs[n] :
                 /\ Deliver(o, {a})
                 /\ OpenSlots(o, {a})
                 /\ pc' = [pc EXCEPT ![o] = "waiting"]
                 /\ UNCHANGED result
           /\ UNCHANGED <<subs, op>>
  <2>1. PICK a \in subs[n] : /\ Deliver(o, {a})
                             /\ OpenSlots(o, {a})
                             /\ pc' = [pc EXCEPT ![o] = "waiting"]
                             /\ UNCHANGED result
    BY <1>3
  <2>2. a \in Actors
    BY <1>1 DEF TypeOK
  <2>3. /\ mailbox' \in [Actors -> Seq(Ops)]
        /\ delivered' \in [Ops -> SUBSET Actors]
    BY <2>1, <2>2, DeliverType
  <2>4. /\ slot' \in [Slots -> SlotStates]
        /\ rxAlive' \in [Slots -> BOOLEAN]
    BY <2>1, <2>2, OpenSlotsType
  <2>. QED BY <1>0, <1>3, <2>1, <2>3, <2>4 DEF TypeOK, PcStates
<1>. QED BY <1>2, <1>3 DEF TaskAsk

LEMMA ReplyArrivesType ==
    ASSUME TypeOK, NEW o \in Ops, ReplyArrives(o)
    PROVE  TypeOK'
<1>1. PICK a \in delivered[o] :
        /\ slot[<<o, a>>] \in {"ok", "wrong", "dropped"}
        /\ result' = [result EXCEPT ![o] = ReplyOutcome(slot[<<o, a>>])]
        /\ rxAlive' = [rxAlive EXCEPT ![<<o, a>>] = FALSE]
  BY DEF ReplyArrives
<1>2. ReplyOutcome(slot[<<o, a>>]) \in Outcomes
  BY DEF ReplyOutcome, Outcomes
<1>. QED BY <1>1, <1>2 DEF ReplyArrives, TypeOK, PcStates

LEMMA RespondType ==
    ASSUME TypeOK, NEW a \in Actors, Respond(a)
    PROVE  TypeOK'
<1>. DEFINE o == Head(mailbox[a])
<1>1. o \in Ops /\ Tail(mailbox[a]) \in Seq(Ops)
  BY DEF Respond, TypeOK
<1>2. mailbox' \in [Actors -> Seq(Ops)]
  BY <1>1 DEF Respond, TypeOK
<1>3. slot' \in [Slots -> SlotStates]
  <2>1. CASE op[o].kind \in TellKinds
    BY <2>1 DEF Respond, TypeOK
  <2>2. CASE op[o].kind \notin TellKinds
    <3>1. PICK r \in Replies :
            slot' = [slot EXCEPT ![<<o, a>>] =
                       IF r # "dropped" /\ ~rxAlive[<<o, a>>]
                          THEN "refused" ELSE r]
      BY <2>2 DEF Respond
    <3>. QED BY <1>1, <3>1 DEF TypeOK, SlotStates, Slots
  <2>. QED BY <2>1, <2>2
<1>. QED BY <1>2, <1>3 DEF Respond, TypeOK

\* Every step keeps every variable in its type.
LEMMA TypeStep == TypeOK /\ [Next]_vars => TypeOK'
<1> SUFFICES ASSUME TypeOK, [Next]_vars PROVE TypeOK'
  OBVIOUS
<1>1. ASSUME NEW n \in Names, NEW a \in Actors,
             subscribe(n, a) \/ unsubscribe(n, a)
      PROVE  TypeOK'
  <2>1. subs' \in [Names -> SUBSET Actors]
    <3>1. CASE subscribe(n, a)
      <4>1. subs' = [subs EXCEPT ![n] = subs[n] \cup {a}]
        BY <3>1 DEF subscribe, register_recipient
      <4>. QED BY <4>1 DEF TypeOK
    <3>2. CASE unsubscribe(n, a)
      <4>1. subs' = [subs EXCEPT ![n] = subs[n] \ {a}]
        BY <3>2 DEF unsubscribe, remove_recipient
      <4>. QED BY <4>1 DEF TypeOK
    <3>. QED BY <1>1, <3>1, <3>2
  <2>2. UNCHANGED <<mailbox, op, pc, result, delivered, slot, rxAlive, rxHeld>>
    BY <1>1 DEF subscribe, unsubscribe, register_recipient, remove_recipient
  <2>. QED BY <2>1, <2>2 DEF TypeOK
<1>2. ASSUME NEW o \in Ops, NEW n \in Names,
             tell_one(o, n) \/ ask_one(o, n)
      PROVE  TypeOK'
  <2>1. PICK k \in AskKinds \cup TellKinds, S \in OneOf(n) :
          DirectCall(o, k, n, S)
    BY <1>2 DEF tell_one, ask_one, AskKinds, TellKinds
  <2>. QED BY <2>1, OneOfType, DirectCallType
<1>3. ASSUME NEW o \in Ops, NEW n \in Names,
             tell_everyone(o, n) \/ ask_everyone(o, n)
      PROVE  TypeOK'
  <2>1. PICK k \in AskKinds \cup TellKinds : DirectCall(o, k, n, subs[n])
    BY <1>3 DEF tell_everyone, ask_everyone, AskKinds, TellKinds
  <2>. QED BY <2>1, DirectCallType DEF TypeOK
<1>4. ASSUME NEW o \in Ops, NEW n \in Names, NEW w \in Owners,
             \/ request(o, n, w) \/ request_sync(o, n, w)
             \/ request_timeout(o, n, w)
      PROVE  TypeOK'
  <2>1. PICK k \in RequestKinds : Spawn(o, k, n, w)
    BY <1>4 DEF request, request_sync, request_timeout, RequestKinds
  <2>2. [kind |-> k, name |-> n, owner |-> w] \in OpRec
    BY DEF OpRec, Kinds
  <2>3. /\ op' \in [Ops -> OpRec \cup {NoOp}] /\ pc' \in [Ops -> PcStates]
        /\ rxHeld' \in [Ops -> BOOLEAN]
    BY <2>1, <2>2 DEF Spawn, TypeOK, PcStates
  <2>4. UNCHANGED <<subs, mailbox, result, delivered, slot, rxAlive>>
    BY <2>1 DEF Spawn
  <2>. QED BY <2>3, <2>4 DEF TypeOK
<1>5. ASSUME NEW o \in Ops, TaskAsk(o) PROVE TypeOK'
  BY <1>5, TaskAskType
<1>6. ASSUME NEW o \in Ops,
             AwaitReply(o) \/ AwaitReplySync(o) \/ SelectReply(o)
      PROVE  TypeOK'
  BY <1>6, ReplyArrivesType DEF AwaitReply, AwaitReplySync, SelectReply
<1>7. ASSUME NEW o \in Ops, TimerElapsed(o) PROVE TypeOK'
  BY <1>7 DEF TimerElapsed, TypeOK, Outcomes, PcStates
<1>8. ASSUME NEW o \in Ops, Receive(o) PROVE TypeOK'
  BY <1>8 DEF Receive, TypeOK, PcStates
<1>9. ASSUME NEW o \in Ops, NEW a \in Actors, ReleaseAnswer(o, a)
      PROVE  TypeOK'
  BY <1>9 DEF ReleaseAnswer, TypeOK, Slots
<1>10. ASSUME NEW a \in Actors, Respond(a) PROVE TypeOK'
  BY <1>10, RespondType
<1>11. CASE UNCHANGED vars
  BY <1>11 DEF vars, TypeOK
<1>12. ASSUME NEW o \in Ops, DropReceiver(o) PROVE TypeOK'
  BY <1>12 DEF DropReceiver, TypeOK
<1>. QED BY <1>1, <1>2, <1>3, <1>4, <1>5, <1>6, <1>7, <1>8, <1>9, <1>10,
            <1>11, <1>12 DEF Next

LEMMA TypeInit == Init => TypeOK
BY NoNameInNames DEF Init, TypeOK, NoOp, PcStates, SlotStates

\* Every reachable state has every variable in its type.
THEOREM TypeCorrect == Spec => []TypeOK
BY TypeInit, TypeStep, PTL DEF Spec

-----------------------------------------------------------------------------
(* Mailboxes as sequences: membership and the absence of duplicates under *)
(* the dispatcher's Append and the child loop's Tail.                      *)

InSeq(x, s) == \E i \in DOMAIN s : s[i] = x

NoDupSeq(s) == \A i, j \in DOMAIN s : s[i] = s[j] => i = j

\* Appending o adds exactly o, and keeps a sequence free of duplicates when
\* o was not in it.
LEMMA AppendFacts ==
    ASSUME NEW s \in Seq(Ops), NEW o \in Ops, NEW x
    PROVE  /\ InSeq(x, Append(s, o)) <=> (InSeq(x, s) \/ x = o)
           /\ NoDupSeq(s) /\ ~InSeq(o, s) => NoDupSeq(Append(s, o))
<1>1. InSeq(x, Append(s, o)) <=> (InSeq(x, s) \/ x = o)
  BY DEF InSeq
<1>2. ASSUME NoDupSeq(s), ~InSeq(o, s) PROVE NoDupSeq(Append(s, o))
  BY <1>2 DEF NoDupSeq, InSeq
<1>. QED BY <1>1, <1>2

\* Removing the head of a duplicate-free sequence removes exactly the head.
LEMMA TailFacts ==
    ASSUME NEW s \in Seq(Ops), s # <<>>, NoDupSeq(s), NEW x
    PROVE  /\ InSeq(x, Tail(s)) <=> (InSeq(x, s) /\ x # Head(s))
           /\ NoDupSeq(Tail(s))
<1>1. /\ Len(Tail(s)) = Len(s) - 1
      /\ \A i \in 1..Len(s) - 1 : Tail(s)[i] = s[i + 1]
      /\ Head(s) = s[1] /\ Len(s) >= 1
  OBVIOUS
<1>2. ASSUME InSeq(x, Tail(s)) PROVE InSeq(x, s) /\ x # Head(s)
  <2>1. PICK i \in 1..Len(s) - 1 : Tail(s)[i] = x
    BY <1>1, <1>2 DEF InSeq
  <2>2. s[i + 1] = x /\ i + 1 \in DOMAIN s /\ i + 1 # 1
    BY <1>1, <2>1
  <2>. QED BY <1>1, <2>2 DEF InSeq, NoDupSeq
<1>3. ASSUME InSeq(x, s), x # Head(s) PROVE InSeq(x, Tail(s))
  <2>1. PICK j \in 1..Len(s) : s[j] = x
    BY <1>3 DEF InSeq
  <2>2. j # 1 /\ j - 1 \in 1..Len(s) - 1
    BY <1>1, <1>3, <2>1
  <2>3. j - 1 \in DOMAIN Tail(s) /\ Tail(s)[j - 1] = x
    BY <1>1, <2>1, <2>2
  <2>. QED BY <2>3 DEF InSeq
<1>4. NoDupSeq(Tail(s))
  BY <1>1 DEF NoDupSeq
<1>. QED BY <1>2, <1>3, <1>4

\* Removing the head keeps a sequence free of duplicates.
LEMMA TailNoDup ==
    ASSUME NEW s \in Seq(Ops), s # <<>>, NoDupSeq(s)
    PROVE  NoDupSeq(Tail(s))
<1>1. /\ Len(Tail(s)) = Len(s) - 1
      /\ \A i \in 1..Len(s) - 1 : Tail(s)[i] = s[i + 1]
  OBVIOUS
<1>. QED BY <1>1 DEF NoDupSeq


-----------------------------------------------------------------------------
(* How the three kinds of mailbox step (dispatcher append, loop take, no   *)
(* change) move membership and keep mailboxes free of duplicates.          *)

\* The dispatcher appends a fresh op o to the mailboxes of S.
LEMMA BoxDeliver ==
    ASSUME TypeOK, NoDups, NEW o \in Ops, NEW S \in SUBSET Actors,
           Deliver(o, S), \A a \in S : ~InBox(o, a)
    PROVE  /\ \A o2 \in Ops, b \in Actors :
                 InBox(o2, b)' <=> (InBox(o2, b) \/ (o2 = o /\ b \in S))
           /\ NoDups'
<1>1. \A b \in Actors : mailbox'[b] = IF b \in S THEN Append(mailbox[b], o)
                                                 ELSE mailbox[b]
  BY DEF Deliver
<1>2. \A b \in Actors : mailbox[b] \in Seq(Ops) /\ NoDupSeq(mailbox[b])
  BY DEF TypeOK, NoDups, NoDup, NoDupSeq
<1>3. ASSUME NEW o2, NEW b \in Actors
      PROVE  InBox(o2, b)' <=> (InBox(o2, b) \/ (o2 = o /\ b \in S))
  <2>1. /\ InBox(o2, b) <=> InSeq(o2, mailbox[b])
        /\ InBox(o2, b)' <=> InSeq(o2, mailbox'[b])
    BY DEF InBox, InSeq
  <2>2. CASE b \in S
    BY <1>1, <1>2, <2>1, <2>2, AppendFacts
  <2>3. CASE b \notin S
    BY <1>1, <2>1, <2>3
  <2>. QED BY <2>2, <2>3
<1>4. ASSUME NEW b \in Actors PROVE NoDup(b)'
  <2>1. NoDup(b)' <=> NoDupSeq(mailbox'[b])
    BY DEF NoDup, NoDupSeq
  <2>2. CASE b \in S
    <3>1. ~InSeq(o, mailbox[b])
      BY <2>2 DEF InBox, InSeq
    <3>. QED BY <1>1, <1>2, <2>1, <2>2, <3>1, AppendFacts
  <2>3. CASE b \notin S
    BY <1>1, <1>2, <2>1, <2>3
  <2>. QED BY <2>2, <2>3
<1>. QED BY <1>3, <1>4 DEF NoDups

\* A child's loop takes the head of its own mailbox.
LEMMA BoxTake ==
    ASSUME TypeOK, NoDups, NEW a \in Actors, mailbox[a] # <<>>,
           mailbox' = [mailbox EXCEPT ![a] = Tail(@)]
    PROVE  /\ \A o2 \in Ops, b \in Actors :
                 InBox(o2, b)' <=>
                    (InBox(o2, b) /\ ~(b = a /\ o2 = Head(mailbox[a])))
           /\ NoDups'
<1>1. \A b \in Actors : mailbox'[b] = IF b = a THEN Tail(mailbox[b])
                                                ELSE mailbox[b]
  BY DEF TypeOK
<1>2. \A b \in Actors : mailbox[b] \in Seq(Ops) /\ NoDupSeq(mailbox[b])
  BY DEF TypeOK, NoDups, NoDup, NoDupSeq
<1>3. ASSUME NEW o2, NEW b \in Actors
      PROVE  InBox(o2, b)' <=>
                (InBox(o2, b) /\ ~(b = a /\ o2 = Head(mailbox[a])))
  <2>1. /\ InBox(o2, b) <=> InSeq(o2, mailbox[b])
        /\ InBox(o2, b)' <=> InSeq(o2, mailbox'[b])
    BY DEF InBox, InSeq
  <2>2. CASE b = a
    BY <1>1, <1>2, <2>1, <2>2, TailFacts
  <2>3. CASE b # a
    BY <1>1, <2>1, <2>3
  <2>. QED BY <2>2, <2>3
<1>4. ASSUME NEW b \in Actors PROVE NoDup(b)'
  <2>1. NoDup(b)' <=> NoDupSeq(mailbox'[b])
    BY DEF NoDup, NoDupSeq
  <2>2. CASE b = a
    <3>1. mailbox[a] \in Seq(Ops) /\ NoDupSeq(mailbox[a])
      BY <1>2
    <3>2. NoDupSeq(Tail(mailbox[a]))
      BY <3>1, TailNoDup
    <3>. QED BY <1>1, <2>1, <2>2, <3>2
  <2>3. CASE b # a
    BY <1>1, <1>2, <2>1, <2>3
  <2>. QED BY <2>2, <2>3
<1>. QED BY <1>3, <1>4 DEF NoDups

\* A step that leaves the mailboxes alone.
LEMMA BoxSame ==
    ASSUME mailbox' = mailbox
    PROVE  /\ \A o2, b : InBox(o2, b)' <=> InBox(o2, b)
           /\ NoDups' <=> NoDups
BY DEF InBox, NoDups, NoDup

-----------------------------------------------------------------------------
(* RequestOutcomeFaithful, through its inductive strengthening IInv.  The  *)
(* conjuncts are stated per op; a step changes the data of one op (or,    *)
(* for Respond, one slot), and every other op keeps its conjuncts because *)
(* its own data is unchanged (OpFrame).                                    *)

\* The proofs below cite the assumption on the constants where they need it.
HIDE ConstantsAssumption

\* The conjuncts of IInv beyond the type invariant.
Rest ==
    /\ RequestOutcomeFaithful
    /\ FreshOps
    /\ TaskOps
    /\ WaitingOps
    /\ SlotsMatchBox
    /\ NoDups

\* The per-op part of Rest.
OpOK(o) ==
    /\ OutcomeFaithful(o)
    /\ FreshOp(o)
    /\ TaskOp(o)
    /\ WaitingOp(o)
    /\ \A a \in Actors : SlotMatchesBox(o, a)

LEMMA RestByOp ==
    /\ Rest <=> (\A o \in Ops : OpOK(o)) /\ NoDups
    /\ Rest' <=> (\A o \in Ops : OpOK(o)') /\ NoDups'
BY DEF Rest, OpOK, RequestOutcomeFaithful, FreshOps, TaskOps, WaitingOps,
       SlotsMatchBox

\* An op whose own data and mailbox copies are unchanged keeps its conjuncts.
LEMMA OpFrame ==
    ASSUME NEW o, op'[o] = op[o], pc'[o] = pc[o], result'[o] = result[o],
           delivered'[o] = delivered[o],
           \A a \in Actors : /\ slot'[<<o, a>>] = slot[<<o, a>>]
                             /\ InBox(o, a)' <=> InBox(o, a)
    PROVE  OpOK(o)' <=> OpOK(o)
<1>1. OutcomeFaithful(o)' <=> OutcomeFaithful(o)
  BY Zenon DEF OutcomeFaithful, ReplyOutcome, RequestKinds
<1>2. FreshOp(o)' <=> FreshOp(o)
  BY DEF FreshOp
<1>3. TaskOp(o)' <=> TaskOp(o)
  BY DEF TaskOp, RequestKinds
<1>4. WaitingOp(o)' <=> WaitingOp(o)
  BY Zenon DEF WaitingOp
<1>5. (\A a \in Actors : SlotMatchesBox(o, a)') <=>
      (\A a \in Actors : SlotMatchesBox(o, a))
  BY DEF SlotMatchesBox, TellKinds
<1>. QED BY <1>1, <1>2, <1>3, <1>4, <1>5 DEF OpOK

\* A step that touches no op's data and moves ops only to sent or done
\* (Receive, subscribe, unsubscribe, releasing an Answer) keeps Rest.
LEMMA RestPcOnly ==
    ASSUME Rest, mailbox' = mailbox, op' = op, result' = result,
           delivered' = delivered, slot' = slot,
           \A o \in Ops : pc'[o] \in {"free", "spawned", "waiting"} => pc'[o] = pc[o]
    PROVE  Rest'
<1>0. (\A o \in Ops : OpOK(o)) /\ NoDups
  BY RestByOp
<1>1. NoDups' /\ \A o2, b : InBox(o2, b)' <=> InBox(o2, b)
  BY <1>0, BoxSame
<1>2. ASSUME NEW o \in Ops PROVE OpOK(o)'
  <2>1. CASE pc'[o] = pc[o]
    BY <1>0, <1>1, <2>1, OpFrame
  <2>2. CASE pc'[o] # pc[o]
    <3>1. pc'[o] \notin {"free", "spawned", "waiting"}
      BY <2>2
    <3>2. OpOK(o)
      BY <1>0
    <3>3. OutcomeFaithful(o)'
      BY <3>2, Zenon DEF OpOK, OutcomeFaithful, ReplyOutcome, RequestKinds
    <3>4. FreshOp(o)' /\ TaskOp(o)' /\ WaitingOp(o)'
      BY <3>1 DEF FreshOp, TaskOp, WaitingOp
    <3>5. \A a \in Actors : SlotMatchesBox(o, a)'
      BY <1>1, <3>2 DEF OpOK, SlotMatchesBox, TellKinds
    <3>. QED BY <3>3, <3>4, <3>5 DEF OpOK
  <2>. QED BY <2>1, <2>2
<1>. QED BY <1>1, <1>2, RestByOp

\* Spawning the task of a request on a free op id keeps Rest.
LEMMA RestSpawn ==
    ASSUME TypeOK, Rest, NEW o \in Ops, NEW k \in RequestKinds,
           NEW n \in Names, NEW w, Spawn(o, k, n, w)
    PROVE  Rest'
<1>0. (\A o2 \in Ops : OpOK(o2)) /\ NoDups
  BY RestByOp
<1>1. /\ mailbox' = mailbox /\ result' = result
      /\ delivered' = delivered /\ slot' = slot
      /\ pc[o] = "free"
      /\ pc' = [pc EXCEPT ![o] = "spawned"]
      /\ op' = [op EXCEPT ![o] = [kind |-> k, name |-> n, owner |-> w]]
  BY DEF Spawn
<1>2. NoDups' /\ \A o2, b : InBox(o2, b)' <=> InBox(o2, b)
  BY <1>0, <1>1, BoxSame
<1>3. ASSUME NEW o2 \in Ops, o2 # o PROVE OpOK(o2)'
  <2>1. op'[o2] = op[o2] /\ pc'[o2] = pc[o2]
    BY <1>1, <1>3 DEF TypeOK
  <2>. QED BY <1>0, <1>1, <1>2, <2>1, OpFrame
<1>4. OpOK(o)'
  <2>1. /\ result[o] = "none" /\ delivered[o] = {}
        /\ \A a \in Actors : slot[<<o, a>>] = "none" /\ ~InBox(o, a)
    BY <1>0, <1>1 DEF OpOK, FreshOp
  <2>2. pc'[o] = "spawned" /\ op'[o].kind = k
    BY <1>1 DEF TypeOK
  <2>3. OutcomeFaithful(o)'
    BY <1>1, <2>1 DEF OutcomeFaithful
  <2>4. FreshOp(o)'
    BY <1>1, <1>2, <2>1 DEF FreshOp
  <2>5. TaskOp(o)'
    BY <1>1, <2>1, <2>2 DEF TaskOp
  <2>6. WaitingOp(o)'
    BY <2>2 DEF WaitingOp
  <2>7. \A a \in Actors : SlotMatchesBox(o, a)'
    BY <1>1, <1>2, <2>1 DEF SlotMatchesBox
  <2>. QED BY <2>3, <2>4, <2>5, <2>6, <2>7 DEF OpOK
<1>. QED BY <1>2, <1>3, <1>4, RestByOp

\* A tell or ask call on a free op id keeps Rest: the fresh op gets its
\* copies and, for a question, pending slots at exactly its recipients.
LEMMA RestDirectCall ==
    ASSUME TypeOK, Rest, NEW o \in Ops, NEW k \in AskKinds \cup TellKinds,
           NEW n \in Names, NEW S \in SUBSET Actors, DirectCall(o, k, n, S)
    PROVE  Rest'
<1>0. (\A o2 \in Ops : OpOK(o2)) /\ NoDups
  BY RestByOp
<1>1. /\ pc[o] = "free"
      /\ pc' = [pc EXCEPT ![o] = "done"]
      /\ op' = [op EXCEPT ![o] = [kind |-> k, name |-> n, owner |-> Main]]
  BY DEF DirectCall
<1>2. /\ result[o] = "none" /\ delivered[o] = {}
      /\ \A a \in Actors : slot[<<o, a>>] = "none" /\ ~InBox(o, a)
  BY <1>0, <1>1 DEF OpOK, FreshOp
<1>3. /\ pc'[o] = "done" /\ op'[o].kind = k
      /\ \A o2 \in Ops \ {o} : op'[o2] = op[o2] /\ pc'[o2] = pc[o2]
  BY <1>1 DEF TypeOK
<1>4. k \notin RequestKinds
  BY DEF AskKinds, TellKinds, RequestKinds
\* The parts of OpOK(o)' that hold whatever the dispatcher did.
<1>5. OutcomeFaithful(o)' /\ FreshOp(o)' /\ TaskOp(o)' /\ WaitingOp(o)'
  BY <1>3, <1>4 DEF OutcomeFaithful, FreshOp, TaskOp, WaitingOp
<1>6. CASE S = {}
  <2>1. /\ UNCHANGED <<mailbox, delivered, slot>>
        /\ result' = [result EXCEPT ![o] = "Unreachable"]
    BY <1>6 DEF DirectCall
  <2>2. NoDups' /\ \A o2, b : InBox(o2, b)' <=> InBox(o2, b)
    BY <1>0, <2>1, BoxSame
  <2>3. ASSUME NEW o2 \in Ops, o2 # o PROVE OpOK(o2)'
    <3>1. result'[o2] = result[o2]
      BY <2>1, <2>3 DEF TypeOK
    <3>. QED BY <1>0, <1>3, <2>1, <2>2, <2>3, <3>1, OpFrame
  <2>4. \A a \in Actors : SlotMatchesBox(o, a)'
    BY <1>2, <2>1, <2>2 DEF SlotMatchesBox
  <2>. QED BY <1>5, <2>2, <2>3, <2>4, RestByOp DEF OpOK
<1>7. CASE S # {}
  <2>1. /\ result' = [result EXCEPT ![o] = "Sent"]
        /\ Deliver(o, S)
        /\ IF k \in AskKinds THEN OpenSlots(o, S) ELSE UNCHANGED <<slot, rxAlive>>
    BY <1>7 DEF DirectCall
  <2>2. /\ NoDups'
        /\ \A o2 \in Ops, b \in Actors :
              InBox(o2, b)' <=> (InBox(o2, b) \/ (o2 = o /\ b \in S))
    <3>1. \A a \in S : ~InBox(o, a)
      BY <1>2, Zenon
    <3>2. Deliver(o, S) /\ NoDups
      BY <1>0, <2>1
    <3>. QED BY <3>1, <3>2, BoxDeliver
  <2>3. /\ delivered' = [delivered EXCEPT ![o] = S]
        /\ \A s \in Slots : slot'[s] = IF s[1] = o /\ s[2] \in S /\ k \in AskKinds
                                          THEN "pending" ELSE slot[s]
    <3>1. delivered' = [delivered EXCEPT ![o] = S]
      BY <2>1 DEF Deliver
    <3>2. CASE k \in AskKinds
      <4>1. OpenSlots(o, S)
        BY <2>1, <3>2
      <4>. QED BY <3>1, <3>2, <4>1 DEF OpenSlots
    <3>3. CASE k \notin AskKinds
      <4>1. slot' = slot
        BY <2>1, <3>3
      <4>. QED BY <3>1, <3>3, <4>1
    <3>. QED BY <3>1, <3>2, <3>3
  <2>4. ASSUME NEW o2 \in Ops, o2 # o PROVE OpOK(o2)'
    <3>1. result'[o2] = result[o2] /\ delivered'[o2] = delivered[o2]
      BY <2>1, <2>3, <2>4 DEF TypeOK
    <3>2. \A a \in Actors : /\ slot'[<<o2, a>>] = slot[<<o2, a>>]
                            /\ InBox(o2, a)' <=> InBox(o2, a)
      BY <2>2, <2>3, <2>4 DEF Slots
    <3>. QED BY <1>0, <1>3, <2>4, <3>1, <3>2, OpFrame
  <2>5. ASSUME NEW a \in Actors PROVE SlotMatchesBox(o, a)'
    <3>1. delivered'[o] = S
      BY <2>3 DEF TypeOK
    <3>2. slot'[<<o, a>>] = IF a \in S /\ k \in AskKinds THEN "pending" ELSE "none"
      BY <1>2, <2>3 DEF Slots
    <3>3. InBox(o, a)' <=> a \in S
      BY <1>2, <2>2, Zenon
    <3>. QED BY <1>3, <3>1, <3>2, <3>3 DEF SlotMatchesBox, AskKinds, TellKinds
  <2>. QED BY <1>5, <2>2, <2>4, <2>5, RestByOp DEF OpOK
<1>. QED BY <1>6, <1>7

\* The spawned task's ask keeps Rest: an empty group gives Unreachable with
\* no recipient, otherwise the op waits on one pending slot.
LEMMA RestTaskAsk ==
    ASSUME TypeOK, Rest, NEW o \in Ops, TaskAsk(o)
    PROVE  Rest'
<1>0. (\A o2 \in Ops : OpOK(o2)) /\ NoDups
  BY RestByOp
<1>1. /\ pc[o] = "spawned" /\ op' = op
      /\ op[o].kind \in RequestKinds /\ result[o] = "none" /\ delivered[o] = {}
      /\ \A a \in Actors : slot[<<o, a>>] = "none" /\ ~InBox(o, a)
  BY <1>0 DEF TaskAsk, OpOK, FreshOp, TaskOp
<1>2. subs[op[o].name] \subseteq Actors
  BY NoNameInNames, ConstantsAssumption DEF TypeOK, OpRec, NoOp
<1>3. CASE /\ subs[op[o].name] = {}
           /\ result' = [result EXCEPT ![o] = "Unreachable"]
           /\ pc' = [pc EXCEPT ![o] = "sent"]
           /\ UNCHANGED <<mailbox, delivered, slot, rxAlive>>
  <2>1. NoDups' /\ \A o2, b : InBox(o2, b)' <=> InBox(o2, b)
    BY <1>0, <1>3, BoxSame
  <2>2. /\ result'[o] = "Unreachable" /\ pc'[o] = "sent"
        /\ \A o2 \in Ops \ {o} : result'[o2] = result[o2] /\ pc'[o2] = pc[o2]
    BY <1>3 DEF TypeOK
  <2>3. ASSUME NEW o2 \in Ops, o2 # o PROVE OpOK(o2)'
    BY <1>0, <1>1, <1>3, <2>1, <2>2, <2>3, OpFrame
  <2>4. OutcomeFaithful(o)'
    BY <1>1, <1>3, <2>2 DEF OutcomeFaithful
  <2>5. FreshOp(o)' /\ TaskOp(o)' /\ WaitingOp(o)'
    BY <2>2 DEF FreshOp, TaskOp, WaitingOp
  <2>6. \A a \in Actors : SlotMatchesBox(o, a)'
    BY <1>1, <1>3, <2>1, Zenon DEF SlotMatchesBox
  <2>. QED BY <2>1, <2>3, <2>4, <2>5, <2>6, RestByOp DEF OpOK
<1>4. CASE \E a \in subs[op[o].name] :
              /\ Deliver(o, {a})
              /\ OpenSlots(o, {a})
              /\ pc' = [pc EXCEPT ![o] = "waiting"]
              /\ UNCHANGED result
  <2>1. PICK a \in subs[op[o].name] :
              /\ Deliver(o, {a})
              /\ OpenSlots(o, {a})
              /\ pc' = [pc EXCEPT ![o] = "waiting"]
              /\ UNCHANGED result
    BY <1>4, Zenon
  <2>2. a \in Actors
    BY <1>2, <2>1
  <2>3. /\ NoDups'
        /\ \A o2 \in Ops, b \in Actors :
              InBox(o2, b)' <=> (InBox(o2, b) \/ (o2 = o /\ b \in {a}))
    <3>1. \A b \in {a} : ~InBox(o, b)
      BY <1>1, <2>2, Zenon
    <3>2. Deliver(o, {a}) /\ NoDups /\ {a} \in SUBSET Actors
      BY <1>0, <2>1, <2>2
    <3>. QED BY <3>1, <3>2, BoxDeliver
  <2>4. /\ delivered' = [delivered EXCEPT ![o] = {a}]
        /\ \A s \in Slots : slot'[s] = IF s[1] = o /\ s[2] \in {a}
                                          THEN "pending" ELSE slot[s]
        /\ pc'[o] = "waiting"
        /\ \A o2 \in Ops \ {o} : pc'[o2] = pc[o2]
    BY <2>1 DEF Deliver, OpenSlots, TypeOK
  <2>5. ASSUME NEW o2 \in Ops, o2 # o PROVE OpOK(o2)'
    <3>1. delivered'[o2] = delivered[o2] /\ result'[o2] = result[o2]
      BY <2>1, <2>4, <2>5 DEF TypeOK
    <3>2. \A b \in Actors : /\ slot'[<<o2, b>>] = slot[<<o2, b>>]
                            /\ InBox(o2, b)' <=> InBox(o2, b)
      BY <2>3, <2>4, <2>5 DEF Slots
    <3>. QED BY <1>0, <1>1, <2>4, <2>5, <3>1, <3>2, OpFrame
  <2>6. /\ delivered'[o] = {a}
        /\ \A b \in Actors : slot'[<<o, b>>] = IF b = a THEN "pending" ELSE "none"
    BY <1>1, <2>4 DEF TypeOK, Slots
  <2>7. OutcomeFaithful(o)' /\ FreshOp(o)' /\ TaskOp(o)'
    BY <1>1, <2>1, <2>4 DEF OutcomeFaithful, FreshOp, TaskOp
  <2>8. WaitingOp(o)'
    BY <2>2, <2>6 DEF WaitingOp
  <2>9. ASSUME NEW b \in Actors PROVE SlotMatchesBox(o, b)'
    <3>1. InBox(o, b)' <=> b = a
      BY <1>1, <2>3, Zenon
    <3>2. op'[o].kind \notin TellKinds
      BY <1>1 DEF RequestKinds, TellKinds
    <3>. QED BY <2>6, <3>1, <3>2 DEF SlotMatchesBox
  <2>. QED BY <2>3, <2>5, <2>7, <2>8, <2>9, RestByOp DEF OpOK
<1>5. \/ /\ subs[op[o].name] = {}
         /\ result' = [result EXCEPT ![o] = "Unreachable"]
         /\ pc' = [pc EXCEPT ![o] = "sent"]
         /\ UNCHANGED <<mailbox, delivered, slot, rxAlive>>
      \/ \E a \in subs[op[o].name] :
            /\ Deliver(o, {a})
            /\ OpenSlots(o, {a})
            /\ pc' = [pc EXCEPT ![o] = "waiting"]
            /\ UNCHANGED result
  BY Zenon DEF TaskAsk
<1>. QED BY <1>3, <1>4, <1>5

\* A waiting task that sends a Result keeps Rest, provided the Result it
\* sends is the faithful one.
LEMMA RestSend ==
    ASSUME TypeOK, Rest, NEW o \in Ops,
           pc[o] = "waiting", pc'[o] = "sent",
           \A o2 \in Ops \ {o} : result'[o2] = result[o2] /\ pc'[o2] = pc[o2],
           mailbox' = mailbox, op' = op, delivered' = delivered, slot' = slot,
           OutcomeFaithful(o)'
    PROVE  Rest'
<1>0. (\A o2 \in Ops : OpOK(o2)) /\ NoDups
  BY RestByOp
<1>1. NoDups' /\ \A o2, b : InBox(o2, b)' <=> InBox(o2, b)
  BY <1>0, BoxSame
<1>3. ASSUME NEW o2 \in Ops, o2 # o PROVE OpOK(o2)'
  BY <1>0, <1>1, <1>3, OpFrame
<1>4. FreshOp(o)' /\ TaskOp(o)' /\ WaitingOp(o)'
  BY DEF FreshOp, TaskOp, WaitingOp
<1>5. \A a \in Actors : SlotMatchesBox(o, a)'
  <2>1. \A a \in Actors : SlotMatchesBox(o, a)
    BY <1>0 DEF OpOK
  <2>. QED BY <1>1, <2>1, Zenon DEF SlotMatchesBox, TellKinds
<1>. QED BY <1>1, <1>3, <1>4, <1>5, RestByOp DEF OpOK

\* The awaited Answer resolved: the task sends the Result of its only
\* recipient's reply.
LEMMA RestReplyArrives ==
    ASSUME TypeOK, Rest, NEW o \in Ops, ReplyArrives(o)
    PROVE  Rest'
<1>0. OpOK(o)
  BY RestByOp
<1>1. PICK a \in delivered[o] :
         /\ slot[<<o, a>>] \in {"ok", "wrong", "dropped"}
         /\ result' = [result EXCEPT ![o] = ReplyOutcome(slot[<<o, a>>])]
  BY Zenon DEF ReplyArrives
<1>2. /\ pc[o] = "waiting" /\ pc' = [pc EXCEPT ![o] = "sent"]
      /\ mailbox' = mailbox /\ op' = op /\ delivered' = delivered /\ slot' = slot
  BY DEF ReplyArrives
<1>3. PICK b \in Actors : delivered[o] = {b}
  BY <1>0, <1>2, Zenon DEF OpOK, WaitingOp
<1>4. a = b /\ op[o].kind \in RequestKinds
  BY <1>0, <1>2, <1>3 DEF OpOK, TaskOp
<1>5. result'[o] = ReplyOutcome(slot[<<o, a>>])
  BY <1>1 DEF TypeOK
<1>6. OutcomeFaithful(o)'
  <2>1. result'[o] # "Unreachable" /\ delivered'[o] = {a}
    BY <1>1, <1>2, <1>3, <1>4, <1>5 DEF ReplyOutcome
  <2>2. slot'[<<o, a>>] \in {"ok", "wrong", "dropped"}
        /\ result'[o] = ReplyOutcome(slot'[<<o, a>>])
    BY <1>1, <1>2, <1>5
  <2>. QED BY <1>3, <1>4, <2>1, <2>2 DEF OutcomeFaithful
<1>7. /\ pc'[o] = "sent"
      /\ \A o2 \in Ops \ {o} : result'[o2] = result[o2] /\ pc'[o2] = pc[o2]
  BY <1>1, <1>2 DEF TypeOK
<1>. QED BY <1>2, <1>6, <1>7, RestSend

\* The Delay won: the task sends Timeout, and its one recipient is known.
LEMMA RestTimerElapsed ==
    ASSUME TypeOK, Rest, NEW o \in Ops, TimerElapsed(o)
    PROVE  Rest'
<1>0. OpOK(o)
  BY RestByOp
<1>1. /\ pc[o] = "waiting" /\ pc' = [pc EXCEPT ![o] = "sent"]
      /\ op[o].kind = "request_timeout"
      /\ result' = [result EXCEPT ![o] = "Timeout"]
      /\ mailbox' = mailbox /\ op' = op /\ delivered' = delivered /\ slot' = slot
  BY DEF TimerElapsed
<1>2. PICK b \in Actors : delivered[o] = {b}
  BY <1>0, <1>1, Zenon DEF OpOK, WaitingOp
<1>3. result'[o] = "Timeout"
  BY <1>1 DEF TypeOK
<1>4. OutcomeFaithful(o)'
  BY <1>1, <1>2, <1>3 DEF OutcomeFaithful
<1>5. /\ pc'[o] = "sent"
      /\ \A o2 \in Ops \ {o} : result'[o2] = result[o2] /\ pc'[o2] = pc[o2]
  BY <1>1 DEF TypeOK
<1>. QED BY <1>1, <1>4, <1>5, RestSend

(* A child's loop takes the head h of its mailbox and, for a question,     *)
(* resolves its slot.  The slot was pending (SlotsMatchBox), so no Result  *)
(* already sent was built from it: a sent Result that names this slot is  *)
(* a Timeout, which does not depend on the slot.                           *)
LEMMA RestRespond ==
    ASSUME TypeOK, Rest, NEW a \in Actors, Respond(a)
    PROVE  Rest'
<1>0. (\A o2 \in Ops : OpOK(o2)) /\ NoDups
  BY RestByOp
<1>1. /\ mailbox[a] # <<>>
      /\ mailbox' = [mailbox EXCEPT ![a] = Tail(@)]
      /\ op' = op /\ pc' = pc /\ result' = result /\ delivered' = delivered
  BY DEF Respond
<1>h. PICK h \in Ops : h = Head(mailbox[a])
  BY <1>1 DEF TypeOK
<1>2. InBox(h, a)
  <2>1. mailbox[a] \in Seq(Ops)
    BY DEF TypeOK
  <2>2. 1 \in DOMAIN mailbox[a] /\ mailbox[a][1] = h
    BY <1>1, <1>h, <2>1
  <2>. QED BY <2>2 DEF InBox
<1>3. /\ NoDups'
      /\ \A o2 \in Ops, b \in Actors :
            InBox(o2, b)' <=> (InBox(o2, b) /\ ~(b = a /\ o2 = h))
  <2>1. NoDups /\ mailbox[a] # <<>> /\ mailbox' = [mailbox EXCEPT ![a] = Tail(@)]
    BY <1>0, <1>1
  <2>2. /\ \A o2 \in Ops, b \in Actors :
              InBox(o2, b)' <=>
                 (InBox(o2, b) /\ ~(b = a /\ o2 = Head(mailbox[a])))
        /\ NoDups'
    BY <2>1, BoxTake, ZenonT(120)
  <2>. QED BY <2>2, <1>h
<1>4. \A s \in Slots : s # <<h, a>> => slot'[s] = slot[s]
  <2>1. CASE op[h].kind \in TellKinds
    BY <1>1, <1>h, <2>1 DEF Respond
  <2>2. CASE op[h].kind \notin TellKinds
    <3>1. PICK r \in Replies :
             slot' = [slot EXCEPT ![<<h, a>>] =
                        IF r # "dropped" /\ ~rxAlive[<<h, a>>] THEN "refused" ELSE r]
      BY <1>1, <1>h, <2>2, Zenon DEF Respond
    <3>. QED BY <3>1 DEF TypeOK
  <2>. QED BY <2>1, <2>2
\* Every other op keeps its conjuncts.
<1>5. ASSUME NEW o2 \in Ops, o2 # h PROVE OpOK(o2)'
  <2>1. \A b \in Actors : /\ slot'[<<o2, b>>] = slot[<<o2, b>>]
                          /\ InBox(o2, b)' <=> InBox(o2, b)
    BY <1>3, <1>4, <1>5 DEF Slots
  <2>. QED BY <1>0, <1>1, <1>5, <2>1, OpFrame
\* h itself was dispatched, so its FreshOp conjunct is vacuous.
<1>6. pc[h] \notin {"free", "spawned"}
  BY <1>0, <1>2, Zenon DEF OpOK, FreshOp
<1>7. FreshOp(h)' /\ TaskOp(h)'
  <2>1. TaskOp(h)
    BY <1>0, <1>2 DEF OpOK
  <2>. QED BY <1>1, <1>6, <2>1 DEF FreshOp, TaskOp, RequestKinds
<1>8. CASE op[h].kind \in TellKinds
  <2>1. slot' = slot
    BY <1>1, <1>h, <1>8 DEF Respond
  <2>2. \A b \in Actors : SlotMatchesBox(h, b)'
    BY <1>0, <1>1, <1>2, <1>8, <2>1 DEF OpOK, SlotMatchesBox
  <2>3. OutcomeFaithful(h)' /\ WaitingOp(h)'
    <3>1. OutcomeFaithful(h) /\ WaitingOp(h)
      BY <1>0, <1>2 DEF OpOK
    <3>. QED BY <1>1, <2>1, <3>1, Zenon DEF OutcomeFaithful, WaitingOp, ReplyOutcome, RequestKinds
  <2>. QED BY <1>2, <1>3, <1>5, <1>7, <2>2, <2>3, RestByOp DEF OpOK
<1>9. CASE op[h].kind \notin TellKinds
  <2>1. PICK r \in Replies :
           slot' = [slot EXCEPT ![<<h, a>>] =
                      IF r # "dropped" /\ ~rxAlive[<<h, a>>] THEN "refused" ELSE r]
    BY <1>1, <1>h, <1>9, Zenon DEF Respond
  <2>2. slot'[<<h, a>>] \in {"ok", "wrong", "dropped", "refused"}
    BY <1>2, <2>1, ConstantsAssumption DEF TypeOK, Slots
  <2>3. slot[<<h, a>>] = "pending" /\ a \in delivered[h]
    <3>1. SlotMatchesBox(h, a)
      BY <1>0, <1>2 DEF OpOK
    <3>. QED BY <1>2, <1>9, <3>1 DEF SlotMatchesBox
  <2>4. ASSUME NEW b \in Actors PROVE SlotMatchesBox(h, b)'
    <3>1. CASE b = a
      <4>1. ~InBox(h, a)'
        BY <1>2, <1>3
      <4>. QED BY <1>1, <2>2, <2>3, <3>1, <4>1 DEF SlotMatchesBox
    <3>2. CASE b # a
      <4>1. slot'[<<h, b>>] = slot[<<h, b>>] /\ (InBox(h, b)' <=> InBox(h, b))
        BY <1>2, <1>3, <1>4, <3>2 DEF Slots
      <4>2. SlotMatchesBox(h, b)
        BY <1>0, <1>2 DEF OpOK
      <4>. QED BY <1>1, <4>1, <4>2 DEF SlotMatchesBox
    <3>. QED BY <3>1, <3>2
  <2>5. WaitingOp(h)'
    <3>1. SUFFICES ASSUME pc'[h] = "waiting"
                   PROVE  \E c \in Actors : delivered'[h] = {c} /\ slot'[<<h, c>>] # "none"
      BY DEF WaitingOp
    <3>2. PICK c \in Actors : delivered[h] = {c}
      BY <1>0, <1>1, <1>2, <3>1, Zenon DEF OpOK, WaitingOp
    <3>3. c = a
      BY <2>3, <3>2
    <3>. QED BY <1>1, <2>2, <3>2, <3>3
  \* The key case: a sent Result of h cannot have been built from the slot
  \* being resolved now, which was still pending.
  <2>6. OutcomeFaithful(h)'
    <3>1. SUFFICES ASSUME op'[h].kind \in RequestKinds, result'[h] # "none"
                   PROVE  IF result'[h] = "Unreachable" THEN delivered'[h] = {}
                          ELSE \E c \in Actors :
                                  /\ delivered'[h] = {c}
                                  /\ \/ result'[h] = "Timeout" /\ op'[h].kind = "request_timeout"
                                     \/ /\ slot'[<<h, c>>] \in {"ok", "wrong", "dropped"}
                                        /\ result'[h] = ReplyOutcome(slot'[<<h, c>>])
      BY DEF OutcomeFaithful
    <3>2. OutcomeFaithful(h)
      BY <1>0, <1>2 DEF OpOK
    <3>3. result[h] # "Unreachable"
      BY <1>1, <2>3, <3>1, <3>2 DEF OutcomeFaithful
    <3>4. PICK c \in Actors :
             /\ delivered[h] = {c}
             /\ \/ result[h] = "Timeout" /\ op[h].kind = "request_timeout"
                \/ /\ slot[<<h, c>>] \in {"ok", "wrong", "dropped"}
                   /\ result[h] = ReplyOutcome(slot[<<h, c>>])
      BY <1>1, <3>1, <3>2, <3>3, Zenon DEF OutcomeFaithful
    <3>5. c = a
      BY <2>3, <3>4
    <3>6. result[h] = "Timeout" /\ op[h].kind = "request_timeout"
      BY <2>3, <3>4, <3>5
    <3>. QED BY <1>1, <3>3, <3>4, <3>6
  <2>. QED BY <1>3, <1>5, <1>7, <2>4, <2>5, <2>6, RestByOp DEF OpOK
<1>. QED BY <1>8, <1>9

\* Rest holds initially: nothing is asked, every mailbox is empty.
LEMMA RestInit == Init => Rest
<1> SUFFICES ASSUME Init PROVE (\A o \in Ops : OpOK(o)) /\ NoDups
  BY RestByOp
<1>1. \A o2 : \A b \in Actors : ~InBox(o2, b)
  BY DEF Init, InBox
<1>2. NoDups
  BY DEF Init, NoDups, NoDup
<1>3. ASSUME NEW o \in Ops PROVE OpOK(o)
  <2>1. op[o].kind = "none" /\ result[o] = "none" /\ pc[o] = "free"
        /\ delivered[o] = {} /\ \A a \in Actors : slot[<<o, a>>] = "none"
    BY DEF Init, NoOp, Slots
  <2>. QED BY <1>1, <2>1, Zenon
           DEF OpOK, OutcomeFaithful, FreshOp, TaskOp, WaitingOp, SlotMatchesBox,
               RequestKinds, TellKinds
<1>. QED BY <1>2, <1>3

\* Every step of the system keeps Rest, given the type invariant.
LEMMA RestStep == TypeOK /\ Rest /\ [Next]_vars => Rest'
<1> SUFFICES ASSUME TypeOK, Rest, [Next]_vars PROVE Rest'
  OBVIOUS
\* The steps that change no op's data.
<1>1. ASSUME UNCHANGED <<mailbox, op, pc, result, delivered, slot>> PROVE Rest'
  BY <1>1, RestPcOnly
<1>2. ASSUME NEW n \in Names, NEW a \in Actors,
             subscribe(n, a) \/ unsubscribe(n, a)
      PROVE  Rest'
  BY <1>1, <1>2 DEF subscribe, unsubscribe, register_recipient, remove_recipient
<1>3. ASSUME NEW o \in Ops, NEW a \in Actors, ReleaseAnswer(o, a) PROVE Rest'
  BY <1>1, <1>3 DEF ReleaseAnswer
<1>4. ASSUME NEW o \in Ops, Receive(o) PROVE Rest'
  <2>1. \A o2 \in Ops : pc'[o2] \in {"free", "spawned", "waiting"} => pc'[o2] = pc[o2]
    BY <1>4 DEF Receive, TypeOK
  <2>. QED BY <1>4, <2>1, RestPcOnly DEF Receive
\* The calls.
<1>5. ASSUME NEW o \in Ops, NEW n \in Names,
             tell_one(o, n) \/ ask_one(o, n)
      PROVE  Rest'
  <2>1. PICK k \in AskKinds \cup TellKinds, S \in OneOf(n) :
          DirectCall(o, k, n, S)
    BY <1>5 DEF tell_one, ask_one, AskKinds, TellKinds
  <2>2. S \in SUBSET Actors
    BY OneOfType
  <2>. QED BY <2>1, <2>2, RestDirectCall
<1>6. ASSUME NEW o \in Ops, NEW n \in Names,
             tell_everyone(o, n) \/ ask_everyone(o, n)
      PROVE  Rest'
  <2>1. PICK k \in AskKinds \cup TellKinds : DirectCall(o, k, n, subs[n])
    BY <1>6 DEF tell_everyone, ask_everyone, AskKinds, TellKinds
  <2>2. subs[n] \in SUBSET Actors
    BY DEF TypeOK
  <2>. QED BY <2>1, <2>2, RestDirectCall
<1>7. ASSUME NEW o \in Ops, NEW n \in Names, NEW w \in Owners,
             \/ request(o, n, w) \/ request_sync(o, n, w)
             \/ request_timeout(o, n, w)
      PROVE  Rest'
  <2>1. PICK k \in RequestKinds : Spawn(o, k, n, w)
    BY <1>7 DEF request, request_sync, request_timeout, RequestKinds
  <2>. QED BY <2>1, RestSpawn
\* The task and the responders.
<1>8. ASSUME NEW o \in Ops, TaskAsk(o) PROVE Rest'
  BY <1>8, RestTaskAsk
<1>9. ASSUME NEW o \in Ops,
             AwaitReply(o) \/ AwaitReplySync(o) \/ SelectReply(o)
      PROVE  Rest'
  BY <1>9, RestReplyArrives DEF AwaitReply, AwaitReplySync, SelectReply
<1>10. ASSUME NEW o \in Ops, TimerElapsed(o) PROVE Rest'
  BY <1>10, RestTimerElapsed
<1>11. ASSUME NEW a \in Actors, Respond(a) PROVE Rest'
  BY <1>11, RestRespond
<1>12. CASE UNCHANGED vars
  BY <1>1, <1>12 DEF vars
<1>13. ASSUME NEW o \in Ops, DropReceiver(o) PROVE Rest'
  BY <1>1, <1>13 DEF DropReceiver
<1>. QED BY <1>2, <1>3, <1>4, <1>5, <1>6, <1>7, <1>8, <1>9, <1>10, <1>11, <1>12,
            <1>13 DEF Next

(* Reply correlation holds in every reachable state, for every number of   *)
(* groups, children and calls: the Result a request, request_sync or       *)
(* request_timeout task sends is the one its own Answer calls for (or     *)
(* Timeout, or Unreachable when no child was asked).  IInv is its          *)
(* inductive strengthening.                                                *)
THEOREM RequestsFaithful == Spec => []RequestOutcomeFaithful
<1>1. Init => IInv
  BY TypeInit, RestInit DEF IInv, Rest
<1>2. IInv /\ [Next]_vars => IInv'
  BY TypeStep, RestStep DEF IInv, Rest
<1>3. IInv => RequestOutcomeFaithful
  BY DEF IInv
<1>. QED BY <1>1, <1>2, <1>3, PTL DEF Spec

====
