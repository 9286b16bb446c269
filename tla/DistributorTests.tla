--------------------------- MODULE DistributorTests ---------------------------
(***************************************************************************)
(* The crate's own test of the Distributor (mod distributor_tests): the    *)
(* test thread runs test_tell, test_ask, test_request and test_subscribe   *)
(* one call after the other against the Distributor model, while the       *)
(* children started by setup() answer from their exec loops and the tasks  *)
(* of request* run on the executor.  Every unwrap, expect and assert of    *)
(* the test is a check in the thread's step: a failed one panics.          *)
(*                                                                         *)
(* Two request_timeout calls depend on time: the children sleep 10 ms      *)
(* before replying, against a Delay of 100 ms and one of 1 ns.  The model  *)
(* has no clock.  With DelayOrder the select! of the 100 ms call is never  *)
(* won by its Delay and that of the 1 ns call never by its reply, which is *)
(* what the test takes for granted; without it either branch may win.      *)
(***************************************************************************)
EXTENDS Distributor, FiniteSets

CONSTANTS
    TestDist,      \* Distributor::named(TEST_DISTRIBUTOR)
    SubDist,       \* Distributor::named(SUBSCRIBE_TEST_DISTRIBUTOR)
    TempDist,      \* Distributor::named("temp distributor")
    TestChildren,  \* the NUM_CHILDREN children of the test group
    SubChild,      \* the one child of the subscribe-test group
    DelayOrder     \* the 10 ms sleep orders both select!s as the test assumes

\* The op ids of the calls, in the order run_tests makes them.
OpTell == 1
OpTellAll == 2
OpAsk == 3
OpAskAll == 4
OpReq == 5
OpReqSync == 6
OpReqSlow == 7
OpReqFast == 8
OpTempEmpty == 9
OpSubReq == 10
OpTempSub == 11
OpTempUnsub == 12

ASSUME TestAssumption ==
    /\ Ops = 1..12
    /\ {TestDist, SubDist, TempDist} \subseteq Names
    /\ Actors = TestChildren \cup {SubChild} /\ SubChild \notin TestChildren
    /\ Owners = {Main} /\ Replies = {"ok"}
    /\ DelayOrder \in BOOLEAN

\* with_redundancy(NUM_CHILDREN)
NUM_CHILDREN == Cardinality(TestChildren)

\* The errors request_timeout builds with SendError::Other.
OtherErrors == {"Timeout", "TypeMismatch", "ReplyFailed"}

VARIABLES
    tpc,       \* where the test thread is in run_tests
    oneChild   \* the ChildRef the subscribe-test child replied with

tvars == <<vars, tpc, oneChild>>

(* setup(): both groups of children are started, and subscribed through    *)
(* with_distributor, before setup returns (it waits for every after_start  *)
(* callback); nothing has been called yet.                                 *)
TestInit ==
    /\ subs = [n \in Names |-> IF n = TestDist THEN TestChildren
                               ELSE IF n = SubDist THEN {SubChild} ELSE {}]
    /\ mailbox = [a \in Actors |-> <<>>]
    /\ op = [o \in Ops |-> NoOp]
    /\ pc = [o \in Ops |-> "free"]
    /\ result = [o \in Ops |-> "none"]
    /\ delivered = [o \in Ops |-> {}]
    /\ slot = [s \in Slots |-> "none"]
    /\ rxAlive = [s \in Slots |-> FALSE]
    /\ rxHeld = [o \in Ops |-> FALSE]
    /\ tpc = "tell_one"
    /\ oneChild = "none"

\* An unwrap, expect or assert: the test thread goes on, or panics.
Check(ok, next) == tpc' = IF ok THEN next ELSE "panicked"

(* answer.await.unwrap() on every Answer of o, then on_tell(|answer: u8|   *)
(* assert_eq!(42, answer)) with a panicking on_fallback; the Answers are   *)
(* consumed.                                                               *)
AwaitAnswers(o, next) ==
    /\ \A a \in delivered[o] : slot[<<o, a>>] # "pending"
    /\ rxAlive' = [s \in Slots |-> IF s[1] = o THEN FALSE ELSE rxAlive[s]]
    /\ Check(\A a \in delivered[o] : slot[<<o, a>>] = "ok", next)
    /\ UNCHANGED <<subs, mailbox, op, pc, result, delivered, slot, rxHeld, oneChild>>

\* receiver.await / recv() on o's result conduit, then the test's checks.
AwaitResult(o, ok, next) == Receive(o) /\ Check(ok, next) /\ UNCHANGED oneChild

\* A call whose return the test does not check.
Call(A, next) == A /\ tpc' = next /\ UNCHANGED oneChild

test_tell ==
    \/ /\ tpc = "tell_one" /\ tell_one(OpTell, TestDist)
       /\ Check(result'[OpTell] # "Unreachable", "tell_everyone")
       /\ UNCHANGED oneChild
    \/ /\ tpc = "tell_everyone" /\ tell_everyone(OpTellAll, TestDist)
       /\ Check(/\ result'[OpTellAll] # "Unreachable"
                /\ Cardinality(delivered'[OpTellAll]) = NUM_CHILDREN, "ask_one")
       /\ UNCHANGED oneChild

test_ask ==
    \/ /\ tpc = "ask_one" /\ ask_one(OpAsk, TestDist)
       /\ Check(result'[OpAsk] # "Unreachable", "await_answer")
       /\ UNCHANGED oneChild
    \/ tpc = "await_answer" /\ AwaitAnswers(OpAsk, "ask_everyone")
    \/ /\ tpc = "ask_everyone" /\ ask_everyone(OpAskAll, TestDist)
       /\ Check(/\ result'[OpAskAll] # "Unreachable"
                /\ Cardinality(delivered'[OpAskAll]) = NUM_CHILDREN, "join_all")
       /\ UNCHANGED oneChild
    \/ tpc = "join_all" /\ AwaitAnswers(OpAskAll, "request")

test_request ==
    \/ tpc = "request" /\ Call(request(OpReq, TestDist, Main), "await_request")
    \/ /\ tpc = "await_request"
       /\ AwaitResult(OpReq, result[OpReq] = "Ok", "request_sync")
    \/ tpc = "request_sync" /\ Call(request_sync(OpReqSync, TestDist, Main), "recv")
    \/ tpc = "recv" /\ AwaitResult(OpReqSync, result[OpReqSync] = "Ok", "timeout_100ms")
    \/ /\ tpc = "timeout_100ms"
       /\ Call(request_timeout(OpReqSlow, TestDist, Main), "await_100ms")
    \/ /\ tpc = "await_100ms"
       /\ AwaitResult(OpReqSlow, result[OpReqSlow] = "Ok", "timeout_1ns")
    \/ /\ tpc = "timeout_1ns"
       /\ Call(request_timeout(OpReqFast, TestDist, Main), "await_1ns")
    \/ /\ tpc = "await_1ns"
       /\ AwaitResult(OpReqFast, result[OpReqFast] \in OtherErrors, "subscribe_test")

test_subscribe ==
    \/ /\ tpc = "subscribe_test" /\ tell_one(OpTempEmpty, TempDist)
       /\ Check(result'[OpTempEmpty] = "Unreachable", "request_child")
       /\ UNCHANGED oneChild
    \/ tpc = "request_child" /\ Call(request(OpSubReq, SubDist, Main), "await_child")
    \/ /\ tpc = "await_child" /\ Receive(OpSubReq)
       /\ Check(result[OpSubReq] = "Ok", "subscribe")
       /\ oneChild' = CHOOSE a \in delivered[OpSubReq] : TRUE
    \/ /\ tpc = "subscribe" /\ subscribe(TempDist, oneChild)
       /\ tpc' = "tell_subscribed" /\ UNCHANGED oneChild
    \/ /\ tpc = "tell_subscribed" /\ tell_one(OpTempSub, TempDist)
       /\ Check(result'[OpTempSub] # "Unreachable", "unsubscribe")
       /\ UNCHANGED oneChild
    \/ /\ tpc = "unsubscribe" /\ unsubscribe(TempDist, oneChild)
       /\ tpc' = "tell_unsubscribed" /\ UNCHANGED oneChild
    \/ /\ tpc = "tell_unsubscribed" /\ tell_one(OpTempUnsub, TempDist)
       /\ Check(result'[OpTempUnsub] = "Unreachable", "finished")
       /\ UNCHANGED oneChild

\* The test thread: setup, then the four tests in this order (tpc).
run_tests == test_tell \/ test_ask \/ test_request \/ test_subscribe

(* The spawned tasks.  Under DelayOrder the 100 ms Delay loses to the      *)
(* reply and the 1 ns Delay wins over it.                                  *)
TimedTask(o) ==
    \/ TaskAsk(o) \/ AwaitReply(o) \/ AwaitReplySync(o)
    \/ SelectReply(o) /\ ~(DelayOrder /\ o = OpReqFast)
    \/ TimerElapsed(o) /\ ~(DelayOrder /\ o = OpReqSlow)

TestNext ==
    \/ run_tests
    \/ \E a \in Actors : Respond(a) /\ UNCHANGED <<tpc, oneChild>>
    \/ \E o \in Ops : TimedTask(o) /\ UNCHANGED <<tpc, oneChild>>

(* The test thread, every child's exec loop and every spawned task run     *)
(* whenever they can.                                                      *)
TestFairness ==
    /\ WF_tvars(run_tests)
    /\ \A a \in Actors : WF_tvars(Respond(a) /\ UNCHANGED <<tpc, oneChild>>)
    /\ \A o \in Ops : WF_tvars(TimedTask(o) /\ UNCHANGED <<tpc, oneChild>>)

TestSpec == TestInit /\ [][TestNext]_tvars /\ TestFairness

(* run_tests passes: the test thread reaches the end of test_subscribe,    *)
(* so no unwrap, expect or assert in test_tell, test_ask, test_request or  *)
(* test_subscribe fails and no await of the test waits forever.            *)
TestsPass == <>(tpc = "finished")

=============================================================================
