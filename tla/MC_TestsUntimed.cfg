CONSTANTS
    c1 = c1
    c2 = c2
    c3 = c3
    sc = sc
    Main = Main
    TestDist = TestDist
    SubDist = SubDist
    TempDist = TempDist
    SubChild = sc
    DelayOrder = FALSE
    TestChildren <- MCTestChildren
    Names <- MCTestNames
    Actors <- MCTestActors
    Ops <- MCTestOps
    Owners <- MCTestOwners
    Replies <- MCTestReplies
SPECIFICATION TestSpec
PROPERTIES
    TestsPass
\* run_tests returns when the test thread is done: nothing is left to do.
CHECK_DEADLOCK FALSE
