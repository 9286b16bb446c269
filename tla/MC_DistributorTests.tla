------------------------- MODULE MC_DistributorTests -------------------------
(* distributor_tests for TLC, with three children in the test group       *)
(* instead of setup()'s five (five take over three minutes): every call   *)
(* still has a choice of recipient and ask_everyone fans out to several.  *)
EXTENDS DistributorTests, TLC

CONSTANTS c1, c2, c3, sc

MCTestChildren == {c1, c2, c3}
MCTestNames == {TestDist, SubDist, TempDist}
MCTestActors == {c1, c2, c3, sc}
MCTestOps == 1..12
MCTestOwners == {Main}
MCTestReplies == {"ok"}
=============================================================================
