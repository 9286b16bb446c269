---------------------------- MODULE MC_Distributor ----------------------------
(* Small instances of Distributor for TLC.                                 *)
EXTENDS CorrelatorRefinement, TLC

CONSTANTS n1, a1, a2, o1, o2

MCNames  == {n1}
MCActors == {a1, a2}
MCOps    == {o1, o2}
\* Requests come from a plain thread only.
MCOwnersMain == {Main}
\* Requests may also come from a subscribed child's own loop.
MCOwnersActor == {a1, Main}
MCReplies == {"ok", "wrong", "dropped"}

Symmetry == Permutations(MCActors) \cup Permutations(MCOps)
=============================================================================
