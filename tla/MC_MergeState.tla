--------------------------- MODULE MC_MergeState ---------------------------
(* MergeState instantiated for TLC: two feature paths, two blob values, a *)
(* branch forked from the root and a branch ahead of HEAD.  The initial   *)
(* commits change the first path in any way and the second path at most  *)
(* to another value, which keeps every kind of conflict on the first path *)
(* and a clean change beside it.                                          *)
EXTENDS MergeState

MC_Keys == {"k1", "k2"}
MC_Values == {"v1", "v2"}
MC_BaseTree == [k \in MC_Keys |-> "v1"]
MC_InitTrees == {t \in [MC_Keys -> MC_Values \cup {Absent}] : t["k2"] # Absent}

=============================================================================
