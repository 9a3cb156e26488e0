--------------------------- MODULE MCRollupStore ---------------------------
(***************************************************************************)
(* Instances of RollupStore for TLC. A minute is two ticks, the exact      *)
(* window and the grace period are equal, as in the code.                  *)
(***************************************************************************)
EXTENDS RollupStore

MCWidth      == <<4, 8>>
MCNarrow     == <<4>>
MCStamps     == {0, 1, 2, 5}
MCFewStamps  == {0, 1, 2}
MCNoCutoffs  == {}
MCFarFuture  == {MaxTime + Minute}
MCOneCutoff  == {3}
=============================================================================
