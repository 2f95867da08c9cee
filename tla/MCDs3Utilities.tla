--------------------------- MODULE MCDs3Utilities ---------------------------
(***************************************************************************)
(* The utilities on an image with room for two levels of directories.      *)
(***************************************************************************)
EXTENDS Ds3Utilities, TLC

MCGarbage == {[x \in Index |-> Unset]}

Symmetry == Permutations(Names) \cup Permutations(Values)
=============================================================================
