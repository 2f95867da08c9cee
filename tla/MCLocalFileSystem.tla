------------------------- MODULE MCLocalFileSystem --------------------------
(***************************************************************************)
(* LocalFileSystem on an image small enough to fill up in a few calls:     *)
(* inodes, data blocks and the entries of a directory can each run out.    *)
(***************************************************************************)
EXTENDS LocalFileSystem, TLC

\* What the stack held when mkfs ran: zeros, or numbers outside the disk.
MCGarbage == {[x \in Index |-> NullPtr], [x \in Index |-> Unset]}

Symmetry == Permutations(Names) \cup Permutations(Values)
=============================================================================
