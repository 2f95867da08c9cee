----------------------- MODULE MCLocalFileSystemSteps ------------------------
(***************************************************************************)
(* The image of MCLocalFileSystem, block by block. The data bitmap has a   *)
(* bit more than there are blocks, the inode bitmap has none.              *)
(***************************************************************************)
EXTENDS LocalFileSystemSteps, TLC

MCGarbage == {[x \in 0 .. DIRECT_PTRS - 1 |-> -1]}

Symmetry == Permutations(Names)
=============================================================================
