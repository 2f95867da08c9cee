------------------------------- MODULE MCDisk -------------------------------
(***************************************************************************)
(* Disk on a small image. Two blocks and four writes per transaction make  *)
(* a block written twice, interleaved with the other one, which is what    *)
(* the order of the undo log is about.                                     *)
(***************************************************************************)
EXTENDS Disk
=============================================================================
