----------------------------- MODULE AtomicDisk -----------------------------
(***************************************************************************)
(* What Disk.h promises of a transaction, without saying how: the code     *)
(* between beginTransaction() and commit() works on a copy of the disk     *)
(* that commit() installs as a whole and rollback() discards as a whole.   *)
(* A write outside a transaction takes effect at once.                     *)
(***************************************************************************)
EXTENDS Integers

CONSTANTS NumBlocks, Data

Block == 0 .. NumBlocks - 1

VARIABLES
  stable,   \* the disk as of the last point at which no transaction was open
  working,  \* the disk that readers and writers see
  open      \* whether a transaction is open

avars == <<stable, working, open>>

Init ==
  /\ stable \in [Block -> Data]
  /\ working = stable
  /\ open = FALSE

Begin ==
  /\ ~open
  /\ open' = TRUE
  /\ UNCHANGED <<stable, working>>

Write(b, d) ==
  /\ working' = [working EXCEPT ![b] = d]
  /\ stable' = IF open THEN stable ELSE working'
  /\ UNCHANGED open

Commit ==
  /\ open
  /\ stable' = working
  /\ open' = FALSE
  /\ UNCHANGED working

Abort ==
  /\ open
  /\ working' = stable
  /\ open' = FALSE
  /\ UNCHANGED stable

Next ==
  \/ Begin
  \/ \E b \in Block, d \in Data : Write(b, d)
  \/ Commit
  \/ Abort

Spec == Init /\ [][Next]_avars
=============================================================================
