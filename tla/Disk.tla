-------------------------------- MODULE Disk --------------------------------
(***************************************************************************)
(* The block device of Disk.cpp: an image file read and written one block  *)
(* at a time, and transactions implemented by an undo log that lives in    *)
(* the memory of the process.                                              *)
(*                                                                         *)
(* rollback() is not one step: it walks the undo log and rewrites the      *)
(* image block by block, so the process can die in the middle of it.       *)
(***************************************************************************)
EXTENDS Integers, Sequences

CONSTANTS
  NumBlocks,  \* Disk::numberOfBlocks()
  Data,       \* what a block can hold
  MaxLog      \* bound on the undo log: writes per transaction

ASSUME DiskAssumption ==
  /\ NumBlocks \in Nat \ {0}
  /\ Data # {}
  /\ MaxLog \in Nat

Block == 0 .. NumBlocks - 1

\* Block numbers callers pass: the valid ones and one just outside each end.
Requested == -1 .. NumBlocks

VARIABLES
  image,            \* the image file
  isInTransaction,
  undoLog,          \* newest record first (push_front)
  iter,             \* position of rollback() in undoLog, 0 when it is not running
  alive,            \* the process is running
  atBegin           \* history: the image when the last transaction began

vars == <<image, isInTransaction, undoLog, iter, alive, atBegin>>

UndoRecord == [blockNumber : Block, blockData : Data]

TypeOK ==
  /\ image \in [Block -> Data]
  /\ isInTransaction \in BOOLEAN
  /\ undoLog \in Seq(UndoRecord)
  /\ iter \in Nat
  /\ alive \in BOOLEAN
  /\ atBegin \in [Block -> Data]

\* Disk::Disk on an image whose size is a multiple of the block size.
Init ==
  /\ image \in [Block -> Data]
  /\ isInTransaction = FALSE
  /\ undoLog = <<>>
  /\ iter = 0
  /\ alive = TRUE
  /\ atBegin = image
-----------------------------------------------------------------------------
(* The operations.                                                         *)

\* The caller has control: the process runs and is not inside rollback().
Ready == alive /\ iter = 0

\* Mutant: the record is added at the end (push_back).
DoWritePushBack(b, d) ==
  /\ undoLog' = IF isInTransaction
                THEN undoLog \o <<[blockNumber |-> b, blockData |-> image[b]]>>
                ELSE undoLog
  /\ image' = [image EXCEPT ![b] = d]

\* The part of writeBlock that changes state: save the old content first if
\* a transaction is open, then write the block.
DoWrite(b, d) ==
  /\ undoLog' = IF isInTransaction
                THEN <<[blockNumber |-> b, blockData |-> image[b]]>> \o undoLog
                ELSE undoLog
  /\ image' = [image EXCEPT ![b] = d]

WriteBlock(b, d) ==
  /\ Ready
  /\ b \in Block
  /\ isInTransaction => Len(undoLog) < MaxLog
  /\ DoWrite(b, d)
  /\ UNCHANGED <<isInTransaction, iter, alive, atBegin>>

BeginTransaction ==
  /\ Ready
  /\ ~isInTransaction
  /\ isInTransaction' = TRUE
  /\ atBegin' = image
  /\ UNCHANGED <<image, undoLog, iter, alive>>

\* Mutant: commit() leaves the records in the log.
CommitKeepsLog ==
  /\ Ready
  /\ isInTransaction' = FALSE
  /\ UNCHANGED <<image, undoLog, iter, alive, atBegin>>

\* commit() has no guard: without a transaction it clears an empty log.
Commit ==
  /\ Ready
  /\ isInTransaction' = FALSE
  /\ undoLog' = <<>>
  /\ UNCHANGED <<image, iter, alive, atBegin>>

\* Mutant: the walk starts after the newest record.
RollbackSkipsFirst ==
  /\ Ready
  /\ isInTransaction' = FALSE
  /\ iter' = 2
  /\ atBegin' = IF isInTransaction THEN atBegin ELSE image
  /\ UNCHANGED <<image, undoLog, alive>>

\* rollback(): leave the transaction first, so that its own writes are not
\* logged; then one iteration per record; then clear the log. It has no guard
\* either: without a transaction it walks an empty log.
Rollback ==
  /\ Ready
  /\ isInTransaction' = FALSE
  /\ iter' = 1
  /\ atBegin' = IF isInTransaction THEN atBegin ELSE image
  /\ UNCHANGED <<image, undoLog, alive>>

UndoOne ==
  /\ alive
  /\ iter \in 1 .. Len(undoLog)
  /\ DoWrite(undoLog[iter].blockNumber, undoLog[iter].blockData)
  /\ iter' = iter + 1
  /\ UNCHANGED <<isInTransaction, alive, atBegin>>

EndRollback ==
  /\ alive
  /\ iter > Len(undoLog)
  /\ undoLog' = <<>>
  /\ iter' = 0
  /\ UNCHANGED <<image, isInTransaction, alive, atBegin>>
-----------------------------------------------------------------------------
(* The ways the process stops. The undo log and isInTransaction are lost   *)
(* with the process; the image stays as it is at that moment.              *)

Exit ==
  /\ alive
  /\ alive' = FALSE
  /\ UNCHANGED <<image, isInTransaction, undoLog, iter, atBegin>>

\* readBlock and writeBlock call exit(1) on a block number out of range.
ExitInvalidBlock(b) ==
  /\ Ready
  /\ b \notin Block
  /\ Exit

\* beginTransaction calls exit(1) when a transaction is already open.
ExitNestedTransaction ==
  /\ Ready
  /\ isInTransaction
  /\ Exit

\* The process is killed, or open, lseek or read fails and the call exits: at
\* any point, between two block writes of rollback() too.
Crash == Exit

\* write() stores only a part of the block and the call exits: the block holds
\* neither the old nor the new content. The undo record was made before.
ShortWrite(d) ==
  /\ alive
  /\ alive' = FALSE
  /\ \/ /\ iter = 0
        /\ isInTransaction => Len(undoLog) < MaxLog
        /\ \E b \in Block : DoWrite(b, d)
     \/ /\ iter \in 1 .. Len(undoLog)
        /\ DoWrite(undoLog[iter].blockNumber, d)
  /\ UNCHANGED <<isInTransaction, iter, atBegin>>

\* A new process opens the image: Disk::Disk with a fresh undo log.
Restart ==
  /\ ~alive
  /\ alive' = TRUE
  /\ isInTransaction' = FALSE
  /\ undoLog' = <<>>
  /\ iter' = 0
  /\ UNCHANGED <<image, atBegin>>
-----------------------------------------------------------------------------
Operation ==
  \/ \E b \in Requested, d \in Data : WriteBlock(b, d)
  \/ BeginTransaction
  \/ Commit
  \/ Rollback
  \/ UndoOne
  \/ EndRollback

Failure ==
  \/ \E b \in Requested : ExitInvalidBlock(b)
  \/ ExitNestedTransaction
  \/ Crash
  \/ \E d \in Data : ShortWrite(d)

Next == Operation \/ Failure \/ Restart

\* Processes stop and are started again.
Spec == Init /\ [][Next]_vars
-----------------------------------------------------------------------------
(* Properties.                                                             *)

\* The records rollback() has still to apply (all of them before it starts).
Pending == {i \in 1 .. Len(undoLog) : i >= iter}

InFlight == isInTransaction \/ iter > 0

\* The undo log can always repair the image: while a transaction is open or
\* being rolled back, a block without a pending record still has the content
\* it had at beginTransaction(), and the oldest pending record of any other
\* block holds that content. The order of the records (push_front) and of
\* the walk (begin to end) must agree for this.
UndoRepairs ==
  InFlight =>
    \A b \in Block :
      /\ (\A i \in Pending : undoLog[i].blockNumber # b) => image[b] = atBegin[b]
      /\ \A i \in Pending :
           /\ undoLog[i].blockNumber = b
           /\ \A j \in Pending : j > i => undoLog[j].blockNumber # b
           => undoLog[i].blockData = atBegin[b]

\* No record survives its transaction: outside transactions the log is empty,
\* so a later rollback() cannot undo what an earlier transaction committed.
NoStaleUndo == ~InFlight => undoLog = <<>>

\* When the walk of rollback() has reached the end of the log, the image is
\* the one beginTransaction() saw.
RollbackRestores == iter > Len(undoLog) => image = atBegin

\* The promise as a specification: a transaction is a private copy. Abort
\* happens when rollback() starts; the walk itself is invisible, which is
\* true only because it ends in the image that was saved.
Promise ==
  INSTANCE AtomicDisk WITH
    stable  <- IF InFlight THEN atBegin ELSE image,
    working <- IF iter > 0 THEN atBegin ELSE image,
    open    <- isInTransaction

\* As long as a process lives its calls are steps of AtomicDisk, the write that
\* stores a part of a block too; a new process begins with an AtomicDisk of
\* its own on what the image then holds.
ImplementsAtomicDisk ==
  /\ Promise!Init
  /\ [][Promise!Next \/ (~alive /\ Promise!Init')]_(Promise!avars)
=============================================================================
