----------------------------- MODULE DiskProofs -----------------------------
(***************************************************************************)
(* Proofs about Disk, for every number of blocks, every set of contents    *)
(* and every bound on the undo log.                                        *)
(*                                                                         *)
(* UndoRepairs is nearly inductive by itself. It needs NoStaleUndo, so     *)
(* that a transaction starts from an empty log, and WalkIsOutside, so that *)
(* the writes of rollback() are not logged while it walks the log.         *)
(***************************************************************************)
EXTENDS Disk, TLAPS

WalkIsOutside == iter > 0 => ~isInTransaction

IInv ==
  /\ TypeOK
  /\ NoStaleUndo
  /\ WalkIsOutside
  /\ UndoRepairs
-----------------------------------------------------------------------------
\* push_front: the new record comes first, the others move up by one.
LEMMA PushFront ==
  ASSUME NEW S, NEW r \in S, NEW s \in Seq(S)
  PROVE  /\ <<r>> \o s \in Seq(S)
         /\ Len(<<r>> \o s) = Len(s) + 1
         /\ (<<r>> \o s)[1] = r
         /\ \A i \in 2 .. Len(s) + 1 : (<<r>> \o s)[i] = s[i - 1]
  OBVIOUS

LEMMA EmptyLog == <<>> \in Seq(UndoRecord)
  OBVIOUS

\* A write inside a transaction keeps the log able to repair the image.
LEMMA LoggedWriteRepairs ==
  ASSUME IInv, NEW b \in Block, NEW d \in Data,
         isInTransaction, DoWrite(b, d),
         UNCHANGED <<isInTransaction, iter, atBegin>>
  PROVE  UndoRepairs'
<1> DEFINE r == [blockNumber |-> b, blockData |-> image[b]]
<1>1. /\ r \in UndoRecord
      /\ undoLog \in Seq(UndoRecord)
      /\ iter = 0
  BY DEF IInv, TypeOK, UndoRecord, WalkIsOutside
<1>2. undoLog' = <<r>> \o undoLog /\ image' = [image EXCEPT ![b] = d]
  BY DEF DoWrite
<1>3. /\ Len(undoLog') = Len(undoLog) + 1
      /\ undoLog'[1] = r
      /\ \A i \in 2 .. Len(undoLog) + 1 : undoLog'[i] = undoLog[i - 1]
  <2> HIDE DEF r
  <2> QED BY <1>1, <1>2, PushFront
<1>4. /\ Len(undoLog) \in Nat
      /\ Pending = 1 .. Len(undoLog)
      /\ Pending' = 1 .. Len(undoLog) + 1
  BY <1>1, <1>3 DEF Pending
<1>5. SUFFICES ASSUME NEW c \in Block
      PROVE  /\ (\A i \in Pending' : undoLog'[i].blockNumber # c)
                   => image'[c] = atBegin[c]
             /\ \A i \in Pending' :
                  /\ undoLog'[i].blockNumber = c
                  /\ \A j \in Pending' : j > i => undoLog'[j].blockNumber # c
                  => undoLog'[i].blockData = atBegin[c]
  BY DEF UndoRepairs, InFlight
<1>6. /\ (\A i \in Pending : undoLog[i].blockNumber # c) => image[c] = atBegin[c]
      /\ \A i \in Pending :
           /\ undoLog[i].blockNumber = c
           /\ \A j \in Pending : j > i => undoLog[j].blockNumber # c
           => undoLog[i].blockData = atBegin[c]
  BY DEF IInv, UndoRepairs, InFlight
\* What no new record names, no old record names.
<1>7. ASSUME \A j \in Pending' : j > 1 => undoLog'[j].blockNumber # c
      PROVE  image[c] = atBegin[c]
  <2>1. ASSUME NEW i \in Pending PROVE undoLog[i].blockNumber # c
    <3>1. i + 1 \in Pending' /\ i + 1 > 1 /\ undoLog'[i + 1] = undoLog[i]
      BY <1>3, <1>4
    <3> QED BY <3>1, <1>7
  <2> QED BY <2>1, <1>6
<1>8. ASSUME \A i \in Pending' : undoLog'[i].blockNumber # c
      PROVE  image'[c] = atBegin[c]
  <2>1. c # b
    BY <1>8, <1>3, <1>4
  <2>2. image'[c] = image[c]
    BY <2>1, <1>2 DEF IInv, TypeOK
  <2> QED BY <2>2, <1>7, <1>8
<1>9. ASSUME NEW i \in Pending',
             undoLog'[i].blockNumber = c,
             \A j \in Pending' : j > i => undoLog'[j].blockNumber # c
      PROVE  undoLog'[i].blockData = atBegin[c]
  <2>1. CASE i = 1
    <3>1. c = b /\ undoLog'[i].blockData = image[b]
      BY <2>1, <1>3, <1>9
    <3> QED BY <3>1, <2>1, <1>7, <1>9
  <2>2. CASE i # 1
    <3>1. i - 1 \in Pending /\ undoLog'[i] = undoLog[i - 1]
      BY <2>2, <1>3, <1>4
    <3>2. ASSUME NEW j \in Pending, j > i - 1
          PROVE  undoLog[j].blockNumber # c
      <4>1. j + 1 \in Pending' /\ j + 1 > i /\ undoLog'[j + 1] = undoLog[j]
        BY <3>2, <1>3, <1>4
      <4> QED BY <4>1, <1>9
    <3> QED BY <3>1, <3>2, <1>6, <1>9
  <2> QED BY <2>1, <2>2
<1> QED BY <1>8, <1>9

\* One iteration of rollback(): the record it applies is either superseded by
\* an older pending one or puts back the content at beginTransaction().
LEMMA UndoOneRepairs ==
  ASSUME IInv, UndoOne
  PROVE  UndoRepairs'
<1> DEFINE b == undoLog[iter].blockNumber
           d == undoLog[iter].blockData
<1>1. /\ undoLog \in Seq(UndoRecord)
      /\ image \in [Block -> Data]
      /\ iter \in 1 .. Len(undoLog)
      /\ ~isInTransaction
      /\ Len(undoLog) \in Nat
  BY DEF IInv, TypeOK, UndoOne, WalkIsOutside
<1>2. /\ undoLog' = undoLog
      /\ image' = [image EXCEPT ![b] = d]
      /\ iter' = iter + 1
      /\ atBegin' = atBegin
  BY <1>1 DEF UndoOne, DoWrite
<1>3. iter \in Pending /\ Pending' = {i \in Pending : i > iter}
  BY <1>1, <1>2 DEF Pending
<1>4. SUFFICES ASSUME NEW c \in Block
      PROVE  /\ (\A i \in Pending' : undoLog[i].blockNumber # c)
                   => image'[c] = atBegin[c]
             /\ \A i \in Pending' :
                  /\ undoLog[i].blockNumber = c
                  /\ \A j \in Pending' : j > i => undoLog[j].blockNumber # c
                  => undoLog[i].blockData = atBegin[c]
  BY <1>2 DEF UndoRepairs, InFlight
<1>5. /\ (\A i \in Pending : undoLog[i].blockNumber # c) => image[c] = atBegin[c]
      /\ \A i \in Pending :
           /\ undoLog[i].blockNumber = c
           /\ \A j \in Pending : j > i => undoLog[j].blockNumber # c
           => undoLog[i].blockData = atBegin[c]
  BY <1>1 DEF IInv, UndoRepairs, InFlight
<1>6. Pending \subseteq Int
  BY <1>1 DEF Pending
<1>7. ASSUME \A i \in Pending' : undoLog[i].blockNumber # c
      PROVE  image'[c] = atBegin[c]
  <2>1. CASE b = c
    <3>1. d = atBegin[c]
      BY <2>1, <1>3, <1>5, <1>7
    <3> QED BY <3>1, <2>1, <1>1, <1>2
  <2>2. CASE b # c
    <3>1. ASSUME NEW i \in Pending PROVE undoLog[i].blockNumber # c
      <4>1. i = iter \/ i > iter
        BY <1>1 DEF Pending
      <4> QED BY <4>1, <2>2, <1>3, <1>7
    <3>2. image'[c] = image[c]
      BY <2>2, <1>1, <1>2
    <3> QED BY <3>1, <3>2, <1>5
  <2> QED BY <2>1, <2>2
<1>8. ASSUME NEW i \in Pending',
             undoLog[i].blockNumber = c,
             \A j \in Pending' : j > i => undoLog[j].blockNumber # c
      PROVE  undoLog[i].blockData = atBegin[c]
  <2>1. i \in Pending /\ i > iter
    BY <1>3
  <2>2. ASSUME NEW j \in Pending, j > i PROVE undoLog[j].blockNumber # c
    <3>1. j > iter
      BY <2>1, <2>2, <1>1, <1>6
    <3> QED BY <3>1, <2>2, <1>3, <1>8
  <2> QED BY <2>1, <2>2, <1>5, <1>8
<1> QED BY <1>7, <1>8

\* A block that is written only in part has a record that is still pending:
\* the one just pushed, or the one rollback() was applying.
LEMMA ShortWriteRepairs ==
  ASSUME IInv, NEW d \in Data, ShortWrite(d)
  PROVE  UndoRepairs'
<1> USE DEF ShortWrite
<1>1. CASE iter = 0 /\ isInTransaction
  <2>1. PICK b \in Block : DoWrite(b, d)
    BY <1>1
  <2> QED BY <1>1, <2>1, LoggedWriteRepairs
<1>2. CASE iter = 0 /\ ~isInTransaction
  BY <1>2 DEF UndoRepairs, InFlight
<1>3. CASE iter \in 1 .. Len(undoLog)
  <2> DEFINE b == undoLog[iter].blockNumber
  <2>1. /\ undoLog \in Seq(UndoRecord)
        /\ image \in [Block -> Data]
        /\ ~isInTransaction
        /\ Len(undoLog) \in Nat
    BY <1>3 DEF IInv, TypeOK, WalkIsOutside
  <2>2. /\ undoLog' = undoLog
        /\ image' = [image EXCEPT ![b] = d]
        /\ Pending' = Pending
        /\ atBegin' = atBegin
        /\ iter \in Pending
    BY <1>3, <2>1 DEF DoWrite, Pending
  <2>3. ASSUME NEW c \in Block, \A i \in Pending : undoLog[i].blockNumber # c
        PROVE  image'[c] = atBegin[c]
    <3>1. c # b /\ image'[c] = image[c]
      BY <2>1, <2>2, <2>3
    <3> QED BY <1>3, <2>1, <2>3, <3>1 DEF IInv, UndoRepairs, InFlight
  <2> QED BY <1>3, <2>1, <2>2, <2>3 DEF IInv, UndoRepairs, InFlight
<1> QED BY <1>1, <1>2, <1>3 DEF IInv, TypeOK
-----------------------------------------------------------------------------
\* The device starts in a state where the log is empty.
LEMMA InitEstablishes == ASSUME Init PROVE IInv
<1>1. ~InFlight
  BY DEF Init, InFlight
<1>2. TypeOK
  BY EmptyLog DEF Init, TypeOK
<1> QED BY <1>1, <1>2 DEF Init, IInv, NoStaleUndo, WalkIsOutside, UndoRepairs

\* Both ways to write a block, logged and not logged, keep the types.
LEMMA WriteKeepsTypes ==
  ASSUME IInv, NEW b \in Block, NEW d \in Data, DoWrite(b, d)
  PROVE  /\ image' \in [Block -> Data]
         /\ undoLog' \in Seq(UndoRecord)
         /\ ~isInTransaction => undoLog' = undoLog
<1>1. [blockNumber |-> b, blockData |-> image[b]] \in UndoRecord
  BY DEF UndoRecord, IInv, TypeOK
<1>2. undoLog' \in Seq(UndoRecord)
  BY <1>1, PushFront DEF DoWrite, IInv, TypeOK
<1> QED BY <1>2 DEF DoWrite, IInv, TypeOK

\* Every call, every exit and a restart keep the parts of the invariant that
\* do not compare the log with the image.
LEMMA StepKeepsShape ==
  ASSUME IInv, [Next]_vars
  PROVE  (TypeOK /\ NoStaleUndo /\ WalkIsOutside)'
<1> USE DEF IInv, TypeOK, NoStaleUndo, WalkIsOutside, InFlight
<1>1. CASE UNCHANGED vars
  BY <1>1 DEF vars
<1>2. ASSUME NEW b \in Requested, NEW d \in Data, WriteBlock(b, d)
      PROVE  (TypeOK /\ NoStaleUndo /\ WalkIsOutside)'
  <2>1. /\ image' \in [Block -> Data]
        /\ undoLog' \in Seq(UndoRecord)
        /\ ~isInTransaction => undoLog' = undoLog
    BY <1>2, WriteKeepsTypes DEF WriteBlock
  <2> QED BY <1>2, <2>1 DEF WriteBlock, Ready
<1>3. CASE BeginTransaction BY <1>3 DEF BeginTransaction, Ready
<1>4. CASE Commit BY <1>4, EmptyLog DEF Commit, Ready
<1>5. CASE Rollback
  <2>1. iter' = 1 /\ isInTransaction' = FALSE
    BY <1>5 DEF Rollback
  <2>2. atBegin' \in [Block -> Data] /\ UNCHANGED <<image, undoLog, alive>>
    BY <1>5 DEF Rollback
  <2>3. TypeOK'
    BY <2>1, <2>2
  <2>4. InFlight' /\ ~isInTransaction'
    BY <2>1
  <2> QED BY <2>3, <2>4
<1>6. CASE UndoOne
  <2>1. undoLog[iter] \in UndoRecord /\ ~isInTransaction
    BY <1>6 DEF UndoOne
  <2>2. image' \in [Block -> Data] /\ undoLog' = undoLog
    BY <1>6, <2>1, WriteKeepsTypes DEF UndoOne, UndoRecord
  <2> QED BY <1>6, <2>2 DEF UndoOne
<1>7. CASE EndRollback BY <1>7, EmptyLog DEF EndRollback
<1>8. CASE Failure
  <2>1. CASE (\E b \in Requested : ExitInvalidBlock(b)) \/ ExitNestedTransaction \/ Crash
    <3>1. /\ alive' = FALSE
          /\ UNCHANGED <<image, isInTransaction, undoLog, iter, atBegin>>
      BY <2>1 DEF ExitInvalidBlock, ExitNestedTransaction, Crash, Exit
    <3> QED BY <3>1
  <2>2. ASSUME NEW d \in Data, ShortWrite(d)
        PROVE  (TypeOK /\ NoStaleUndo /\ WalkIsOutside)'
    <3>1. PICK b \in Block : DoWrite(b, d)
      <4>1. CASE iter = 0
        BY <2>2, <4>1 DEF ShortWrite
      <4>2. CASE iter \in 1 .. Len(undoLog)
        <5>1. undoLog[iter] \in UndoRecord
          BY <4>2
        <5>2. undoLog[iter].blockNumber \in Block
          BY <5>1 DEF UndoRecord
        <5> QED BY <2>2, <4>2, <5>2 DEF ShortWrite
      <4> QED BY <2>2, <4>1, <4>2 DEF ShortWrite
    <3>2. /\ image' \in [Block -> Data]
          /\ undoLog' \in Seq(UndoRecord)
          /\ ~isInTransaction => undoLog' = undoLog
      BY <3>1, WriteKeepsTypes
    <3> QED BY <2>2, <3>2 DEF ShortWrite
  <2> QED BY <1>8, <2>1, <2>2 DEF Failure
<1>9. CASE Restart BY <1>9, EmptyLog DEF Restart
<1> QED BY <1>1, <1>2, <1>3, <1>4, <1>5, <1>6, <1>7, <1>8, <1>9 DEF Next, Operation

\* Every step keeps the log able to repair the image.
LEMMA StepKeepsRepair ==
  ASSUME IInv, [Next]_vars
  PROVE  UndoRepairs'
<1>1. CASE UNCHANGED vars
  BY <1>1 DEF vars, IInv, UndoRepairs, InFlight, Pending
<1>2. ASSUME NEW b \in Requested, NEW d \in Data, WriteBlock(b, d)
      PROVE  UndoRepairs'
  <2>1. CASE isInTransaction
    BY <1>2, <2>1, LoggedWriteRepairs DEF WriteBlock
  <2>2. CASE ~isInTransaction
    BY <1>2, <2>2 DEF WriteBlock, Ready, UndoRepairs, InFlight
  <2> QED BY <2>1, <2>2
<1>3. CASE BeginTransaction
  <2>1. undoLog' = <<>> /\ image' = atBegin'
    BY <1>3 DEF BeginTransaction, Ready, IInv, NoStaleUndo, InFlight
  <2>2. Pending' = {}
    BY <2>1 DEF Pending
  <2> QED BY <2>1, <2>2 DEF UndoRepairs
<1>4. CASE Commit
  BY <1>4 DEF Commit, Ready, UndoRepairs, InFlight
<1>5. CASE Rollback
  <2>1. CASE isInTransaction
    <3>1. Pending' = Pending
      BY <1>5 DEF Rollback, Ready, Pending, IInv, TypeOK
    <3> QED BY <1>5, <2>1, <3>1 DEF Rollback, IInv, UndoRepairs, InFlight
  <2>2. CASE ~isInTransaction
    <3>1. undoLog' = <<>> /\ image' = atBegin'
      BY <1>5, <2>2 DEF Rollback, Ready, IInv, NoStaleUndo, InFlight
    <3>2. Pending' = {}
      BY <3>1 DEF Pending
    <3> QED BY <3>1, <3>2 DEF UndoRepairs
  <2> QED BY <2>1, <2>2
<1>6. CASE UndoOne BY <1>6, UndoOneRepairs
<1>7. CASE EndRollback
  <2>1. ~InFlight'
    BY <1>7 DEF EndRollback, InFlight, IInv, TypeOK, WalkIsOutside
  <2> QED BY <2>1 DEF UndoRepairs
<1>8. CASE Failure
  <2>1. CASE (\E b \in Requested : ExitInvalidBlock(b)) \/ ExitNestedTransaction \/ Crash
    BY <2>1 DEF ExitInvalidBlock, ExitNestedTransaction, Crash, Exit,
                IInv, UndoRepairs, InFlight, Pending
  <2>2. ASSUME NEW d \in Data, ShortWrite(d)
        PROVE  UndoRepairs'
    BY <2>2, ShortWriteRepairs
  <2> QED BY <1>8, <2>1, <2>2 DEF Failure
<1>9. CASE Restart
  BY <1>9 DEF Restart, UndoRepairs, InFlight
<1> QED BY <1>1, <1>2, <1>3, <1>4, <1>5, <1>6, <1>7, <1>8, <1>9 DEF Next, Operation

\* The inductive invariant holds in every behaviour, crashes included.
LEMMA Inductive == Spec => []IInv
<1>1. IInv /\ [Next]_vars => IInv'
  BY StepKeepsShape, StepKeepsRepair DEF IInv
<1> QED BY InitEstablishes, <1>1, PTL DEF Spec
-----------------------------------------------------------------------------
\* Every variable of Disk keeps its type, whatever stops the process.
THEOREM TypeCorrect == Spec => []TypeOK
<1>1. IInv => TypeOK BY DEF IInv
<1> QED BY Inductive, <1>1, PTL

\* Between beginTransaction() and the end of rollback() the undo log always
\* holds what is needed to put the image back, for any number of writes to
\* any blocks in any order.
THEOREM LogRepairs == Spec => []UndoRepairs
<1>1. IInv => UndoRepairs BY DEF IInv
<1> QED BY Inductive, <1>1, PTL

\* No undo record outlives its transaction.
THEOREM LogIsFresh == Spec => []NoStaleUndo
<1>1. IInv => NoStaleUndo BY DEF IInv
<1> QED BY Inductive, <1>1, PTL

\* When the walk of rollback() is over, every block is what it was at
\* beginTransaction().
LEMMA WalkEndsAtBegin == ASSUME IInv PROVE RollbackRestores
<1>1. SUFFICES ASSUME iter > Len(undoLog) PROVE image = atBegin
  BY DEF RollbackRestores
<1>2. InFlight /\ Pending = {}
  BY <1>1 DEF IInv, TypeOK, InFlight, Pending
<1>3. \A b \in Block : image[b] = atBegin[b]
  BY <1>2 DEF IInv, UndoRepairs
<1> QED BY <1>3 DEF IInv, TypeOK

THEOREM RollbackIsExact == Spec => []RollbackRestores
  BY Inductive, WalkEndsAtBegin, PTL
-----------------------------------------------------------------------------
\* Each call of Disk is the step of AtomicDisk of the same name, and each
\* iteration of rollback() is a stutter.
LEMMA OperationRefines ==
  ASSUME IInv, [Operation]_vars
  PROVE  [Promise!Next]_(Promise!avars)
<1> USE DEF Promise!avars, InFlight
<1>1. CASE UNCHANGED vars
  BY <1>1 DEF vars
<1>2. ASSUME NEW b \in Requested, NEW d \in Data, WriteBlock(b, d)
      PROVE  Promise!Next
  <2>1. b \in Promise!Block
    BY <1>2 DEF WriteBlock, Block, Promise!Block
  <2>2. Promise!Write(b, d)
    BY <1>2 DEF WriteBlock, Ready, DoWrite, Promise!Write
  <2> QED BY <2>1, <2>2 DEF Promise!Next
<1>3. CASE BeginTransaction
  <2>1. Promise!Begin
    BY <1>3 DEF BeginTransaction, Ready, Promise!Begin
  <2> QED BY <2>1 DEF Promise!Next
<1>4. CASE Commit
  <2>1. CASE isInTransaction
    <3>1. Promise!Commit
      BY <1>4, <2>1 DEF Commit, Ready, Promise!Commit
    <3> QED BY <3>1 DEF Promise!Next
  <2>2. CASE ~isInTransaction
    BY <1>4, <2>2 DEF Commit, Ready, IInv, TypeOK
  <2> QED BY <2>1, <2>2
<1>5. CASE Rollback
  <2>1. iter = 0 /\ iter' > 0 /\ isInTransaction' = FALSE /\ image' = image
    BY <1>5 DEF Rollback, Ready
  <2>2. CASE isInTransaction
    <3>1. atBegin' = atBegin
      BY <1>5, <2>2 DEF Rollback
    <3>2. Promise!Abort
      BY <2>1, <2>2, <3>1 DEF Promise!Abort
    <3> QED BY <3>2 DEF Promise!Next
  <2>3. CASE ~isInTransaction
    <3>1. atBegin' = image
      BY <1>5, <2>3 DEF Rollback
    <3>2. isInTransaction = FALSE
      BY <2>3 DEF IInv, TypeOK
    <3>3. ~InFlight /\ InFlight' /\ ~(iter > 0)
      BY <2>1, <2>3
    <3>4. UNCHANGED Promise!avars
      BY <2>1, <3>1, <3>2, <3>3
    <3> QED BY <3>4
  <2> QED BY <2>2, <2>3
<1>6. CASE UndoOne
  BY <1>6 DEF UndoOne, IInv, TypeOK
<1>7. CASE EndRollback
  <2>1. image = atBegin
    BY <1>7, WalkEndsAtBegin DEF EndRollback, RollbackRestores
  <2>2. iter > 0 /\ ~isInTransaction
    BY <1>7 DEF EndRollback, IInv, TypeOK, WalkIsOutside
  <2> QED BY <1>7, <2>1, <2>2 DEF EndRollback
<1> QED BY <1>1, <1>2, <1>3, <1>4, <1>5, <1>6, <1>7 DEF Operation

\* A process that stops leaves the AtomicDisk as it is, but for the block a
\* short write was about: that is a write of something else, or one of the
\* walk of rollback(), which is invisible.
LEMMA FailureRefines ==
  ASSUME IInv, Failure
  PROVE  [Promise!Next]_(Promise!avars)
<1> USE DEF Promise!avars, InFlight
<1>1. CASE (\E b \in Requested : ExitInvalidBlock(b)) \/ ExitNestedTransaction \/ Crash
  BY <1>1 DEF ExitInvalidBlock, ExitNestedTransaction, Crash, Exit
<1>2. ASSUME NEW d \in Data, ShortWrite(d)
      PROVE  [Promise!Next]_(Promise!avars)
  <2>1. ASSUME NEW b \in Block, iter = 0, DoWrite(b, d)
        PROVE  Promise!Next
    <3>1. Promise!Write(b, d)
      BY <1>2, <2>1 DEF ShortWrite, DoWrite, Promise!Write
    <3> QED BY <3>1 DEF Promise!Next, Block, Promise!Block
  <2>2. CASE iter \in 1 .. Len(undoLog)
    BY <1>2, <2>2 DEF ShortWrite, IInv, TypeOK
  <2> QED BY <1>2, <2>1, <2>2 DEF ShortWrite
<1> QED BY <1>1, <1>2 DEF Failure

\* The transactions of a process are private copies that commit() installs and
\* rollback() discards, however often a block is written inside one, and
\* whatever the processes before it have left on the image.
THEOREM DiskImplementsAtomicDisk == Spec => ImplementsAtomicDisk
<1>1. Init => Promise!Init
  BY DEF Init, Promise!Init, InFlight, Block, Promise!Block
<1>2. ASSUME IInv, [Next]_vars
      PROVE  [Promise!Next \/ (~alive /\ Promise!Init')]_(Promise!avars)
  <2>1. CASE [Operation]_vars
    BY <1>2, <2>1, OperationRefines
  <2>2. CASE Failure
    BY <1>2, <2>2, FailureRefines
  <2>3. CASE Restart
    <3>1. ~alive /\ ~InFlight' /\ iter' = 0 /\ isInTransaction' = FALSE /\ image' = image
      BY <2>3 DEF Restart, InFlight
    <3>2. Promise!Init'
      BY <1>2, <3>1 DEF Promise!Init, IInv, TypeOK, Block, Promise!Block
    <3> QED BY <3>1, <3>2
  <2> QED BY <1>2, <2>1, <2>2, <2>3 DEF Next
<1> QED BY Inductive, <1>1, <1>2, PTL DEF Spec, ImplementsAtomicDisk
=============================================================================
