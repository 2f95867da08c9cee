------------------------ MODULE LocalFileSystemSteps -------------------------
(***************************************************************************)
(* create, write and unlink as what they do to the Disk: one step for each *)
(* block they write, between beginTransaction and commit or rollback, so   *)
(* that a call can fail or be stopped between any two of its writes.       *)
(*                                                                         *)
(* The image has the layout of mkfs: super block, bitmaps, inode region,   *)
(* data region. It is seen through two instances of LocalFileSystem: Now   *)
(* is the image as the call has left it so far, Stable the image of the    *)
(* last commit, which during a call is the one it began with. What a call  *)
(* has read into a local variable or a buffer of its own before its first  *)
(* write is what Stable holds.                                             *)
(***************************************************************************)
EXTENDS Integers, Sequences, FiniteSets, FiniteSetsExt

CONSTANTS
  NumInodes, NumData, UFS_BLOCK_SIZE, DIRECT_PTRS, InodesPerBlock,
  Names, LongName, Values, Sizes, Garbage,   \* as in LocalFileSystem
  InodeBits, DataBits,  \* bits in the bitmaps: whole blocks of them
  MaxLog,               \* as in Disk
  MaxCalls,             \* bound on the calls of a behaviour
  None

VARIABLES
  image, isInTransaction, undoLog, iter, alive, atBegin,   \* as in Disk
  call,   \* the call under way: where it is, its arguments and its variables
  calls   \* how many have begun

diskVars == <<image, isInTransaction, undoLog, iter, alive, atBegin>>
vars == <<diskVars, call, calls>>

\* No call is under way.
Idle == [at |-> "idle"]

ASSUME SizesAssumption ==
  /\ NumInodes \in Nat \ {0}
  /\ NumData \in Nat \ {0}
  /\ UFS_BLOCK_SIZE \in Nat /\ UFS_BLOCK_SIZE >= 2
  /\ DIRECT_PTRS \in Nat \ {0}
  /\ InodesPerBlock \in Nat \ {0}
  /\ Sizes \subseteq Int

ASSUME NamesAssumption ==
  {".", "..", ""} \cap (Names \cup {LongName}) = {} /\ LongName \notin Names

ASSUME BitsAssumption ==
  /\ InodeBits \in Nat /\ InodeBits >= NumInodes
  /\ DataBits \in Nat /\ DataBits >= NumData

ASSUME BoundsAssumption == MaxLog \in Nat /\ MaxCalls \in Nat

\* None is no number, so that it is neither an inode nor a block.
ASSUME NoneAssumption == None \notin Int
-----------------------------------------------------------------------------
(* The layout.                                                             *)

SuperBlock == 0
inode_bitmap_addr == 1
data_bitmap_addr == 2
inode_region_addr == 3
data_region_addr == inode_region_addr + ((NumInodes - 1) \div InodesPerBlock) + 1

D == INSTANCE Disk WITH
       NumBlocks <- data_region_addr + NumData,
       Data <- {None}

InodesOf(disk) ==
  [i \in 0 .. NumInodes - 1 |-> disk[inode_region_addr + i \div InodesPerBlock][i % InodesPerBlock]]
DataOf(disk) == [b \in 0 .. NumData - 1 |-> disk[data_region_addr + b]]

Now == INSTANCE LocalFileSystem WITH
         inodeBitmap <- image[inode_bitmap_addr], dataBitmap <- image[data_bitmap_addr],
         inodes <- InodesOf(image), dataRegion <- DataOf(image)

stable == IF D!InFlight THEN atBegin ELSE image

Stable == INSTANCE LocalFileSystem WITH
            inodeBitmap <- stable[inode_bitmap_addr], dataBitmap <- stable[data_bitmap_addr],
            inodes <- InodesOf(stable), dataRegion <- DataOf(stable)

ASSUME GarbageAssumption == Garbage \subseteq [Now!Index -> Now!Pointer]

\* The number readBlock and writeBlock get for a pointer.
Address(p) ==
  CASE p = Now!NullPtr -> SuperBlock
    [] p = Now!Unset   -> -1
    [] OTHER           -> data_region_addr + p

InodeBlock(i) == inode_region_addr + i \div InodesPerBlock

\* Mutant: the block is not read again after an earlier write of the call.
WithStaleNeighbours(i, inode) == [stable[InodeBlock(i)] EXCEPT ![i % InodesPerBlock] = inode]

\* What the block of an inode holds when the inode is replaced.
WithInode(i, inode) == [image[InodeBlock(i)] EXCEPT ![i % InodesPerBlock] = inode]

\* What mkfs leaves in the pointers of an inode: those of the root, zeros, or
\* what was on its stack.
FirstPointers ==
  Garbage \cup {[x \in Now!Index |-> Now!NullPtr],
               [x \in Now!Index |-> IF x = 0 THEN 0 ELSE Now!Unset]}

\* An image made by mkfs, opened by a process.
Init ==
  /\ \E inodes \in [Now!Inode -> [type : {Now!UFS_DIRECTORY}, size : {0, 2}, direct : FirstPointers]] :
       image = [b \in D!Block |->
         CASE b = SuperBlock -> None
           [] b \in {inode_bitmap_addr, data_bitmap_addr} -> {0}
           [] b \in inode_region_addr .. data_region_addr - 1 ->
                [j \in 0 .. InodesPerBlock - 1 |->
                   LET i == (b - inode_region_addr) * InodesPerBlock + j
                   IN IF i \in Now!Inode THEN inodes[i] ELSE None]
           [] b = data_region_addr -> Now!NewDirBlock(Now!Root, Now!Root)
           [] OTHER -> Now!ZeroBlock]
  /\ isInTransaction = FALSE
  /\ undoLog = <<>>
  /\ iter = 0
  /\ alive = TRUE
  /\ atBegin = image
  /\ call = Idle
  /\ calls = 0
  /\ Now!Init
-----------------------------------------------------------------------------
(* What all calls have in common.                                          *)

\* A step of the call that is at this place.
At(place) == call.at = place /\ UNCHANGED calls

\* After its checks, which change nothing, a call opens a transaction.
Begin(new) ==
  /\ call = Idle
  /\ calls < MaxCalls
  /\ calls' = calls + 1
  /\ \/ D!BeginTransaction /\ call' = new
     \/ D!ExitNestedTransaction /\ UNCHANGED call

Put(b, content) == D!WriteBlock(b, content) \/ D!ExitInvalidBlock(b)

\* Search a bitmap for a clear bit, set it, and only then see whether it
\* stands for anything: a bitmap has more bits than there are inodes or blocks,
\* and next is the call after each of those that do.
TakeBit(addr, bits, next) ==
  LET clear == (0 .. bits - 1) \ image[addr]
  IN \/ /\ clear = {}
        /\ call' = [call EXCEPT !.at = "fail"]
        /\ UNCHANGED diskVars
     \/ /\ clear # {}
        /\ Put(addr, image[addr] \cup {Min(clear)})
        /\ call' = IF Min(clear) \in DOMAIN next THEN next[Min(clear)] ELSE [call EXCEPT !.at = "fail"]

ClearBit(addr, bit) == Put(addr, image[addr] \ {bit})

Goto(place) == call' = [call EXCEPT !.at = place]

Commit == At("commit") /\ D!Commit /\ call' = Idle

\* Mutant: an error returns without rollback().
FailOpen == At("fail") /\ call' = Idle /\ UNCHANGED diskVars

\* An error: rollback() and return.
Fail == At("fail") /\ D!Rollback /\ Goto("rollback")

Undo == At("rollback") /\ D!UndoOne /\ UNCHANGED call

Return == At("rollback") /\ D!EndRollback /\ call' = Idle
-----------------------------------------------------------------------------
(* create: bitmaps, the block of a new directory, the entry, the inode of  *)
(* the parent, the new inode.                                              *)

StartCreate(p, t, n) ==
  /\ Now!IsDirectory(p)
  /\ Now!lookup(p, n) = -Now!ENOTFOUND
  /\ Begin([op |-> "create", inum |-> p, type |-> t, name |-> n,
            at |-> IF t = Now!UFS_DIRECTORY THEN "block" ELSE "inum",
            block |-> None, new |-> None, more |-> None])

CreateBlock ==
  /\ At("block")
  /\ TakeBit(data_bitmap_addr, DataBits,
             [b \in Now!DataBlock |-> [call EXCEPT !.block = b, !.at = "inum"]])

CreateInum ==
  /\ At("inum")
  /\ TakeBit(inode_bitmap_addr, InodeBits,
             [i \in Now!Inode |-> [call EXCEPT !.new = i,
                           !.at = IF call.type = Now!UFS_DIRECTORY THEN "dots" ELSE "entry"]])

CreateDots ==
  /\ At("dots")
  /\ Put(data_region_addr + call.block, Now!NewDirBlock(call.new, call.inum))
  /\ Goto("entry")

\* Where the entry goes: indexOfEntry, and the position in pinum.direct.
Place == Stable!CreatePosition(call.inum)
Home == Place \div UFS_BLOCK_SIZE

WithEntry(block) == [block EXCEPT ![Place % UFS_BLOCK_SIZE] = Now!Entry(call.name, call.new)]

\* Into a block the parent has, or into one to take from the bitmap.
CreateEntry ==
  /\ At("entry")
  /\ LET pinum == InodesOf(stable)[call.inum]
     IN \/ /\ ~Stable!NeedsBlock(call.inum)
           /\ LET b == Address(pinum.direct[Home]) IN Put(b, WithEntry(image[b]))
           /\ Goto(IF pinum.size < Place + 1 THEN "parent" ELSE "init")
        \/ /\ Stable!NeedsBlock(call.inum) /\ DIRECT_PTRS <= Home
           /\ Goto("fail")
           /\ UNCHANGED diskVars
        \/ /\ Stable!NeedsBlock(call.inum) /\ Home < DIRECT_PTRS
           /\ TakeBit(data_bitmap_addr, DataBits,
                      [b \in Now!DataBlock |-> [call EXCEPT !.more = b, !.at = "grow"]])

CreateGrow ==
  /\ At("grow")
  /\ Put(data_region_addr + call.more, WithEntry(Now!UnusedBlock))
  /\ Goto("parent")

CreateParent ==
  /\ At("parent")
  /\ Put(InodeBlock(call.inum),
         WithInode(call.inum,
           [InodesOf(image)[call.inum] EXCEPT
              !.size = Place + 1,
              !.direct = IF call.more = None THEN @ ELSE [@ EXCEPT ![Home] = call.more]]))
  /\ Goto("init")

CreateInit ==
  /\ At("init")
  /\ Put(InodeBlock(call.new), WithInode(call.new, Now!Created(call.new, call.type, call.block)))
  /\ Goto("commit")
-----------------------------------------------------------------------------
(* write: the data bitmap, the inode, the data.                            *)

StartWrite(i, v, n) ==
  LET now == Now!Blocks(InodesOf(image)[i].size)
      cntOfBlock == Now!Blocks(n)
  IN /\ n > 0 /\ cntOfBlock <= DIRECT_PTRS
     /\ Now!IsFile(i)
     /\ Begin([op |-> "write", inum |-> i, value |-> v, size |-> n, inode |-> InodesOf(image)[i],
               x |-> Now!Smaller(now, cntOfBlock), last |-> now,
               at |-> CASE now < cntOfBlock -> "alloc" [] cntOfBlock < now -> "free" [] OTHER -> "inode"])

WriteAlloc ==
  /\ At("alloc")
  /\ TakeBit(data_bitmap_addr, DataBits,
             [b \in Now!DataBlock |-> [call EXCEPT !.inode.direct[call.x] = b, !.x = @ + 1,
                           !.at = IF call.x + 1 < Now!Blocks(call.size) THEN "alloc" ELSE "inode"]])

WriteFree ==
  /\ At("free")
  /\ ClearBit(data_bitmap_addr, call.inode.direct[call.x])
  /\ call' = [call EXCEPT !.inode.direct[call.x] = Now!Unset, !.x = @ + 1,
                !.at = IF call.x + 1 < call.last THEN "free" ELSE "inode"]

WriteInode ==
  /\ At("inode")
  /\ Put(InodeBlock(call.inum), WithInode(call.inum, [call.inode EXCEPT !.size = call.size]))
  /\ call' = [call EXCEPT !.x = 0, !.at = "data"]

WriteData ==
  /\ At("data")
  /\ Put(Address(call.inode.direct[call.x]), Now!FileBlock(call.value, call.size, call.x))
  /\ call' = [call EXCEPT !.x = @ + 1,
                !.at = IF call.x + 1 < Now!Blocks(call.size) THEN "data" ELSE "commit"]
-----------------------------------------------------------------------------
(* unlink: the blocks of the parent, its last bit, its inode, the bits of  *)
(* the target, its inode's bit. The inode of the target is not written.    *)

StartUnlink(p, n) ==
  /\ n \notin {"", ".", ".."}
  /\ Now!IsDirectory(p) /\ InodesOf(image)[p].size >= 2
  /\ Begin([op |-> "unlink", inum |-> p, name |-> n, at |-> "find", x |-> 0, new |-> None])

\* Mutant: the inode is freed as soon as it is found.
UnlinkFindFrees ==
  /\ At("find")
  /\ LET t == Stable!EntryAt(call.inum, Min(Stable!UnlinkHits(call.inum, call.name))).inum
     IN IF Stable!UnlinkReturn(call.inum, call.name) < 0
        THEN Goto("fail") /\ UNCHANGED diskVars
        ELSE /\ ClearBit(inode_bitmap_addr, t)
             /\ call' = [call EXCEPT !.new = t, !.at = "compact"]

UnlinkFind ==
  /\ At("find")
  /\ LET e == Min(Stable!UnlinkHits(call.inum, call.name))
     IN call' = IF Stable!UnlinkReturn(call.inum, call.name) < 0
                THEN [call EXCEPT !.at = "fail"]
                ELSE [call EXCEPT !.new = Stable!EntryAt(call.inum, e).inum, !.at = "compact"]
  /\ UNCHANGED diskVars

\* The number of blocks of the parent before and after.
Before == Now!Blocks(InodesOf(stable)[call.inum].size)
After == Now!Blocks(InodesOf(stable)[call.inum].size - 1)

UnlinkCompact ==
  /\ At("compact")
  /\ LET e == Min(Stable!UnlinkHits(call.inum, call.name))
     IN Put(Address(InodesOf(stable)[call.inum].direct[call.x]),
            Stable!CompactedBlock(call.inum, e, call.x))
  /\ call' = [call EXCEPT !.x = @ + 1,
                !.at = IF call.x + 1 < After THEN "compact"
                       ELSE IF Before # After THEN "shrink" ELSE "shorten"]

UnlinkShrink ==
  /\ At("shrink")
  /\ ClearBit(data_bitmap_addr, InodesOf(stable)[call.inum].direct[After])
  /\ Goto("shorten")

UnlinkParent ==
  /\ At("shorten")
  /\ Put(InodeBlock(call.inum), WithInode(call.inum, Stable!Shortened(call.inum)))
  /\ call' = [call EXCEPT !.x = 0,
                !.at = IF InodesOf(stable)[call.new].size = 0 THEN "bit" ELSE "bits"]

UnlinkBlocks ==
  /\ At("bits")
  /\ ClearBit(data_bitmap_addr, InodesOf(stable)[call.new].direct[call.x])
  /\ call' = [call EXCEPT !.x = @ + 1,
                !.at = IF call.x + 1 < Now!Blocks(InodesOf(stable)[call.new].size)
                       THEN "bits" ELSE "bit"]

UnlinkInode ==
  /\ At("bit")
  /\ ClearBit(inode_bitmap_addr, call.new)
  /\ Goto("commit")
-----------------------------------------------------------------------------
Start ==
  \/ \E p \in Now!Inode, t \in {Now!UFS_DIRECTORY, Now!UFS_REGULAR_FILE}, n \in Names : StartCreate(p, t, n)
  \/ \E i \in Now!Inode, v \in Values, n \in Sizes : StartWrite(i, v, n)
  \/ \E p \in Now!Inode, n \in Names \cup {LongName} : StartUnlink(p, n)

Next ==
  \/ Start
  \/ CreateBlock \/ CreateInum \/ CreateDots \/ CreateEntry \/ CreateGrow \/ CreateParent \/ CreateInit
  \/ WriteAlloc \/ WriteFree \/ WriteInode \/ WriteData
  \/ UnlinkFind \/ UnlinkCompact \/ UnlinkShrink \/ UnlinkParent \/ UnlinkBlocks \/ UnlinkInode
  \/ Commit \/ Fail \/ Undo \/ Return

Spec == Init /\ [][Next]_vars
-----------------------------------------------------------------------------
(* Properties.                                                             *)

\* A call is one step of LocalFileSystem or none: when it has committed, all
\* its block writes together are what LocalFileSystem says of the call, and
\* when it has failed after any number of them, nothing has happened.
ImplementsLocalFileSystem == Stable!Spec

\* The Disk never ends the process: no path through a call leaves its
\* transaction open for the next beginTransaction(), and no pointer that is
\* written through leads outside the disk.
DiskAcceptsAllCalls == alive

\* A process may stop between any two writes, of a call or of its rollback().
\* What it leaves need not be consistent, but all that the call is not about is
\* as before: each other name is found, each other file is whole. And bits are
\* set before there is a name that leads to them, and cleared when there is
\* none any more: a name that is found leads to an inode in use, and that to
\* blocks in use, but for what is just being made, written or made shorter.
StopsHurtNobodyElse ==
  call # Idle =>
    LET target == IF call.op = "unlink" THEN {call.new} ELSE {}
        others == Stable!Directories \ target
        named(p) == Names \ (IF call.op # "write" /\ p = call.inum THEN {call.name} ELSE {})
    IN /\ \A p \in others : \A n \in named(p) : Now!lookup(p, n) = Stable!lookup(p, n)
       /\ \A i \in Now!Inode \ (target \cup {call.inum}) : Stable!IsFile(i) =>
            LET n == InodesOf(stable)[i].size
            IN Now!IsFile(i) /\ (n > 0 => Now!ReadCells(i, n) = Stable!ReadCells(i, n))
       /\ \A p \in others : \A n \in Names :
            LET i == Now!lookup(p, n)
            IN i >= 0 =>
                 /\ Now!Allocated(i)
                 /\ i \in stable[inode_bitmap_addr] \ {call.inum} =>
                      \A x \in 0 .. Now!Blocks(InodesOf(image)[i].size) - 1 :
                        InodesOf(image)[i].direct[x] \in image[data_bitmap_addr]
=============================================================================
