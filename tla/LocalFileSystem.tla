-------------------------- MODULE LocalFileSystem ---------------------------
(***************************************************************************)
(* LocalFileSystem.cpp on an image made by mkfs.c, one action per call.    *)
(*                                                                         *)
(* The server runs one call at a time and each call that changes the image *)
(* does so in one Disk transaction, so a call is one step here: it commits *)
(* all its block writes, or it returns an error after rollback() and       *)
(* changes nothing (see Disk for what that takes and for crashes). What a  *)
(* call returns is an operator of its own, so that callers and properties  *)
(* can refer to it: lookup, ReadReturn, CreateReturn, ...                  *)
(*                                                                         *)
(* Units. Sizes are counted in directory entries (32 bytes); one entry and *)
(* one 32-byte piece of file data are both a Cell, since blocks carry no   *)
(* type and a block that held data may later hold entries.                 *)
(***************************************************************************)
EXTENDS Integers, FiniteSets, FiniteSetsExt

CONSTANTS
  NumInodes, NumData,   \* super.num_inodes, super.num_data
  UFS_BLOCK_SIZE,       \* cells per block
  DIRECT_PTRS,
  InodesPerBlock,
  Names,                \* names a client can use: not empty, short enough
  LongName,             \* a name of DIR_ENT_NAME_SIZE characters or more
  Values,               \* buffers passed to write()
  Sizes,                \* sizes passed to read() and write()
  Garbage               \* pointer arrays mkfs may leave in inodes of the first block

ASSUME SizesAssumption ==
  /\ NumInodes \in Nat \ {0}
  /\ NumData \in Nat \ {0}
  /\ UFS_BLOCK_SIZE \in Nat /\ UFS_BLOCK_SIZE >= 2
  /\ DIRECT_PTRS \in Nat \ {0}
  /\ InodesPerBlock \in Nat \ {0}
  /\ Sizes \subseteq Int

ASSUME NamesAssumption ==
  {".", "..", ""} \cap (Names \cup {LongName}) = {} /\ LongName \notin Names

UFS_DIRECTORY == 0
UFS_REGULAR_FILE == 1

ENOTENOUGHSPACE == 1
EDIRNOTEMPTY == 2
EINVALIDINODE == 3
EINVALIDSIZE == 5
EWRITETODIR == 6
ENOTFOUND == 7
EINVALIDNAME == 8
EINVALIDTYPE == 9
EUNLINKNOTALLOWED == 10

Root == 0
Inode == 0 .. NumInodes - 1
DataBlock == 0 .. NumData - 1
Slot == 0 .. UFS_BLOCK_SIZE - 1
Index == 0 .. DIRECT_PTRS - 1

\* A direct pointer: a data block (counted from data_region_addr), the number
\* zero of an inode that was never written, or a number outside the disk.
NullPtr == -2
Unset == -1
Pointer == DataBlock \cup {NullPtr, Unset}

Cell == [name : Names \cup Values \cup {".", "..", "", "inode"}, inum : Int]
InodeRecord == [type : {UFS_DIRECTORY, UFS_REGULAR_FILE}, size : Nat,
                direct : [Index -> Pointer]]

ASSUME GarbageAssumption == Garbage \subseteq [Index -> Pointer]

\* Arguments of the calls, wrong ones included.
InodeArg == -1 .. NumInodes
NameArg == Names \cup {".", "..", "", LongName}

VARIABLES
  inodeBitmap,  \* inode numbers whose bit is set
  dataBitmap,   \* data blocks whose bit is set
  inodes,       \* the inode region
  dataRegion    \* the data region

vars == <<inodeBitmap, dataBitmap, inodes, dataRegion>>

TypeOK ==
  /\ inodeBitmap \subseteq Inode
  /\ dataBitmap \subseteq DataBlock
  /\ inodes \in [Inode -> InodeRecord]
  /\ dataRegion \in [DataBlock -> [Slot -> Cell]]
-----------------------------------------------------------------------------
(* Blocks as the calls fill them.                                          *)

Entry(n, i) == [name |-> n, inum |-> i]

ZeroBlock == [s \in Slot |-> Entry("", 0)]

\* A zeroed block with every entry marked unused.
UnusedBlock == [s \in Slot |-> Entry("", -1)]

NewDirBlock(i, parent) ==
  [UnusedBlock EXCEPT ![0] = Entry(".", i), ![1] = Entry("..", parent)]

\* Mutant: the source pointer is not advanced after a full block.
FileBlockFromStart(v, n, x) ==
  [s \in Slot |-> IF x * UFS_BLOCK_SIZE + s < n THEN Entry(v, s) ELSE Entry("inode", 0)]

\* Block x of an n-cell buffer v. The rest of a partial block is what the
\* block buffer held before: part of the inode region.
FileBlock(v, n, x) ==
  [s \in Slot |-> LET k == x * UFS_BLOCK_SIZE + s
                  IN IF k < n THEN Entry(v, k) ELSE Entry("inode", 0)]

\* mkfs writes the first inode block from an array on its stack of which it
\* sets only element 0; the other inode blocks and all data blocks are zero.
Init ==
  /\ inodeBitmap = {Root}
  /\ dataBitmap = {0}
  /\ \E g \in [Inode -> Garbage \cup {[x \in Index |-> NullPtr]}] :
       /\ \A i \in Inode : i >= InodesPerBlock => g[i] = [x \in Index |-> NullPtr]
       /\ \A i \in Inode : i < InodesPerBlock => g[i] \in Garbage
       /\ inodes = [i \in Inode |->
            IF i = Root
            THEN [type |-> UFS_DIRECTORY, size |-> 2,
                  direct |-> [x \in Index |-> IF x = 0 THEN 0 ELSE Unset]]
            ELSE [type |-> UFS_DIRECTORY, size |-> 0, direct |-> g[i]]]
  /\ dataRegion = [b \in DataBlock |-> IF b = 0 THEN NewDirBlock(Root, Root) ELSE ZeroBlock]
-----------------------------------------------------------------------------
(* Reading the structures.                                                 *)

\* (size + UFS_BLOCK_SIZE - 1) / UFS_BLOCK_SIZE
Blocks(size) == (size + UFS_BLOCK_SIZE - 1) \div UFS_BLOCK_SIZE

\* stat() succeeds: the number is in range and its bit is set.
Allocated(i) == i \in Inode /\ i \in inodeBitmap

IsDirectory(i) == Allocated(i) /\ inodes[i].type = UFS_DIRECTORY
IsFile(i) == Allocated(i) /\ inodes[i].type = UFS_REGULAR_FILE

\* Entry k of a directory, counted through its blocks.
EntryAt(p, k) ==
  dataRegion[inodes[p].direct[k \div UFS_BLOCK_SIZE]][k % UFS_BLOCK_SIZE]

\* All entry positions in the blocks of a directory, and those below its size.
Positions(p) == 0 .. Blocks(inodes[p].size) * UFS_BLOCK_SIZE - 1
Used(p) == 0 .. inodes[p].size - 1

\* lookup compares every entry of the last block, those past the size too.
lookup(p, n) ==
  LET hits == {k \in Positions(p) : EntryAt(p, k).inum # -1 /\ EntryAt(p, k).name = n}
  IN IF ~IsDirectory(p) THEN -EINVALIDINODE
     ELSE IF hits = {} THEN -ENOTFOUND
     ELSE EntryAt(p, Min(hits)).inum

\* Mutant: the check against num_data lets one bit too many pass.
FreeBlocksPastEnd == (0 .. NumData) \ dataBitmap

FreeBlocks == DataBlock \ dataBitmap

\* The result of k searches of the data bitmap, each for the lowest clear bit.
\* A search that finds no bit below num_data ends in rollback().
LowestFree(k) ==
  {f \in [0 .. k - 1 -> FreeBlocks] :
     \A x \in 0 .. k - 1, b \in FreeBlocks :
       b < f[x] <=> \E y \in 0 .. x - 1 : f[y] = b}
-----------------------------------------------------------------------------
(* read                                                                    *)

Smaller(a, b) == IF a < b THEN a ELSE b
Larger(a, b) == IF a < b THEN b ELSE a

\* The loop skips zero pointers and stops once enough cells are copied, which
\* it tests after a block: it always visits one block if it can.
ReadVisits(i, n) ==
  LET live == {x \in Index : inodes[i].direct[x] # NullPtr}
  IN {x \in live : Cardinality({y \in live : y < x}) < Larger(1, Blocks(n))}

\* readBlock calls exit(1) for a pointer outside the disk.
ReadExits(i, n) ==
  /\ n > 0
  /\ Allocated(i)
  /\ \E x \in ReadVisits(i, Smaller(n, inodes[i].size)) : inodes[i].direct[x] = Unset

\* The cells copied to the caller's buffer.
ReadCells(i, n) ==
  LET m == Smaller(n, inodes[i].size)
      visits == ReadVisits(i, m)
      nth(k) == CHOOSE x \in visits : Cardinality({y \in visits : y < x}) = k
  IN [k \in 0 .. m - 1 |->
        dataRegion[inodes[i].direct[nth(k \div UFS_BLOCK_SIZE)]][k % UFS_BLOCK_SIZE]]

ReadReturn(i, n) ==
  IF n <= 0 THEN -EINVALIDSIZE
  ELSE IF ~Allocated(i) THEN -EINVALIDINODE
  ELSE Cardinality(DOMAIN ReadCells(i, n))
-----------------------------------------------------------------------------
(* create                                                                  *)

\* The entry position create uses: the first one unused or past the size, or
\* the one after the last block when there is none.
CreatePosition(p) ==
  Min({k \in Positions(p) : inodes[p].size <= k \/ EntryAt(p, k).inum = -1}
        \cup {Blocks(inodes[p].size) * UFS_BLOCK_SIZE})

NeedsBlock(p) == CreatePosition(p) \notin Positions(p)

\* Data blocks create takes: one for a new directory, one to grow the parent.
CreateBlocks(p, t) ==
  (IF t = UFS_DIRECTORY THEN 1 ELSE 0) + (IF NeedsBlock(p) THEN 1 ELSE 0)

CreateHasRoom(p, t) ==
  /\ inodeBitmap # Inode
  /\ Cardinality(FreeBlocks) >= CreateBlocks(p, t)
  /\ NeedsBlock(p) => Blocks(inodes[p].size) < DIRECT_PTRS

CreateReturn(p, t, n) ==
  LET found == lookup(p, n)
  IN IF n \in {"", LongName, ".", ".."} THEN -EINVALIDNAME
     ELSE IF ~IsDirectory(p) THEN -EINVALIDINODE
     ELSE IF found >= 0
       THEN IF ~Allocated(found) THEN -EINVALIDINODE
            ELSE IF inodes[found].type # t THEN -EINVALIDTYPE
            ELSE found
     ELSE IF ~CreateHasRoom(p, t) THEN -ENOTENOUGHSPACE
     ELSE Min(Inode \ inodeBitmap)

\* The parent with the position of the new entry in it; b is the block it
\* gets if it has to grow.
Extended(p, b) ==
  LET k == CreatePosition(p)
  IN [type |-> inodes[p].type,
      size |-> Larger(inodes[p].size, k + 1),
      direct |-> IF NeedsBlock(p)
                 THEN [inodes[p].direct EXCEPT ![k \div UFS_BLOCK_SIZE] = b]
                 ELSE inodes[p].direct]

\* The new inode. A new file keeps whatever pointers its inode held; a new
\* directory sets only the first one, to b.
Created(i, t, b) ==
  IF t = UFS_DIRECTORY
  THEN [type |-> t, size |-> 2, direct |-> [inodes[i].direct EXCEPT ![0] = b]]
  ELSE [type |-> t, size |-> 0, direct |-> inodes[i].direct]

\* The block that gets the new entry, after the call.
WithEntry(p, home, n, i) ==
  [IF NeedsBlock(p) THEN UnusedBlock ELSE dataRegion[home]
     EXCEPT ![CreatePosition(p) % UFS_BLOCK_SIZE] = Entry(n, i)]

\* The call that really creates something. The block of a new directory is
\* taken before the one the parent needs.
Create(p, t, n) ==
  LET i == CreateReturn(p, t, n)
      own == IF t = UFS_DIRECTORY THEN 1 ELSE 0
  IN /\ IsDirectory(p)
     /\ lookup(p, n) = -ENOTFOUND
     /\ i >= 0
     /\ inodeBitmap' = inodeBitmap \cup {i}
     /\ \E f \in LowestFree(CreateBlocks(p, t)) :
          LET home == Extended(p, f[own]).direct[CreatePosition(p) \div UFS_BLOCK_SIZE]
          IN /\ dataBitmap' = dataBitmap \cup {f[x] : x \in DOMAIN f}
             /\ inodes' = [inodes EXCEPT ![p] = Extended(p, f[own]), ![i] = Created(i, t, f[0])]
             /\ dataRegion' = [b \in DataBlock |->
                  IF b = home THEN WithEntry(p, home, n, i)
                  ELSE IF own = 1 /\ b = f[0] THEN NewDirBlock(i, p)
                  ELSE dataRegion[b]]
-----------------------------------------------------------------------------
(* write                                                                   *)

WriteReturn(i, n) ==
  IF n <= 0 THEN -EINVALIDSIZE
  ELSE IF Blocks(n) > DIRECT_PTRS THEN -ENOTENOUGHSPACE
  ELSE IF ~Allocated(i) THEN -EINVALIDINODE
  ELSE IF ~IsFile(i) THEN -EWRITETODIR
  ELSE IF Blocks(n) - Blocks(inodes[i].size) > Cardinality(FreeBlocks) THEN -ENOTENOUGHSPACE
  ELSE n

\* Mutant: a file that gets shorter keeps the bits of its old blocks.
WriteFreesNothing(i, n) == {}

\* Mutant: the walk over the old pointers starts one early.
WriteFreesOneTooMany(i, n) ==
  {inodes[i].direct[x] : x \in Blocks(n) - 1 .. Blocks(inodes[i].size) - 1}

\* The blocks a shrinking write gives back.
WriteFrees(i, n) ==
  {inodes[i].direct[x] : x \in Blocks(n) .. Blocks(inodes[i].size) - 1}

\* The pointers of file i at its new size: blocks f are added at the end, or
\* the last ones are dropped.
Repointed(i, n, f) ==
  LET cntOfBlock == Blocks(n)
      numBlockNow == Blocks(inodes[i].size)
  IN [x \in Index |->
        IF x \in numBlockNow .. cntOfBlock - 1 THEN f[x - numBlockNow]
        ELSE IF x \in cntOfBlock .. numBlockNow - 1 THEN Unset
        ELSE inodes[i].direct[x]]

\* Allocate or free blocks at the end of the file, then rewrite all of it.
Write(i, v, n) ==
  /\ WriteReturn(i, n) > 0
  /\ \E f \in LowestFree(Larger(0, Blocks(n) - Blocks(inodes[i].size))) :
       LET at(b) == {x \in 0 .. Blocks(n) - 1 : Repointed(i, n, f)[x] = b}
       IN /\ dataBitmap' = (dataBitmap \cup {f[x] : x \in DOMAIN f}) \ WriteFrees(i, n)
          /\ inodes' = [inodes EXCEPT
               ![i] = [type |-> inodes[i].type, size |-> n, direct |-> Repointed(i, n, f)]]
          /\ dataRegion' = [b \in DataBlock |->
               IF at(b) # {} THEN FileBlock(v, n, Max(at(b))) ELSE dataRegion[b]]
  /\ UNCHANGED inodeBitmap
-----------------------------------------------------------------------------
(* unlink                                                                  *)

\* Positions below the size that hold the name.
UnlinkHits(p, n) ==
  {k \in Used(p) : EntryAt(p, k).inum # -1 /\ EntryAt(p, k).name = n}

\* Mutant: the walk over the entries stops one early.
IsEmptyButForLast(i) ==
  \A k \in Used(i) \ {inodes[i].size - 1} :
    EntryAt(i, k).inum = -1 \/ EntryAt(i, k).name \in {".", ".."}

IsEmptyDirectory(i) ==
  \A k \in Used(i) : EntryAt(i, k).inum = -1 \/ EntryAt(i, k).name \in {".", ".."}

UnlinkReturn(p, n) ==
  IF n \in {".", ".."} THEN -EUNLINKNOTALLOWED
  ELSE IF n = "" THEN -EINVALIDNAME
  ELSE IF ~IsDirectory(p) \/ inodes[p].size < 2 THEN -EINVALIDINODE
  ELSE IF UnlinkHits(p, n) = {} THEN -EINVALIDNAME
  ELSE LET t == EntryAt(p, Min(UnlinkHits(p, n))).inum
       IN IF t < 0 THEN -EINVALIDNAME
          ELSE IF ~Allocated(t) THEN -EINVALIDINODE
          ELSE IF IsDirectory(t) /\ ~IsEmptyDirectory(t) THEN -EDIRNOTEMPTY
          ELSE 0

\* Mutant: the entry that moved down stays where it was, too.
CompactedKeepsLast(p, e, k) ==
  IF k \in e .. inodes[p].size - 2 THEN EntryAt(p, k + 1) ELSE EntryAt(p, k)

\* Position k after the entry at e is taken out: the later ones move down and
\* the last one is marked unused.
Compacted(p, e, k) ==
  LET last == inodes[p].size - 1
  IN IF k \in e .. last - 1 THEN EntryAt(p, k + 1)
     ELSE IF k = last THEN Entry(EntryAt(p, k).name, -1)
     ELSE EntryAt(p, k)

\* Block x of the parent after that.
CompactedBlock(p, e, x) ==
  [s \in Slot |-> Compacted(p, e, x * UFS_BLOCK_SIZE + s)]

\* The parent with one entry less, and without its last block if that is empty.
Shortened(p) ==
  LET after == Blocks(inodes[p].size - 1)
  IN [type |-> inodes[p].type,
      size |-> inodes[p].size - 1,
      direct |-> IF Blocks(inodes[p].size) # after
                 THEN [inodes[p].direct EXCEPT ![after] = Unset]
                 ELSE inodes[p].direct]

\* The data blocks unlink gives back: the parent's last one if that is now
\* empty, and all of the target's.
UnlinkFrees(p, t) ==
  {inodes[p].direct[x] : x \in Blocks(inodes[p].size - 1) .. Blocks(inodes[p].size) - 1}
    \cup {inodes[t].direct[x] : x \in 0 .. Blocks(inodes[t].size) - 1}

\* Close the gap in the parent and free the target. Its inode is not cleared.
Unlink(p, n) ==
  /\ UnlinkReturn(p, n) = 0
  /\ LET e == Min(UnlinkHits(p, n))
         t == EntryAt(p, e).inum
         at(b) == {x \in 0 .. Blocks(inodes[p].size - 1) - 1 : inodes[p].direct[x] = b}
     IN /\ dataRegion' = [b \in DataBlock |->
             IF at(b) # {} THEN CompactedBlock(p, e, Max(at(b))) ELSE dataRegion[b]]
        /\ inodes' = [inodes EXCEPT ![p] = Shortened(p)]
        /\ dataBitmap' = dataBitmap \ UnlinkFrees(p, t)
        /\ inodeBitmap' = inodeBitmap \ {t}
-----------------------------------------------------------------------------
Next ==
  \/ \E p \in InodeArg, t \in {UFS_DIRECTORY, UFS_REGULAR_FILE}, n \in NameArg : Create(p, t, n)
  \/ \E i \in InodeArg, v \in Values, n \in Sizes : Write(i, v, n)
  \/ \E p \in InodeArg, n \in NameArg : Unlink(p, n)

Spec == Init /\ [][Next]_vars
-----------------------------------------------------------------------------
(* Properties.                                                             *)

Directories == {i \in Inode : IsDirectory(i)}

\* Who points to a block: pairs of an allocated inode and a pointer below its
\* size.
Owners(b) ==
  {o \in inodeBitmap \X Index :
     o[2] < Blocks(inodes[o[1]].size) /\ inodes[o[1]].direct[o[2]] = b}

\* The data bitmap is exact: a set bit has one owner, so no two files share a
\* block and unlink or a shrinking write cannot free another file's data, and
\* a clear bit has none, so no block is lost and none in use can be given out.
\* Every pointer below a size is a data block.
BlocksHaveOneOwner ==
  /\ \A b \in DataBlock : Cardinality(Owners(b)) = IF b \in dataBitmap THEN 1 ELSE 0
  /\ \A i \in inodeBitmap : \A x \in 0 .. Blocks(inodes[i].size) - 1 :
       x \in Index /\ inodes[i].direct[x] \in DataBlock

\* Entries are dense: "." and ".." first, a valid inode in each position below
\* the size, nothing past it (where lookup still looks), no name twice. This
\* is what unlink's compaction and create's choice of a position keep up.
DirectoriesAreDense ==
  \A p \in Directories :
    /\ inodes[p].size >= 2
    /\ EntryAt(p, 0) = Entry(".", p)
    /\ EntryAt(p, 1).name = ".."
    /\ \A k \in Used(p) : EntryAt(p, k).inum \in inodeBitmap
    /\ \A k \in Positions(p) \ Used(p) : EntryAt(p, k).inum = -1
    /\ \A j, k \in Used(p) : EntryAt(p, j).name = EntryAt(p, k).name => j = k

\* Positions of the named entries: all but "." and "..".
NamedEntries(p) == {k \in Used(p) : k >= 2}

\* The named entries that lead to an inode: directories and positions.
EntriesFor(i) ==
  {e \in Directories \X (0 .. DIRECT_PTRS * UFS_BLOCK_SIZE - 1) :
     e[2] \in NamedEntries(e[1]) /\ EntryAt(e[1], e[2]).inum = i}

\* The allocated inodes form a tree: each but the root is named by exactly one
\* entry, ".." leads back to the directory holding that entry, and every chain
\* of ".." reaches the root: no set of directories without it is closed under
\* "..". An inode bit is set only for what has a name.
NamespaceIsTree ==
  /\ Root \in Directories /\ EntryAt(Root, 1).inum = Root
  /\ EntriesFor(Root) = {}
  /\ \A i \in inodeBitmap \ {Root} :
       \E e \in EntriesFor(i) :
         EntriesFor(i) = {e} /\ (IsDirectory(i) => EntryAt(i, 1).inum = e[1])
  /\ \A S \in SUBSET (Directories \ {Root}) :
       S # {} => \E i \in S : EntryAt(i, 1).inum \notin S

\* The tree a caller sees through stat, lookup and read.
SeenNode(i) ==
  IF ~Allocated(i) THEN [kind |-> "free"]
  ELSE IF IsDirectory(i)
    THEN [kind |-> "directory", parent |-> lookup(i, ".."),
          entries |-> [n \in {m \in Names : lookup(i, m) >= 0} |-> lookup(i, n)]]
  ELSE [kind |-> "file", content |-> ReadCells(i, inodes[i].size)]

SeenTree == [i \in Inode |-> SeenNode(i)]

\* What write can leave in a file.
Written == {[k \in 0 .. n - 1 |-> Entry(v, k)] : v \in Values, n \in Sizes \cap Nat}

Tree == INSTANCE FileTree WITH Contents <- Written, node <- SeenTree

\* The calls implement FileTree: create adds one node, write replaces the
\* content of one file by exactly the buffer, unlink removes one node, and what
\* lookup and read return for every other inode stays the same, however blocks
\* and inodes are reused.
ImplementsFileTree == Tree!Spec

\* read: "If the caller specifies a size of larger than the size of the
\* object, then you only return the bytes in the object." It returns; it does
\* not stop the server.
ReadReturns == \A i \in InodeArg, n \in Sizes : ~ReadExits(i, n)
=============================================================================
