----------------------------- MODULE StepsProofs -----------------------------
(***************************************************************************)
(* Theorems about LocalFileSystemSteps: create, write and unlink made of   *)
(* single block writes in a transaction implement the calls of one step of *)
(* LocalFileSystem, for all images, names, sizes and block sizes.          *)
(*                                                                         *)
(* The inductive invariant SInv says how far a call has come: Fits states, *)
(* for each place of each call, the whole image as a function of the last  *)
(* committed one (stable) and of the variables of the call. Of stable it   *)
(* keeps what LocalFileSystemProofs proves of the image after any calls    *)
(* (L!IInv), and of the undo log what DiskProofs proves of the device      *)
(* (DD!IInv). The order of the module:                                     *)
(*   - a block write as a change of one of the four parts of an image;     *)
(*   - what the calls need to know of stable (Sound), from L!IInv;         *)
(*   - Fits and SInv;                                                      *)
(*   - for each write, that it leads from Fits to Fits;                    *)
(*   - the begin of a call, its failure, and rollback();                   *)
(*   - that Fits at commit() is the step of LocalFileSystem.               *)
(***************************************************************************)
EXTENDS LocalFileSystemSteps, FiniteSetTheorems, TLAPS

\* What LocalFileSystemProofs knows of the last committed image.
L == INSTANCE LocalFileSystemProofs WITH
       inodeBitmap <- stable[inode_bitmap_addr], dataBitmap <- stable[data_bitmap_addr],
       inodes <- InodesOf(stable), dataRegion <- DataOf(stable)

\* LocalFileSystem as functions of an image.
Im(disk) == INSTANCE LocalFileSystem WITH
              inodeBitmap <- disk[inode_bitmap_addr], dataBitmap <- disk[data_bitmap_addr],
              inodes <- InodesOf(disk), dataRegion <- DataOf(disk)

\* What the blocks of the image hold.
InodeBlocks == [0 .. InodesPerBlock - 1 -> Now!InodeRecord \cup {None}]
DataBlocks == [Now!Slot -> Now!Cell]
Content == {None} \cup (SUBSET Int) \cup InodeBlocks \cup DataBlocks

\* What DiskProofs knows of the device.
DD == INSTANCE DiskProofs WITH
        NumBlocks <- data_region_addr + NumData,
        Data <- Content

Shaped(disk) ==
  /\ disk \in [D!Block -> Content]
  /\ disk[inode_bitmap_addr] \subseteq Int
  /\ disk[data_bitmap_addr] \subseteq Int
  /\ \A b \in inode_region_addr .. data_region_addr - 1 : disk[b] \in InodeBlocks
  /\ \A i \in Now!Inode : InodesOf(disk)[i] \in Now!InodeRecord
  /\ \A b \in Now!DataBlock : disk[data_region_addr + b] \in DataBlocks

\* The four parts of an image.
View(disk) ==
  [ib |-> disk[inode_bitmap_addr], db |-> disk[data_bitmap_addr],
   nodes |-> InodesOf(disk), data |-> DataOf(disk)]

\* What one block written to a disk does to it and to its view.
Wrote(disk, b, c) == [disk EXCEPT ![b] = c]
WroteInode(disk, i, r) == [disk[InodeBlock(i)] EXCEPT ![i % InodesPerBlock] = r]

InodeBitsIn(v, X) == [v EXCEPT !.ib = X]
DataBitsIn(v, X) == [v EXCEPT !.db = X]
InodeIn(v, i, r) == [v EXCEPT !.nodes = [@ EXCEPT ![i] = r]]
DataIn(v, b, c) == [v EXCEPT !.data = [@ EXCEPT ![b] = c]]

\* A call on its way to the next place, with what it has just got.
Moved(c, place) == [c EXCEPT !.at = place]
GotBlock(c, b) == [c EXCEPT !.block = b, !.at = "inum"]
GotInum(c, i) ==
  [c EXCEPT !.new = i, !.at = IF c.type = Now!UFS_DIRECTORY THEN "dots" ELSE "entry"]
GotMore(c, b) == [c EXCEPT !.more = b, !.at = "grow"]
-----------------------------------------------------------------------------
LEMMA Assumptions == L!SizesAssumption /\ L!NamesAssumption /\ L!GarbageAssumption
  BY SizesAssumption, NamesAssumption, GarbageAssumption
  DEF L!SizesAssumption, L!NamesAssumption, L!GarbageAssumption,
      L!Index, L!Pointer, L!DataBlock, L!NullPtr, L!Unset,
      Now!Index, Now!Pointer, Now!DataBlock, Now!NullPtr, Now!Unset

LEMMA InodePlace ==
  ASSUME NEW i \in Now!Inode
  PROVE  /\ i \div InodesPerBlock \in Nat
         /\ i % InodesPerBlock \in 0 .. InodesPerBlock - 1
         /\ i = InodesPerBlock * (i \div InodesPerBlock) + (i % InodesPerBlock)
         /\ InodeBlock(i) \in inode_region_addr .. data_region_addr - 1
<1>1. i \in Nat /\ i <= NumInodes - 1
  BY SizesAssumption DEF Now!Inode
<1>2. /\ i \div InodesPerBlock \in Nat
      /\ i % InodesPerBlock \in 0 .. InodesPerBlock - 1
      /\ i = InodesPerBlock * (i \div InodesPerBlock) + (i % InodesPerBlock)
  BY <1>1, Assumptions, SizesAssumption, L!Division
<1>3. i \div InodesPerBlock <= (NumInodes - 1) \div InodesPerBlock
  BY <1>1, SizesAssumption
<1>4. (NumInodes - 1) \div InodesPerBlock \in Nat
  BY SizesAssumption
<1> QED BY <1>2, <1>3, <1>4 DEF InodeBlock, data_region_addr, inode_region_addr

LEMMA Layout ==
  /\ inode_bitmap_addr = 1 /\ data_bitmap_addr = 2 /\ inode_region_addr = 3
  /\ data_region_addr \in Nat /\ data_region_addr > inode_region_addr
  /\ D!Block = 0 .. data_region_addr + NumData - 1
  /\ DD!Block = D!Block
  /\ \A b \in Now!DataBlock : b \in 0 .. NumData - 1
  /\ NumData \in Nat
<1>1. (NumInodes - 1) \div InodesPerBlock \in Nat
  BY SizesAssumption
<1> QED BY <1>1, SizesAssumption
     DEF inode_bitmap_addr, data_bitmap_addr, inode_region_addr, data_region_addr,
         D!Block, DD!Block, Now!DataBlock

LEMMA PutInodeBitmap ==
  ASSUME NEW disk, Shaped(disk), NEW X, X \subseteq Int,
         NEW new, new = Wrote(disk, inode_bitmap_addr, X)
  PROVE  /\ inode_bitmap_addr \in D!Block /\ X \in Content
         /\ Shaped(new)
         /\ View(new) = InodeBitsIn(View(disk), X)
<1>1. inode_bitmap_addr \in D!Block /\ X \in Content
  BY Layout DEF Content
<1>2. new \in [D!Block -> Content] /\ new[inode_bitmap_addr] = X
  BY <1>1 DEF Shaped, Wrote
<1>3. \A b \in D!Block \ {1} : new[b] = disk[b]
  BY Layout DEF Shaped, Wrote
<1>4. InodesOf(new) = InodesOf(disk)
  <2>1. \A i \in Now!Inode : InodeBlock(i) \in D!Block \ {1}
    BY InodePlace, Layout
  <2> QED BY <1>3, <2>1 DEF InodesOf, Now!Inode, InodeBlock
<1>5. \A b \in Now!DataBlock : data_region_addr + b \in D!Block \ {1}
  BY Layout
<1>6. DataOf(new) = DataOf(disk)
  BY <1>3, <1>5 DEF DataOf, Now!DataBlock
<1>7. new[data_bitmap_addr] = disk[data_bitmap_addr]
  BY <1>3, Layout
<1>8. \A b \in inode_region_addr .. data_region_addr - 1 : new[b] = disk[b]
  BY <1>3, Layout
<1>9. Shaped(new)
  BY <1>2, <1>3, <1>4, <1>5, <1>7, <1>8 DEF Shaped
<1>10. View(new) = InodeBitsIn(View(disk), X)
  BY <1>2, <1>4, <1>6, <1>7 DEF View, InodeBitsIn, DataBitsIn, InodeIn, DataIn
<1> QED BY <1>1, <1>9, <1>10

LEMMA PutDataBitmap ==
  ASSUME NEW disk, Shaped(disk), NEW X, X \subseteq Int,
         NEW new, new = Wrote(disk, data_bitmap_addr, X)
  PROVE  /\ data_bitmap_addr \in D!Block /\ X \in Content
         /\ Shaped(new)
         /\ View(new) = DataBitsIn(View(disk), X)
<1>1. data_bitmap_addr \in D!Block /\ X \in Content
  BY Layout DEF Content
<1>2. new \in [D!Block -> Content] /\ new[data_bitmap_addr] = X
  BY <1>1 DEF Shaped, Wrote
<1>3. \A b \in D!Block \ {2} : new[b] = disk[b]
  BY Layout DEF Shaped, Wrote
<1>4. InodesOf(new) = InodesOf(disk)
  <2>1. \A i \in Now!Inode : InodeBlock(i) \in D!Block \ {2}
    BY InodePlace, Layout
  <2> QED BY <1>3, <2>1 DEF InodesOf, Now!Inode, InodeBlock
<1>5. \A b \in Now!DataBlock : data_region_addr + b \in D!Block \ {2}
  BY Layout
<1>6. DataOf(new) = DataOf(disk)
  BY <1>3, <1>5 DEF DataOf, Now!DataBlock
<1>7. new[inode_bitmap_addr] = disk[inode_bitmap_addr]
  BY <1>3, Layout
<1>8. \A b \in inode_region_addr .. data_region_addr - 1 : new[b] = disk[b]
  BY <1>3, Layout
<1>9. Shaped(new)
  BY <1>2, <1>3, <1>4, <1>5, <1>7, <1>8 DEF Shaped
<1>10. View(new) = DataBitsIn(View(disk), X)
  BY <1>2, <1>4, <1>6, <1>7 DEF View, InodeBitsIn, DataBitsIn, InodeIn, DataIn
<1> QED BY <1>1, <1>9, <1>10

LEMMA PutInode ==
  ASSUME NEW disk, Shaped(disk), NEW i \in Now!Inode, NEW r \in Now!InodeRecord,
         NEW c, c = WroteInode(disk, i, r),
         NEW new, new = Wrote(disk, InodeBlock(i), c)
  PROVE  /\ InodeBlock(i) \in D!Block /\ c \in Content
         /\ Shaped(new)
         /\ View(new) = InodeIn(View(disk), i, r)
<1>1. /\ InodeBlock(i) \in inode_region_addr .. data_region_addr - 1
      /\ InodeBlock(i) \in D!Block
      /\ i % InodesPerBlock \in 0 .. InodesPerBlock - 1
  BY InodePlace, Layout
<1>2. c \in InodeBlocks
  BY <1>1 DEF Shaped, InodeBlocks, WroteInode
<1>3. new \in [D!Block -> Content] /\ new[InodeBlock(i)] = c
  <2>1. c \in Content
    BY <1>2 DEF Content
  <2> QED BY <1>1, <2>1 DEF Shaped, Wrote
<1>4. \A b \in D!Block \ {InodeBlock(i)} : new[b] = disk[b]
  BY <1>1 DEF Shaped, Wrote
<1>5. /\ new[inode_bitmap_addr] = disk[inode_bitmap_addr]
      /\ new[data_bitmap_addr] = disk[data_bitmap_addr]
  BY <1>1, <1>4, Layout
<1>6. \A b \in Now!DataBlock : new[data_region_addr + b] = disk[data_region_addr + b]
  BY <1>1, <1>4, Layout
<1>7. DataOf(new) = DataOf(disk)
  BY <1>6 DEF DataOf, Now!DataBlock
<1>8. ASSUME NEW j \in Now!Inode
      PROVE  new[InodeBlock(j)][j % InodesPerBlock] =
               IF j = i THEN r ELSE disk[InodeBlock(j)][j % InodesPerBlock]
  <2>1. CASE InodeBlock(j) # InodeBlock(i)
    <3>1. InodeBlock(j) \in D!Block \ {InodeBlock(i)}
      BY <2>1, InodePlace, Layout
    <3> QED BY <2>1, <3>1, <1>4
  <2>2. CASE InodeBlock(j) = InodeBlock(i)
    <3>1. j \div InodesPerBlock = i \div InodesPerBlock
      BY <2>2, InodePlace, Layout DEF InodeBlock
    <3>2. j = i <=> j % InodesPerBlock = i % InodesPerBlock
      BY <3>1, InodePlace
    <3>3. disk[InodeBlock(i)] \in InodeBlocks
      BY <1>1 DEF Shaped, Wrote
    <3>4. c[j % InodesPerBlock] = IF j = i THEN r ELSE disk[InodeBlock(i)][j % InodesPerBlock]
      BY <3>2, <3>3, InodePlace DEF InodeBlocks, WroteInode
    <3> QED BY <2>2, <3>4, <1>3
  <2> QED BY <2>1, <2>2
<1>9. InodesOf(new) = [InodesOf(disk) EXCEPT ![i] = r]
  BY <1>8 DEF InodesOf, InodeBlock, Now!Inode
<1>10. \A b \in inode_region_addr .. data_region_addr - 1 : new[b] \in InodeBlocks
  <2>1. \A b \in inode_region_addr .. data_region_addr - 1 : b \in D!Block
    BY Layout
  <2> QED BY <1>2, <1>3, <1>4, <2>1 DEF Shaped
<1>11. \A j \in Now!Inode : InodesOf(new)[j] \in Now!InodeRecord
  <2>1. InodesOf(disk) \in [Now!Inode -> Now!InodeRecord]
    BY DEF Shaped, InodesOf, Now!Inode
  <2> QED BY <1>9, <2>1
<1>12. Shaped(new)
  BY <1>3, <1>5, <1>6, <1>10, <1>11 DEF Shaped
<1>13. c \in Content
  BY <1>2 DEF Content
<1>14. View(new) = InodeIn(View(disk), i, r)
  BY <1>5, <1>7, <1>9 DEF View, InodeBitsIn, DataBitsIn, InodeIn, DataIn
<1> QED BY <1>1, <1>12, <1>13, <1>14

LEMMA PutData ==
  ASSUME NEW disk, Shaped(disk), NEW b \in Now!DataBlock, NEW c \in DataBlocks,
         NEW new, new = Wrote(disk, data_region_addr + b, c)
  PROVE  /\ data_region_addr + b \in D!Block /\ c \in Content
         /\ Shaped(new)
         /\ View(new) = DataIn(View(disk), b, c)
<1>1. data_region_addr + b \in D!Block /\ c \in Content
  <2>1. c \in Content
    BY DEF Content
  <2> QED BY <2>1, Layout
<1>2. new \in [D!Block -> Content] /\ new[data_region_addr + b] = c
  BY <1>1 DEF Shaped, Wrote
<1>3. \A x \in D!Block \ {data_region_addr + b} : new[x] = disk[x]
  BY DEF Shaped, Wrote
<1>4. \A x \in 0 .. data_region_addr - 1 : new[x] = disk[x]
  BY <1>3, Layout
<1>5. InodesOf(new) = InodesOf(disk)
  <2>1. \A i \in Now!Inode : InodeBlock(i) \in 0 .. data_region_addr - 1
    BY InodePlace, Layout
  <2> QED BY <1>4, <2>1 DEF InodesOf, Now!Inode, InodeBlock
<1>6. /\ new[inode_bitmap_addr] = disk[inode_bitmap_addr]
      /\ new[data_bitmap_addr] = disk[data_bitmap_addr]
      /\ \A x \in inode_region_addr .. data_region_addr - 1 : new[x] = disk[x]
  BY <1>4, Layout
<1>7. \A x \in Now!DataBlock :
        new[data_region_addr + x] = IF x = b THEN c ELSE disk[data_region_addr + x]
  BY <1>2, <1>3, Layout
<1>8. DataOf(new) = [DataOf(disk) EXCEPT ![b] = c]
  BY <1>7 DEF DataOf, Now!DataBlock
<1>9. Shaped(new)
  BY <1>2, <1>5, <1>6, <1>7 DEF Shaped
<1>10. View(new) = DataIn(View(disk), b, c)
  BY <1>5, <1>6, <1>8 DEF View, InodeBitsIn, DataBitsIn, InodeIn, DataIn
<1> QED BY <1>1, <1>9, <1>10
-----------------------------------------------------------------------------
(* Each operator has the same value in all instances that see the same image. *)

LEMMA LConstants ==
  /\ L!Inode = Now!Inode
  /\ L!DataBlock = Now!DataBlock
  /\ L!Slot = Now!Slot
  /\ L!Index = Now!Index
  /\ L!Pointer = Now!Pointer
  /\ L!Cell = Now!Cell
  /\ L!InodeRecord = Now!InodeRecord
  /\ L!UFS_DIRECTORY = Now!UFS_DIRECTORY
  /\ L!UFS_REGULAR_FILE = Now!UFS_REGULAR_FILE
  /\ L!NullPtr = Now!NullPtr
  /\ L!Unset = Now!Unset
  /\ L!UnusedBlock = Now!UnusedBlock
  /\ \A n : L!Blocks(n) = Now!Blocks(n)
  /\ \A m, n : L!Larger(m, n) = Now!Larger(m, n)
  /\ \A m, n : L!Smaller(m, n) = Now!Smaller(m, n)
  /\ \A n, i : L!Entry(n, i) = Now!Entry(n, i)
  /\ \A i, p : L!NewDirBlock(i, p) = Now!NewDirBlock(i, p)
  /\ \A v, n, x : L!FileBlock(v, n, x) = Now!FileBlock(v, n, x)
  BY DEF L!Inode, Now!Inode, L!DataBlock, Now!DataBlock, L!Slot, Now!Slot, L!Index, Now!Index,
     L!Pointer, Now!Pointer, L!Cell, Now!Cell, L!InodeRecord, Now!InodeRecord,
     L!UFS_DIRECTORY, Now!UFS_DIRECTORY, L!UFS_REGULAR_FILE, Now!UFS_REGULAR_FILE,
     L!NullPtr, Now!NullPtr, L!Unset, Now!Unset, L!Blocks, Now!Blocks, L!Larger,
     Now!Larger, L!Smaller, Now!Smaller, L!Entry, Now!Entry, L!NewDirBlock,
     Now!NewDirBlock, L!FileBlock, Now!FileBlock, L!UnusedBlock, Now!UnusedBlock

LEMMA StableConstants ==
  /\ Stable!Inode = Now!Inode
  /\ Stable!DataBlock = Now!DataBlock
  /\ Stable!Slot = Now!Slot
  /\ Stable!Index = Now!Index
  /\ Stable!Pointer = Now!Pointer
  /\ Stable!Cell = Now!Cell
  /\ Stable!InodeRecord = Now!InodeRecord
  /\ Stable!UFS_DIRECTORY = Now!UFS_DIRECTORY
  /\ Stable!UFS_REGULAR_FILE = Now!UFS_REGULAR_FILE
  /\ Stable!NullPtr = Now!NullPtr
  /\ Stable!Unset = Now!Unset
  /\ Stable!UnusedBlock = Now!UnusedBlock
  /\ \A n : Stable!Blocks(n) = Now!Blocks(n)
  /\ \A m, n : Stable!Larger(m, n) = Now!Larger(m, n)
  /\ \A m, n : Stable!Smaller(m, n) = Now!Smaller(m, n)
  /\ \A n, i : Stable!Entry(n, i) = Now!Entry(n, i)
  /\ \A i, p : Stable!NewDirBlock(i, p) = Now!NewDirBlock(i, p)
  /\ \A v, n, x : Stable!FileBlock(v, n, x) = Now!FileBlock(v, n, x)
  BY DEF Stable!Inode, Now!Inode, Stable!DataBlock, Now!DataBlock, Stable!Slot, Now!Slot,
     Stable!Index, Now!Index, Stable!Pointer, Now!Pointer, Stable!Cell, Now!Cell,
     Stable!InodeRecord, Now!InodeRecord, Stable!UFS_DIRECTORY, Now!UFS_DIRECTORY,
     Stable!UFS_REGULAR_FILE, Now!UFS_REGULAR_FILE, Stable!NullPtr, Now!NullPtr,
     Stable!Unset, Now!Unset, Stable!Blocks, Now!Blocks, Stable!Larger, Now!Larger,
     Stable!Smaller, Now!Smaller, Stable!Entry, Now!Entry, Stable!NewDirBlock,
     Now!NewDirBlock, Stable!FileBlock, Now!FileBlock, Stable!UnusedBlock, Now!UnusedBlock

LEMMA ImConstants ==
  ASSUME NEW disk
  PROVE  /\ Im(disk)!Inode = Now!Inode
         /\ Im(disk)!DataBlock = Now!DataBlock
         /\ Im(disk)!Slot = Now!Slot
         /\ Im(disk)!Index = Now!Index
         /\ Im(disk)!Pointer = Now!Pointer
         /\ Im(disk)!Cell = Now!Cell
         /\ Im(disk)!InodeRecord = Now!InodeRecord
         /\ Im(disk)!UFS_DIRECTORY = Now!UFS_DIRECTORY
         /\ Im(disk)!UFS_REGULAR_FILE = Now!UFS_REGULAR_FILE
         /\ Im(disk)!NullPtr = Now!NullPtr
         /\ Im(disk)!Unset = Now!Unset
         /\ Im(disk)!UnusedBlock = Now!UnusedBlock
         /\ \A n : Im(disk)!Blocks(n) = Now!Blocks(n)
         /\ \A m, n : Im(disk)!Larger(m, n) = Now!Larger(m, n)
         /\ \A m, n : Im(disk)!Smaller(m, n) = Now!Smaller(m, n)
         /\ \A n, i : Im(disk)!Entry(n, i) = Now!Entry(n, i)
         /\ \A i, p : Im(disk)!NewDirBlock(i, p) = Now!NewDirBlock(i, p)
         /\ \A v, n, x : Im(disk)!FileBlock(v, n, x) = Now!FileBlock(v, n, x)
  BY DEF Im!Inode, Now!Inode, Im!DataBlock, Now!DataBlock, Im!Slot, Now!Slot, Im!Index,
     Now!Index, Im!Pointer, Now!Pointer, Im!Cell, Now!Cell, Im!InodeRecord,
     Now!InodeRecord, Im!UFS_DIRECTORY, Now!UFS_DIRECTORY, Im!UFS_REGULAR_FILE,
     Now!UFS_REGULAR_FILE, Im!NullPtr, Now!NullPtr, Im!Unset, Now!Unset, Im!Blocks,
     Now!Blocks, Im!Larger, Now!Larger, Im!Smaller, Now!Smaller, Im!Entry, Now!Entry,
     Im!NewDirBlock, Now!NewDirBlock, Im!FileBlock, Now!FileBlock, Im!UnusedBlock,
     Now!UnusedBlock

LEMMA LReads ==
  /\ \A p : L!IsDirectory(p) = Im(stable)!IsDirectory(p)
  /\ \A p : L!IsFile(p) = Im(stable)!IsFile(p)
  /\ \A p : L!Allocated(p) = Im(stable)!Allocated(p)
  /\ \A p, k : L!EntryAt(p, k) = Im(stable)!EntryAt(p, k)
  /\ \A p : L!Positions(p) = Im(stable)!Positions(p)
  /\ \A p : L!Used(p) = Im(stable)!Used(p)
  /\ \A p, n : L!lookup(p, n) = Im(stable)!lookup(p, n)
  /\ \A p : L!CreatePosition(p) = Im(stable)!CreatePosition(p)
  /\ \A p : L!NeedsBlock(p) = Im(stable)!NeedsBlock(p)
  BY DEF L!IsDirectory, Im!IsDirectory, L!IsFile, Im!IsFile, L!Allocated, Im!Allocated,
     L!EntryAt, Im!EntryAt, L!Positions, Im!Positions, L!Used, Im!Used, L!lookup,
     Im!lookup, L!CreatePosition, Im!CreatePosition, L!NeedsBlock, Im!NeedsBlock, L!Inode,
     Im!Inode, L!Blocks, Im!Blocks, L!Min, Im!Min, L!Entry, Im!Entry, L!UFS_DIRECTORY,
     Im!UFS_DIRECTORY, L!UFS_REGULAR_FILE, Im!UFS_REGULAR_FILE, L!EINVALIDINODE,
     Im!EINVALIDINODE, L!ENOTFOUND, Im!ENOTFOUND

LEMMA StableReads ==
  /\ \A p : Stable!IsDirectory(p) = Im(stable)!IsDirectory(p)
  /\ \A p : Stable!IsFile(p) = Im(stable)!IsFile(p)
  /\ \A p : Stable!Allocated(p) = Im(stable)!Allocated(p)
  /\ \A p, k : Stable!EntryAt(p, k) = Im(stable)!EntryAt(p, k)
  /\ \A p : Stable!Positions(p) = Im(stable)!Positions(p)
  /\ \A p : Stable!Used(p) = Im(stable)!Used(p)
  /\ \A p, n : Stable!lookup(p, n) = Im(stable)!lookup(p, n)
  /\ \A p : Stable!CreatePosition(p) = Im(stable)!CreatePosition(p)
  /\ \A p : Stable!NeedsBlock(p) = Im(stable)!NeedsBlock(p)
  BY DEF Stable!IsDirectory, Im!IsDirectory, Stable!IsFile, Im!IsFile, Stable!Allocated,
     Im!Allocated, Stable!EntryAt, Im!EntryAt, Stable!Positions, Im!Positions,
     Stable!Used, Im!Used, Stable!lookup, Im!lookup, Stable!CreatePosition,
     Im!CreatePosition, Stable!NeedsBlock, Im!NeedsBlock, Stable!Inode, Im!Inode,
     Stable!Blocks, Im!Blocks, Stable!Min, Im!Min, Stable!Entry, Im!Entry,
     Stable!UFS_DIRECTORY, Im!UFS_DIRECTORY, Stable!UFS_REGULAR_FILE, Im!UFS_REGULAR_FILE,
     Stable!EINVALIDINODE, Im!EINVALIDINODE, Stable!ENOTFOUND, Im!ENOTFOUND

LEMMA NowReads ==
  /\ \A p : Now!IsDirectory(p) = Im(image)!IsDirectory(p)
  /\ \A p : Now!IsFile(p) = Im(image)!IsFile(p)
  /\ \A p, n : Now!lookup(p, n) = Im(image)!lookup(p, n)
  BY DEF Now!IsDirectory, Im!IsDirectory, Now!IsFile, Im!IsFile, Now!Allocated, Im!Allocated,
     Now!EntryAt, Im!EntryAt, Now!Positions, Im!Positions, Now!Used, Im!Used, Now!lookup,
     Im!lookup, Now!CreatePosition, Im!CreatePosition, Now!NeedsBlock, Im!NeedsBlock,
     Now!Inode, Im!Inode, Now!Blocks, Im!Blocks, Now!Min, Im!Min, Now!Entry, Im!Entry,
     Now!UFS_DIRECTORY, Im!UFS_DIRECTORY, Now!UFS_REGULAR_FILE, Im!UFS_REGULAR_FILE,
     Now!EINVALIDINODE, Im!EINVALIDINODE, Now!ENOTFOUND, Im!ENOTFOUND

LEMMA LUnlinks ==
  /\ \A p, n : L!UnlinkHits(p, n) = Im(stable)!UnlinkHits(p, n)
  /\ \A i : L!IsEmptyDirectory(i) = Im(stable)!IsEmptyDirectory(i)
  /\ \A p, n : L!UnlinkReturn(p, n) = Im(stable)!UnlinkReturn(p, n)
  /\ \A p, e, x : L!CompactedBlock(p, e, x) = Im(stable)!CompactedBlock(p, e, x)
  /\ \A p : L!Shortened(p) = Im(stable)!Shortened(p)
  /\ \A p, t : L!UnlinkFrees(p, t) = Im(stable)!UnlinkFrees(p, t)
  BY DEF L!UnlinkHits, Im!UnlinkHits, L!IsEmptyDirectory, Im!IsEmptyDirectory, L!UnlinkReturn,
     Im!UnlinkReturn, L!CompactedBlock, Im!CompactedBlock, L!Shortened, Im!Shortened,
     L!UnlinkFrees, Im!UnlinkFrees, L!Compacted, Im!Compacted, L!Slot, Im!Slot, L!Unset,
     Im!Unset, L!IsDirectory, Im!IsDirectory, L!IsFile, Im!IsFile, L!Allocated,
     Im!Allocated, L!EntryAt, Im!EntryAt, L!Positions, Im!Positions, L!Used, Im!Used,
     L!lookup, Im!lookup, L!CreatePosition, Im!CreatePosition, L!NeedsBlock,
     Im!NeedsBlock, L!Inode, Im!Inode, L!Blocks, Im!Blocks, L!Min, Im!Min, L!Entry,
     Im!Entry, L!UFS_DIRECTORY, Im!UFS_DIRECTORY, L!UFS_REGULAR_FILE, Im!UFS_REGULAR_FILE,
     L!EINVALIDINODE, Im!EINVALIDINODE, L!ENOTFOUND, Im!ENOTFOUND, L!EUNLINKNOTALLOWED,
     Im!EUNLINKNOTALLOWED, L!EINVALIDNAME, Im!EINVALIDNAME, L!EDIRNOTEMPTY,
     Im!EDIRNOTEMPTY

LEMMA StableUnlinks ==
  /\ \A p, n : Stable!UnlinkHits(p, n) = Im(stable)!UnlinkHits(p, n)
  /\ \A i : Stable!IsEmptyDirectory(i) = Im(stable)!IsEmptyDirectory(i)
  /\ \A p, n : Stable!UnlinkReturn(p, n) = Im(stable)!UnlinkReturn(p, n)
  /\ \A p, e, x : Stable!CompactedBlock(p, e, x) = Im(stable)!CompactedBlock(p, e, x)
  /\ \A p : Stable!Shortened(p) = Im(stable)!Shortened(p)
  /\ \A p, t : Stable!UnlinkFrees(p, t) = Im(stable)!UnlinkFrees(p, t)
  BY DEF Stable!UnlinkHits, Im!UnlinkHits, Stable!IsEmptyDirectory, Im!IsEmptyDirectory,
     Stable!UnlinkReturn, Im!UnlinkReturn, Stable!CompactedBlock, Im!CompactedBlock,
     Stable!Shortened, Im!Shortened, Stable!UnlinkFrees, Im!UnlinkFrees, Stable!Compacted,
     Im!Compacted, Stable!Slot, Im!Slot, Stable!Unset, Im!Unset, Stable!IsDirectory,
     Im!IsDirectory, Stable!IsFile, Im!IsFile, Stable!Allocated, Im!Allocated,
     Stable!EntryAt, Im!EntryAt, Stable!Positions, Im!Positions, Stable!Used, Im!Used,
     Stable!lookup, Im!lookup, Stable!CreatePosition, Im!CreatePosition,
     Stable!NeedsBlock, Im!NeedsBlock, Stable!Inode, Im!Inode, Stable!Blocks, Im!Blocks,
     Stable!Min, Im!Min, Stable!Entry, Im!Entry, Stable!UFS_DIRECTORY, Im!UFS_DIRECTORY,
     Stable!UFS_REGULAR_FILE, Im!UFS_REGULAR_FILE, Stable!EINVALIDINODE, Im!EINVALIDINODE,
     Stable!ENOTFOUND, Im!ENOTFOUND, Stable!EUNLINKNOTALLOWED, Im!EUNLINKNOTALLOWED,
     Stable!EINVALIDNAME, Im!EINVALIDNAME, Stable!EDIRNOTEMPTY, Im!EDIRNOTEMPTY

LEMMA LCreates ==
  /\ \A p, b : L!Extended(p, b) = Im(stable)!Extended(p, b)
  /\ \A i, t, b : L!Created(i, t, b) = Im(stable)!Created(i, t, b)
  /\ \A p, home, n, i : L!WithEntry(p, home, n, i) = Im(stable)!WithEntry(p, home, n, i)
  BY DEF L!Extended, Im!Extended, L!Created, Im!Created, L!WithEntry, Im!WithEntry,
     L!CreateReturn, Im!CreateReturn, L!CreateBlocks, Im!CreateBlocks, L!CreateHasRoom,
     Im!CreateHasRoom, L!LowestFree, Im!LowestFree, L!WriteReturn, Im!WriteReturn,
     L!Repointed, Im!Repointed, L!WriteFrees, Im!WriteFrees, L!FreeBlocks, Im!FreeBlocks,
     L!DataBlock, Im!DataBlock, L!Index, Im!Index, L!UnusedBlock, Im!UnusedBlock, L!Slot,
     Im!Slot, L!Cardinality, Im!Cardinality, L!Larger, Im!Larger, L!Unset, Im!Unset,
     L!IsDirectory, Im!IsDirectory, L!IsFile, Im!IsFile, L!Allocated, Im!Allocated,
     L!EntryAt, Im!EntryAt, L!Positions, Im!Positions, L!Used, Im!Used, L!lookup,
     Im!lookup, L!CreatePosition, Im!CreatePosition, L!NeedsBlock, Im!NeedsBlock, L!Inode,
     Im!Inode, L!Blocks, Im!Blocks, L!Min, Im!Min, L!Entry, Im!Entry, L!UFS_DIRECTORY,
     Im!UFS_DIRECTORY, L!UFS_REGULAR_FILE, Im!UFS_REGULAR_FILE, L!EINVALIDINODE,
     Im!EINVALIDINODE, L!ENOTFOUND, Im!ENOTFOUND, L!EUNLINKNOTALLOWED,
     Im!EUNLINKNOTALLOWED, L!EINVALIDNAME, Im!EINVALIDNAME, L!EDIRNOTEMPTY,
     Im!EDIRNOTEMPTY, L!ENOTENOUGHSPACE, Im!ENOTENOUGHSPACE, L!EINVALIDTYPE,
     Im!EINVALIDTYPE, L!EINVALIDSIZE, Im!EINVALIDSIZE, L!EWRITETODIR, Im!EWRITETODIR

LEMMA StableCreates ==
  /\ \A p, b : Stable!Extended(p, b) = Im(stable)!Extended(p, b)
  /\ \A i, t, b : Stable!Created(i, t, b) = Im(stable)!Created(i, t, b)
  /\ \A p, home, n, i : Stable!WithEntry(p, home, n, i) = Im(stable)!WithEntry(p, home, n, i)
  /\ \A p, t, n : Stable!CreateReturn(p, t, n) = Im(stable)!CreateReturn(p, t, n)
  /\ \A p, t : Stable!CreateBlocks(p, t) = Im(stable)!CreateBlocks(p, t)
  /\ \A p, t : Stable!CreateHasRoom(p, t) = Im(stable)!CreateHasRoom(p, t)
  /\ \A k : Stable!LowestFree(k) = Im(stable)!LowestFree(k)
  /\ \A i, n : Stable!WriteReturn(i, n) = Im(stable)!WriteReturn(i, n)
  /\ \A i, n, f : Stable!Repointed(i, n, f) = Im(stable)!Repointed(i, n, f)
  /\ \A i, n : Stable!WriteFrees(i, n) = Im(stable)!WriteFrees(i, n)
<1>1. /\ \A p, b : Stable!Extended(p, b) = Im(stable)!Extended(p, b)
      /\ \A i, t, b : Stable!Created(i, t, b) = Im(stable)!Created(i, t, b)
      /\ \A p, home, n, i : Stable!WithEntry(p, home, n, i) = Im(stable)!WithEntry(p, home, n, i)
  BY DEF Im!Extended, Stable!Extended, Im!Created, Stable!Created, Im!WithEntry, Stable!WithEntry,
     Im!UnusedBlock, Stable!UnusedBlock, Im!CreatePosition, Stable!CreatePosition, Im!NeedsBlock,
     Stable!NeedsBlock, Im!lookup, Stable!lookup, Im!Positions, Stable!Positions, Im!Larger,
     Stable!Larger, Im!Cardinality, Stable!Cardinality, Im!Index, Stable!Index, Im!Unset,
     Stable!Unset, Im!FreeBlocks, Stable!FreeBlocks, Im!Allocated, Stable!Allocated,
     Im!IsDirectory, Stable!IsDirectory, Im!IsFile, Stable!IsFile, Im!EntryAt, Stable!EntryAt,
     Im!Inode, Stable!Inode, Im!DataBlock, Stable!DataBlock, Im!Slot, Stable!Slot, Im!Blocks,
     Stable!Blocks, Im!Min, Stable!Min, Im!Entry, Stable!Entry, Im!UFS_DIRECTORY,
     Stable!UFS_DIRECTORY, Im!UFS_REGULAR_FILE, Stable!UFS_REGULAR_FILE, Im!EINVALIDINODE,
     Stable!EINVALIDINODE
<1>2. /\ \A p, t, n : Stable!CreateReturn(p, t, n) = Im(stable)!CreateReturn(p, t, n)
      /\ \A p, t : Stable!CreateBlocks(p, t) = Im(stable)!CreateBlocks(p, t)
      /\ \A p, t : Stable!CreateHasRoom(p, t) = Im(stable)!CreateHasRoom(p, t)
  BY DEF Im!CreateReturn, Stable!CreateReturn, Im!CreateBlocks, Stable!CreateBlocks,
     Im!CreateHasRoom, Stable!CreateHasRoom, Im!ENOTFOUND, Stable!ENOTFOUND, Im!EINVALIDNAME,
     Stable!EINVALIDNAME, Im!EINVALIDTYPE, Stable!EINVALIDTYPE, Im!ENOTENOUGHSPACE,
     Stable!ENOTENOUGHSPACE, Im!CreatePosition, Stable!CreatePosition, Im!NeedsBlock,
     Stable!NeedsBlock, Im!lookup, Stable!lookup, Im!Positions, Stable!Positions, Im!Larger,
     Stable!Larger, Im!Cardinality, Stable!Cardinality, Im!Index, Stable!Index, Im!Unset,
     Stable!Unset, Im!FreeBlocks, Stable!FreeBlocks, Im!Allocated, Stable!Allocated,
     Im!IsDirectory, Stable!IsDirectory, Im!IsFile, Stable!IsFile, Im!EntryAt, Stable!EntryAt,
     Im!Inode, Stable!Inode, Im!DataBlock, Stable!DataBlock, Im!Slot, Stable!Slot, Im!Blocks,
     Stable!Blocks, Im!Min, Stable!Min, Im!Entry, Stable!Entry, Im!UFS_DIRECTORY,
     Stable!UFS_DIRECTORY, Im!UFS_REGULAR_FILE, Stable!UFS_REGULAR_FILE, Im!EINVALIDINODE,
     Stable!EINVALIDINODE
<1>3. \A k : Stable!LowestFree(k) = Im(stable)!LowestFree(k)
  BY DEF Im!LowestFree, Stable!LowestFree, Im!FreeBlocks, Stable!FreeBlocks, Im!DataBlock,
     Stable!DataBlock
<1>4. \A i, n : Stable!WriteReturn(i, n) = Im(stable)!WriteReturn(i, n)
  BY DEF Im!WriteReturn, Stable!WriteReturn, Im!EINVALIDSIZE, Stable!EINVALIDSIZE,
     Im!ENOTENOUGHSPACE, Stable!ENOTENOUGHSPACE, Im!EWRITETODIR, Stable!EWRITETODIR, Im!FreeBlocks,
     Stable!FreeBlocks, Im!Cardinality, Stable!Cardinality, Im!Allocated, Stable!Allocated,
     Im!IsDirectory, Stable!IsDirectory, Im!IsFile, Stable!IsFile, Im!EntryAt, Stable!EntryAt,
     Im!Inode, Stable!Inode, Im!DataBlock, Stable!DataBlock, Im!Slot, Stable!Slot, Im!Blocks,
     Stable!Blocks, Im!Min, Stable!Min, Im!Entry, Stable!Entry, Im!UFS_DIRECTORY,
     Stable!UFS_DIRECTORY, Im!UFS_REGULAR_FILE, Stable!UFS_REGULAR_FILE, Im!EINVALIDINODE,
     Stable!EINVALIDINODE
<1>5. /\ \A i, n, f : Stable!Repointed(i, n, f) = Im(stable)!Repointed(i, n, f)
      /\ \A i, n : Stable!WriteFrees(i, n) = Im(stable)!WriteFrees(i, n)
  BY DEF Im!Repointed, Stable!Repointed, Im!WriteFrees, Stable!WriteFrees, Im!Index, Stable!Index,
     Im!Unset, Stable!Unset, Im!Blocks, Stable!Blocks
<1> QED BY <1>1, <1>2, <1>3, <1>4, <1>5
-----------------------------------------------------------------------------
(* What the calls need to know of the image they begin with.               *)

Typed(disk) ==
  /\ disk[inode_bitmap_addr] \subseteq Now!Inode
  /\ disk[data_bitmap_addr] \subseteq Now!DataBlock
  /\ InodesOf(disk) \in [Now!Inode -> Now!InodeRecord]
  /\ DataOf(disk) \in [Now!DataBlock -> DataBlocks]

\* The pointers below the sizes lead to different blocks in use.
Owned(disk) ==
  \A i \in disk[inode_bitmap_addr], x \in Nat :
    x < Now!Blocks(InodesOf(disk)[i].size) =>
      /\ x \in Now!Index
      /\ InodesOf(disk)[i].direct[x] \in disk[data_bitmap_addr]
      /\ \A j \in disk[inode_bitmap_addr], y \in Nat :
           /\ y < Now!Blocks(InodesOf(disk)[j].size)
           /\ InodesOf(disk)[j].direct[y] = InodesOf(disk)[i].direct[x]
           => i = j /\ x = y

PlacesFit(disk) ==
  \A p \in disk[inode_bitmap_addr] : \A k : k = Im(disk)!CreatePosition(p) =>
    /\ k \in Nat /\ k \div UFS_BLOCK_SIZE \in Nat /\ k % UFS_BLOCK_SIZE \in Now!Slot
    /\ Im(disk)!NeedsBlock(p) => k \div UFS_BLOCK_SIZE = Now!Blocks(InodesOf(disk)[p].size)
    /\ ~Im(disk)!NeedsBlock(p) => k \div UFS_BLOCK_SIZE < Now!Blocks(InodesOf(disk)[p].size)
    /\ Im(disk)!NeedsBlock(p) => ~(k + 1 <= InodesOf(disk)[p].size)

TargetsFit(disk) ==
  \A p \in Now!Inode, n \in Names \cup {LongName} : \A e, t :
    /\ Im(disk)!UnlinkReturn(p, n) = 0
    /\ e = Min(Im(disk)!UnlinkHits(p, n))
    /\ t = Im(disk)!EntryAt(p, e).inum
    => /\ p \in disk[inode_bitmap_addr]
       /\ InodesOf(disk)[p].size >= 2
       /\ e \in Nat
       /\ t \in disk[inode_bitmap_addr] /\ t # p
       /\ \A x \in 0 .. Now!Blocks(InodesOf(disk)[p].size - 1) - 1 :
            Im(disk)!CompactedBlock(p, e, x) \in DataBlocks

Sound(disk) == Typed(disk) /\ Owned(disk) /\ PlacesFit(disk) /\ TargetsFit(disk)

LEMMA MinIsMin == \A S : L!Min(S) = Min(S) /\ Stable!Min(S) = Min(S) /\ Now!Min(S) = Min(S)
  BY DEF L!Min, Min, Stable!Min, Now!Min

LEMMA MinOfNaturals ==
  ASSUME NEW S, S \subseteq Nat, S # {}
  PROVE  Min(S) \in S /\ \A y \in S : Min(S) <= y
  BY L!MinOfNaturals, Assumptions, MinIsMin

LEMMA BlocksBound ==
  ASSUME NEW n \in Nat, NEW q \in Nat
  PROVE  /\ Now!Blocks(n) \in Nat
         /\ Now!Blocks(n) <= q <=> n <= q * UFS_BLOCK_SIZE
  BY L!BlocksBound, Assumptions, LConstants

LEMMA TypedFromL == L!IInv => Typed(stable)
  BY LConstants DEF L!IInv, L!TypeOK, Typed, DataBlocks

LEMMA OwnedFromL == L!IInv => Owned(stable)
<1> SUFFICES ASSUME L!IInv, NEW i \in stable[inode_bitmap_addr], NEW x \in Nat,
                    x < Now!Blocks(InodesOf(stable)[i].size)
             PROVE  /\ x \in Now!Index
                    /\ InodesOf(stable)[i].direct[x] \in stable[data_bitmap_addr]
                    /\ \A j \in stable[inode_bitmap_addr], y \in Nat :
                         /\ y < Now!Blocks(InodesOf(stable)[j].size)
                         /\ InodesOf(stable)[j].direct[y] = InodesOf(stable)[i].direct[x]
                         => i = j /\ x = y
  BY DEF Owned
<1>1. ASSUME NEW j \in stable[inode_bitmap_addr], NEW y \in Nat,
             y < Now!Blocks(InodesOf(stable)[j].size)
      PROVE  /\ y \in Now!Index
             /\ <<j, y>> \in L!Held
             /\ L!Ptr(<<j, y>>) = InodesOf(stable)[j].direct[y]
             /\ InodesOf(stable)[j].direct[y] \in stable[data_bitmap_addr]
  <2>1. y < L!Blocks(InodesOf(stable)[j].size)
    BY <1>1, LConstants
  <2>2. /\ y \in L!Index /\ <<j, y>> \in L!Held
        /\ InodesOf(stable)[j].direct[y] \in stable[data_bitmap_addr]
    BY <2>1, L!OwnedPointer, Assumptions
  <2> QED BY <2>2, LConstants DEF L!Ptr
<1>2. \A o, q \in L!Held : L!Ptr(o) = L!Ptr(q) => o = q
  BY DEF L!IInv, L!BitmapIsExact
<1>3. ASSUME NEW j \in stable[inode_bitmap_addr], NEW y \in Nat,
             y < Now!Blocks(InodesOf(stable)[j].size),
             InodesOf(stable)[j].direct[y] = InodesOf(stable)[i].direct[x]
      PROVE  i = j /\ x = y
  <2>1. <<i, x>> \in L!Held /\ L!Ptr(<<i, x>>) = InodesOf(stable)[i].direct[x]
    BY <1>1
  <2>2. <<j, y>> \in L!Held /\ L!Ptr(<<j, y>>) = InodesOf(stable)[j].direct[y]
    BY <1>1, <1>3
  <2>3. <<j, y>> = <<i, x>>
    BY <1>2, <1>3, <2>1, <2>2
  <2> QED BY <2>3
<1> QED BY <1>1, <1>3

LEMMA PlacesFromL == L!IInv => PlacesFit(stable)
<1> SUFFICES ASSUME L!IInv, NEW p \in stable[inode_bitmap_addr],
                    NEW k, k = Im(stable)!CreatePosition(p)
             PROVE  /\ k \in Nat /\ k \div UFS_BLOCK_SIZE \in Nat /\ k % UFS_BLOCK_SIZE \in Now!Slot
                    /\ Im(stable)!NeedsBlock(p) =>
                         k \div UFS_BLOCK_SIZE = Now!Blocks(InodesOf(stable)[p].size)
                    /\ ~Im(stable)!NeedsBlock(p) =>
                         k \div UFS_BLOCK_SIZE < Now!Blocks(InodesOf(stable)[p].size)
                    /\ Im(stable)!NeedsBlock(p) => ~(k + 1 <= InodesOf(stable)[p].size)
  BY DEF PlacesFit
<1>1. k = L!CreatePosition(p)
  BY LReads
<1>2. PICK q : q = L!Blocks(InodesOf(stable)[p].size)
  OBVIOUS
<1>3. /\ k \in Nat /\ k \div UFS_BLOCK_SIZE \in Nat /\ k % UFS_BLOCK_SIZE \in L!Slot
      /\ L!NeedsBlock(p) =>
           /\ k \div UFS_BLOCK_SIZE = q
           /\ L!Blocks(L!Larger(InodesOf(stable)[p].size, k + 1)) = q + 1
      /\ ~L!NeedsBlock(p) => k \div UFS_BLOCK_SIZE < q
  BY <1>1, <1>2, L!CreatePlace, Assumptions, ZenonT(60)
<1>4. InodesOf(stable)[p].size \in Nat
  BY TypedFromL DEF Typed, Now!InodeRecord
<1>5. q \in Nat
  BY <1>2, <1>4, LConstants, BlocksBound
<1>6. ASSUME k + 1 <= InodesOf(stable)[p].size, L!NeedsBlock(p) PROVE FALSE
  <2>1. L!Larger(InodesOf(stable)[p].size, k + 1) = InodesOf(stable)[p].size
    BY <1>3, <1>4, <1>6 DEF L!Larger
  <2> QED BY <1>2, <1>3, <1>5, <1>6, <2>1
<1> QED BY <1>2, <1>3, <1>6, LReads, LConstants

LEMMA TargetsFromL == L!IInv => TargetsFit(stable)
<1> SUFFICES ASSUME L!IInv, NEW p \in Now!Inode, NEW n \in Names \cup {LongName}, NEW e, NEW t,
                    Im(stable)!UnlinkReturn(p, n) = 0,
                    e = Min(Im(stable)!UnlinkHits(p, n)),
                    t = Im(stable)!EntryAt(p, e).inum
             PROVE  /\ p \in stable[inode_bitmap_addr]
                    /\ InodesOf(stable)[p].size >= 2
                    /\ e \in Nat
                    /\ t \in stable[inode_bitmap_addr] /\ t # p
                    /\ \A x \in 0 .. Now!Blocks(InodesOf(stable)[p].size - 1) - 1 :
                         Im(stable)!CompactedBlock(p, e, x) \in DataBlocks
  BY DEF TargetsFit
<1>1. p \in L!InodeArg /\ n \in L!NameArg
  <2>1. p \in L!InodeArg
    BY SizesAssumption DEF Now!Inode, L!InodeArg
  <2> QED BY <2>1 DEF L!NameArg
<1>2. /\ L!UnlinkReturn(p, n) = 0
      /\ e = L!Min(L!UnlinkHits(p, n))
      /\ t = L!EntryAt(p, e).inum
  BY LReads, LUnlinks, MinIsMin
<1>3. /\ p \in stable[inode_bitmap_addr]
      /\ InodesOf(stable)[p].size >= 2
      /\ e \in Nat
      /\ t \in stable[inode_bitmap_addr] /\ t # p
  BY <1>1, <1>2, L!UnlinkChecks, Assumptions
<1>4. ASSUME NEW x \in 0 .. Now!Blocks(InodesOf(stable)[p].size - 1) - 1
      PROVE  Im(stable)!CompactedBlock(p, e, x) \in DataBlocks
  <2>1. x \in 0 .. L!Blocks(InodesOf(stable)[p].size - 1) - 1
    BY LConstants
  <2>2. L!CompactedBlock(p, e, x) \in [L!Slot -> L!Cell]
    BY <1>3, <2>1, L!CompactedIsTyped, Assumptions
  <2> QED BY <2>2, LUnlinks, LConstants DEF DataBlocks
<1> QED BY <1>3, <1>4

LEMMA SoundFromL == L!IInv => Sound(stable)
  BY TypedFromL, OwnedFromL, PlacesFromL, TargetsFromL DEF Sound
-----------------------------------------------------------------------------
(* The calls: what they are, and how far they have come at each place.     *)

CreateCall ==
  [op : {"create"}, inum : Now!Inode, name : Names,
   type : {Now!UFS_DIRECTORY, Now!UFS_REGULAR_FILE},
   at : {"block", "inum", "dots", "entry", "grow", "parent", "init", "commit", "fail", "rollback"},
   block : Now!DataBlock \cup {None}, new : Now!Inode \cup {None}, more : Now!DataBlock \cup {None}]

WriteCall ==
  [op : {"write"}, inum : Now!Inode, value : Values, size : Sizes, inode : Now!InodeRecord,
   at : {"alloc", "free", "inode", "data", "commit", "fail", "rollback"}, x : Nat, last : Nat]

UnlinkCall ==
  [op : {"unlink"}, inum : Now!Inode, name : Names \cup {LongName},
   at : {"find", "compact", "shrink", "shorten", "bits", "bit", "commit", "fail", "rollback"},
   x : Nat, new : Now!Inode \cup {None}]

Lowest(x, S) == x \in S /\ \A y \in S : x <= y

\* create: the position in the pointers of the parent, and the block behind it.
HomeIndex(disk, p) == Im(disk)!CreatePosition(p) \div UFS_BLOCK_SIZE

HomeBlock(disk, c) ==
  IF Im(disk)!NeedsBlock(c.inum) THEN c.more
  ELSE InodesOf(disk)[c.inum].direct[HomeIndex(disk, c.inum)]

CreateChecked(disk, c) ==
  /\ Im(disk)!IsDirectory(c.inum)
  /\ Im(disk)!lookup(c.inum, c.name) = -Now!ENOTFOUND
  /\ c.at \in {"block", "dots"} => c.type = Now!UFS_DIRECTORY
  /\ c.at = "grow" => Im(disk)!NeedsBlock(c.inum)
  /\ c.at = "parent" => InodesOf(disk)[c.inum].size < Im(disk)!CreatePosition(c.inum) + 1

\* What it has taken from the bitmaps.
CreateTook(disk, c) ==
  LET s == View(disk)
  IN /\ IF c.type = Now!UFS_DIRECTORY /\ c.at # "block"
        THEN Lowest(c.block, Now!DataBlock \ s.db) ELSE c.block = None
     /\ IF c.at \notin {"block", "inum"}
        THEN Lowest(c.new, Now!Inode \ s.ib) ELSE c.new = None
     /\ IF Im(disk)!NeedsBlock(c.inum) /\ c.at \in {"grow", "parent", "init", "commit"}
        THEN Lowest(c.more, Now!DataBlock \ (s.db \cup {c.block})) /\ HomeIndex(disk, c.inum) < DIRECT_PTRS
        ELSE c.more = None

CreateData(disk, c) ==
  [b \in Now!DataBlock |->
     IF c.at \in {"parent", "init", "commit"} /\ b = HomeBlock(disk, c)
       THEN Im(disk)!WithEntry(c.inum, b, c.name, c.new)
     ELSE IF c.at \in {"entry", "grow", "parent", "init", "commit"} /\ b = c.block
       THEN Now!NewDirBlock(c.new, c.inum)
     ELSE DataOf(disk)[b]]

CreateNodes(disk, c) ==
  LET parent == [InodesOf(disk) EXCEPT ![c.inum] = Im(disk)!Extended(c.inum, c.more)]
  IN CASE c.at = "init" -> parent
       [] c.at = "commit" -> [parent EXCEPT ![c.new] = Im(disk)!Created(c.new, c.type, c.block)]
       [] OTHER -> InodesOf(disk)

CreateFits(disk, c, v) ==
  /\ CreateChecked(disk, c)
  /\ CreateTook(disk, c)
  /\ v = [ib |-> disk[inode_bitmap_addr] \cup ({c.new} \ {None}),
          db |-> disk[data_bitmap_addr] \cup ({c.block, c.more} \ {None}),
          nodes |-> CreateNodes(disk, c),
          data |-> CreateData(disk, c)]

\* write: positions of the pointers that have got a block so far, that have
\* lost theirs, and whose blocks are written.
WriteTaken(disk, c) ==
  Now!Blocks(InodesOf(disk)[c.inum].size) ..
    (IF c.at = "alloc" THEN c.x ELSE Now!Blocks(c.size)) - 1

WriteGiven(disk, c) ==
  Now!Blocks(c.size) ..
    (IF c.at = "free" THEN c.x ELSE Now!Blocks(InodesOf(disk)[c.inum].size)) - 1

WriteFilled(disk, c) ==
  0 .. (CASE c.at = "data" -> c.x [] c.at = "commit" -> Now!Blocks(c.size) [] OTHER -> 0) - 1

WriteChecked(disk, c) ==
  LET now == Now!Blocks(InodesOf(disk)[c.inum].size)
      cntOfBlock == Now!Blocks(c.size)
  IN /\ Im(disk)!IsFile(c.inum)
     /\ c.size > 0 /\ cntOfBlock <= DIRECT_PTRS
     /\ c.at = "alloc" => now <= c.x /\ c.x < cntOfBlock
     /\ c.at = "free" => cntOfBlock <= c.x /\ c.x < now /\ c.last = now
     /\ c.at = "data" => c.x < cntOfBlock

\* The blocks it has taken are the lowest free ones, in this order.
WriteTook(disk, c) ==
  /\ \A y \in WriteTaken(disk, c) :
       /\ c.inode.direct[y] \in Now!DataBlock \ disk[data_bitmap_addr]
       /\ \A b \in Now!DataBlock \ disk[data_bitmap_addr] :
            b < c.inode.direct[y] <=> \E z \in WriteTaken(disk, c) : z < y /\ c.inode.direct[z] = b
  /\ c.inode.type = Now!UFS_REGULAR_FILE
  /\ c.inode.size = InodesOf(disk)[c.inum].size
  /\ \A y \in Now!Index \ WriteTaken(disk, c) :
       c.inode.direct[y] = IF y \in WriteGiven(disk, c) THEN Now!Unset
                           ELSE InodesOf(disk)[c.inum].direct[y]

WriteNodes(disk, c) ==
  IF c.at \in {"data", "commit"}
  THEN [InodesOf(disk) EXCEPT ![c.inum] = [c.inode EXCEPT !.size = c.size]]
  ELSE InodesOf(disk)

WriteData1(disk, c, data) ==
  /\ \A y \in WriteFilled(disk, c) :
       data[c.inode.direct[y]] = Now!FileBlock(c.value, c.size, y)
  /\ \A b \in Now!DataBlock :
       (\A y \in WriteFilled(disk, c) : c.inode.direct[y] # b) => data[b] = DataOf(disk)[b]

WriteFits(disk, c, v) ==
  /\ WriteChecked(disk, c)
  /\ WriteTook(disk, c)
  /\ v.ib = disk[inode_bitmap_addr]
  /\ v.db = (disk[data_bitmap_addr] \cup {c.inode.direct[y] : y \in WriteTaken(disk, c)})
              \ {InodesOf(disk)[c.inum].direct[y] : y \in WriteGiven(disk, c)}
  /\ v.nodes = WriteNodes(disk, c)
  /\ WriteData1(disk, c, v.data)

\* unlink: positions of the blocks of the parent that are written, the bits of
\* the parent and of the target that are cleared.
Shorter(disk, p) == Now!Blocks(InodesOf(disk)[p].size - 1)

UnlinkMoved(disk, c) ==
  0 .. (CASE c.at = "find" -> 0 [] c.at = "compact" -> c.x [] OTHER -> Shorter(disk, c.inum)) - 1

UnlinkCut(disk, c) ==
  IF c.at \in {"find", "compact", "shrink"} THEN {}
  ELSE {InodesOf(disk)[c.inum].direct[x] :
          x \in Shorter(disk, c.inum) .. Now!Blocks(InodesOf(disk)[c.inum].size) - 1}

UnlinkGone(disk, c) ==
  CASE c.at = "bits" -> {InodesOf(disk)[c.new].direct[x] : x \in 0 .. c.x - 1}
    [] c.at \in {"bit", "commit"} ->
         {InodesOf(disk)[c.new].direct[x] : x \in 0 .. Now!Blocks(InodesOf(disk)[c.new].size) - 1}
    [] OTHER -> {}

UnlinkChecked(disk, c) ==
  /\ c.at # "find" =>
       /\ Im(disk)!UnlinkReturn(c.inum, c.name) = 0
       /\ c.new = Im(disk)!EntryAt(c.inum, Min(Im(disk)!UnlinkHits(c.inum, c.name))).inum
  /\ c.at = "find" => c.x = 0
  /\ c.at = "compact" => c.x < Shorter(disk, c.inum)
  /\ c.at = "shrink" => Now!Blocks(InodesOf(disk)[c.inum].size) # Shorter(disk, c.inum)
  /\ c.at = "bits" => c.x < Now!Blocks(InodesOf(disk)[c.new].size)

UnlinkData(disk, c, data) ==
  /\ \A y \in UnlinkMoved(disk, c) :
       data[InodesOf(disk)[c.inum].direct[y]] =
         Im(disk)!CompactedBlock(c.inum, Min(Im(disk)!UnlinkHits(c.inum, c.name)), y)
  /\ \A b \in Now!DataBlock :
       (\A y \in UnlinkMoved(disk, c) : InodesOf(disk)[c.inum].direct[y] # b) => data[b] = DataOf(disk)[b]

UnlinkFits(disk, c, v) ==
  /\ UnlinkChecked(disk, c)
  /\ v.ib = disk[inode_bitmap_addr] \ (IF c.at = "commit" THEN {c.new} ELSE {})
  /\ v.db = disk[data_bitmap_addr] \ (UnlinkCut(disk, c) \cup UnlinkGone(disk, c))
  /\ v.nodes = (IF c.at \in {"bits", "bit", "commit"}
                THEN [InodesOf(disk) EXCEPT ![c.inum] = Im(disk)!Shortened(c.inum)]
                ELSE InodesOf(disk))
  /\ UnlinkData(disk, c, v.data)

\* A call that has not failed has done what its place says.
Fits(disk, c, v) ==
  c.at # "fail" =>
    \/ c \in CreateCall /\ CreateFits(disk, c, v)
    \/ c \in WriteCall /\ WriteFits(disk, c, v)
    \/ c \in UnlinkCall /\ UnlinkFits(disk, c, v)

Calling == call \in CreateCall \cup WriteCall \cup UnlinkCall

Device == DD!IInv /\ alive /\ L!IInv /\ Shaped(stable)

Resting == call = Idle /\ ~isInTransaction /\ iter = 0

Working ==
  /\ Calling /\ call.at # "rollback"
  /\ isInTransaction /\ iter = 0
  /\ Shaped(image)
  /\ Fits(stable, call, View(image))

Undoing == Calling /\ call.at = "rollback" /\ ~isInTransaction /\ iter > 0

SInv == Device /\ (Resting \/ Working \/ Undoing)
-----------------------------------------------------------------------------
(* The device.                                                             *)

LEMMA DiskSteps ==
  /\ \A b, c : D!WriteBlock(b, c) <=> DD!WriteBlock(b, c)
  /\ D!BeginTransaction <=> DD!BeginTransaction
  /\ D!Commit <=> DD!Commit
  /\ D!Rollback <=> DD!Rollback
  /\ D!UndoOne <=> DD!UndoOne
  /\ D!EndRollback <=> DD!EndRollback
  BY DEF D!WriteBlock, DD!WriteBlock, D!BeginTransaction, DD!BeginTransaction, D!Commit, DD!Commit,
     D!Rollback, DD!Rollback, D!UndoOne, DD!UndoOne, D!EndRollback, DD!EndRollback,
     D!Ready, DD!Ready, D!DoWrite, DD!DoWrite, D!Block, DD!Block

LEMMA DiskAssumed == DD!DiskAssumption
  BY Layout, SizesAssumption, BoundsAssumption DEF DD!DiskAssumption, Content

LEMMA DeviceStep ==
  ASSUME DD!IInv, [DD!Next]_(DD!vars)
  PROVE  DD!IInv'
<1>1. (DD!TypeOK /\ DD!NoStaleUndo /\ DD!WalkIsOutside)' /\ DD!UndoRepairs'
  BY DD!StepKeepsShape, DD!StepKeepsRepair, DiskAssumed
<1> QED BY <1>1 DEF DD!IInv

\* While the image that was committed stays, so does all that is known of it.
LEMMA StableStays ==
  ASSUME Device, DD!IInv', alive', stable' = stable
  PROVE  Device'
<1>1. UNCHANGED L!vars
  BY DEF L!vars
<1>2. L!IInv'
  BY <1>1, L!NextKeepsIInv, Assumptions DEF Device
<1>3. Shaped(stable)'
  BY DEF Device
<1> QED BY <1>2, <1>3 DEF Device

\* A block written in the transaction of a call.
LEMMA BlockWritten ==
  ASSUME SInv, Working, NEW b \in D!Block, NEW c \in Content, Put(b, c)
  PROVE  /\ image' = Wrote(image, b, c)
         /\ Device' /\ stable' = stable
         /\ isInTransaction' = TRUE /\ iter' = 0
<1>1. D!WriteBlock(b, c)
  BY DEF Put, D!ExitInvalidBlock
<1>2. /\ image' = Wrote(image, b, c)
      /\ UNCHANGED <<isInTransaction, iter, alive, atBegin>>
  BY <1>1 DEF D!WriteBlock, D!DoWrite, Wrote
<1>3. b \in DD!Requested
  <2>1. b \in DD!Block
    BY Layout
  <2>2. data_region_addr + NumData \in Nat
    BY Layout
  <2> QED BY <2>1, <2>2 DEF DD!Block, DD!Requested
<1>4. DD!IInv'
  <2>1. DD!WriteBlock(b, c)
    BY <1>1, DiskSteps
  <2>2. DD!Next
    BY <1>3, <2>1 DEF DD!Next, DD!Operation
  <2> QED BY <2>2, DeviceStep DEF SInv, Device
<1>5. stable' = stable /\ isInTransaction' = TRUE /\ iter' = 0
  <2>1. isInTransaction = TRUE /\ isInTransaction'
    BY <1>2 DEF Working, SInv, Device, DD!IInv, DD!TypeOK
  <2> QED BY <1>2, <2>1 DEF stable, D!InFlight, Working
<1> QED BY <1>2, <1>4, <1>5, StableStays DEF SInv, Device

\* A call that goes on without the device.
LEMMA DeviceStays ==
  ASSUME SInv, UNCHANGED diskVars
  PROVE  Device' /\ stable' = stable /\ UNCHANGED <<image, isInTransaction, iter>>
<1>1. stable' = stable
  BY DEF diskVars, stable, D!InFlight
<1>2. DD!IInv'
  <2>1. UNCHANGED DD!vars
    BY DEF diskVars, DD!vars
  <2> QED BY <2>1, DeviceStep DEF SInv, Device
<1> QED BY <1>1, <1>2, StableStays DEF SInv, Device, diskVars

LEMMA FitsIsKept ==
  ASSUME NEW c, stable' = stable
  PROVE  Fits(stable, c, View(image))' <=> Fits(stable, c, View(image'))
  OBVIOUS

LEMMA GoesOn ==
  ASSUME Device', stable' = stable, isInTransaction' = TRUE, iter' = 0, Shaped(image'),
         call' \in CreateCall \cup WriteCall \cup UnlinkCall, call'.at # "rollback",
         Fits(stable, call', View(image'))
  PROVE  SInv'
<1>1. Working'
  BY DEF Working, Calling
<1> QED BY <1>1 DEF SInv

\* An error found by a call.
LEMMA CallFails ==
  ASSUME Working, Device', stable' = stable, isInTransaction' = TRUE, iter' = 0, Shaped(image'),
         call' = Moved(call, "fail")
  PROVE  SInv'
<1>1. call' \in CreateCall \cup WriteCall \cup UnlinkCall /\ call'.at = "fail"
  <2>1. CASE call \in CreateCall
    BY <2>1 DEF CreateCall, Moved
  <2>2. CASE call \in WriteCall
    BY <2>2 DEF WriteCall, Moved
  <2>3. CASE call \in UnlinkCall
    BY <2>3 DEF UnlinkCall, Moved
  <2> QED BY <2>1, <2>2, <2>3 DEF Working, Calling
<1>2. Fits(stable, call', View(image'))
  BY <1>1 DEF Fits
<1> QED BY <1>1, <1>2, GoesOn

\* A bitmap written in the transaction of a call.
LEMMA BitmapWritten ==
  ASSUME SInv, Working, NEW addr \in {inode_bitmap_addr, data_bitmap_addr},
         NEW X, X \subseteq Int, Put(addr, X)
  PROVE  /\ image' = Wrote(image, addr, X)
         /\ Device' /\ stable' = stable
         /\ isInTransaction' = TRUE /\ iter' = 0
         /\ Shaped(image')
<1>1. addr \in D!Block /\ X \in Content
  BY Layout DEF Content
<1>2. /\ image' = Wrote(image, addr, X)
      /\ Device' /\ stable' = stable
      /\ isInTransaction' = TRUE /\ iter' = 0
  BY <1>1, BlockWritten
<1>3. Shaped(image')
  BY <1>2, PutInodeBitmap, PutDataBitmap DEF Working
<1> QED BY <1>2, <1>3

LEMMA BitTaken ==
  ASSUME SInv, Working, NEW addr \in {inode_bitmap_addr, data_bitmap_addr},
         NEW bits \in Nat, NEW next, TakeBit(addr, bits, next)
  PROVE  /\ Device' /\ stable' = stable
         /\ isInTransaction' = TRUE /\ iter' = 0
         /\ Shaped(image')
         /\ \/ call' = Moved(call, "fail")
            \/ \E m \in DOMAIN next :
                 /\ Lowest(m, (0 .. bits - 1) \ image[addr])
                 /\ image' = Wrote(image, addr, image[addr] \cup {m})
                 /\ call' = next[m]
<1> DEFINE clear == (0 .. bits - 1) \ image[addr]
<1>1. CASE clear = {}
  <2>1. UNCHANGED diskVars /\ call' = Moved(call, "fail")
    BY <1>1 DEF TakeBit, Moved
  <2>2. Device' /\ stable' = stable /\ UNCHANGED <<image, isInTransaction, iter>>
    BY <2>1, DeviceStays
  <2>3. isInTransaction = TRUE
    BY DEF Working, SInv, Device, DD!IInv, DD!TypeOK
  <2> QED BY <2>1, <2>2, <2>3 DEF Working
<1>2. CASE clear # {}
  <2>1. PICK m : m = Min(clear)
    OBVIOUS
  <2>2. /\ Put(addr, image[addr] \cup {m})
        /\ call' = IF m \in DOMAIN next THEN next[m] ELSE Moved(call, "fail")
    BY <1>2, <2>1 DEF TakeBit, Moved
  <2>3. clear \subseteq Nat
    OBVIOUS
  <2>4. Lowest(m, clear)
    <3> HIDE DEF clear
    <3> QED BY <1>2, <2>1, <2>3, MinOfNaturals DEF Lowest
  <2>5. image[addr] \cup {m} \subseteq Int
    BY <2>3, <2>4 DEF Working, Shaped, Lowest
  <2>6. /\ image' = Wrote(image, addr, image[addr] \cup {m})
        /\ Device' /\ stable' = stable
        /\ isInTransaction' = TRUE /\ iter' = 0
        /\ Shaped(image')
    BY <2>2, <2>5, BitmapWritten
  <2> QED BY <2>2, <2>4, <2>6
<1> QED BY <1>1, <1>2

\* The searches find a bit of the first NumData or NumInodes ones, if at all.
LEMMA LowestInRegion ==
  ASSUME NEW B, NEW m \in Now!DataBlock, Lowest(m, (0 .. DataBits - 1) \ B)
  PROVE  Lowest(m, Now!DataBlock \ B)
<1>1. Now!DataBlock \subseteq 0 .. DataBits - 1
  BY BitsAssumption, SizesAssumption DEF Now!DataBlock
<1> QED BY <1>1 DEF Lowest

LEMMA LowestInode ==
  ASSUME NEW B, NEW m \in Now!Inode, Lowest(m, (0 .. InodeBits - 1) \ B)
  PROVE  Lowest(m, Now!Inode \ B)
<1>1. Now!Inode \subseteq 0 .. InodeBits - 1
  BY BitsAssumption, SizesAssumption DEF Now!Inode
<1> QED BY <1>1 DEF Lowest

LEMMA NoneIsNone == None \notin Now!Inode /\ None \notin Now!DataBlock
  BY NoneAssumption, SizesAssumption DEF Now!Inode, Now!DataBlock

LEMMA InodeWritten ==
  ASSUME SInv, Working, NEW i \in Now!Inode, NEW r \in Now!InodeRecord,
         Put(InodeBlock(i), WithInode(i, r))
  PROVE  /\ Device' /\ stable' = stable
         /\ isInTransaction' = TRUE /\ iter' = 0
         /\ Shaped(image')
         /\ View(image') = InodeIn(View(image), i, r)
<1>1. PICK c : c = WithInode(i, r)
  OBVIOUS
<1>2. c = WroteInode(image, i, r)
  BY <1>1 DEF WithInode, WroteInode
<1>3. PICK new : new = Wrote(image, InodeBlock(i), c)
  OBVIOUS
<1>4. /\ InodeBlock(i) \in D!Block /\ c \in Content
      /\ Shaped(new)
      /\ View(new) = InodeIn(View(image), i, r)
  <2>1. Shaped(image)
    BY DEF Working
  <2> QED BY <1>2, <1>3, <2>1, PutInode
<1>5. /\ image' = Wrote(image, InodeBlock(i), c)
      /\ Device' /\ stable' = stable
      /\ isInTransaction' = TRUE /\ iter' = 0
  BY <1>1, <1>4, BlockWritten
<1> QED BY <1>3, <1>4, <1>5

LEMMA DataWritten ==
  ASSUME SInv, Working, NEW b \in Now!DataBlock, NEW c \in DataBlocks,
         Put(data_region_addr + b, c)
  PROVE  /\ Device' /\ stable' = stable
         /\ isInTransaction' = TRUE /\ iter' = 0
         /\ Shaped(image')
         /\ View(image') = DataIn(View(image), b, c)
<1>1. PICK new : new = Wrote(image, data_region_addr + b, c)
  OBVIOUS
<1>2. /\ data_region_addr + b \in D!Block /\ c \in Content
      /\ Shaped(new)
      /\ View(new) = DataIn(View(image), b, c)
  <2>1. Shaped(image)
    BY DEF Working
  <2> QED BY <1>1, <2>1, PutData
<1>3. /\ image' = Wrote(image, data_region_addr + b, c)
      /\ Device' /\ stable' = stable
      /\ isInTransaction' = TRUE /\ iter' = 0
  BY <1>2, BlockWritten
<1> QED BY <1>1, <1>2, <1>3

LEMMA SoundStable == ASSUME SInv PROVE Sound(stable)
  BY SoundFromL DEF SInv, Device
-----------------------------------------------------------------------------
(* create, place by place: what is done there takes a call from where it   *)
(* fits to the next place.                                                 *)

LEMMA ParentOfCreate ==
  ASSUME NEW disk, Sound(disk), NEW c \in CreateCall, CreateChecked(disk, c)
  PROVE  /\ c.inum \in disk[inode_bitmap_addr] /\ c.inum \in Now!Inode
         /\ InodesOf(disk)[c.inum] \in Now!InodeRecord
         /\ InodesOf(disk)[c.inum].type = Now!UFS_DIRECTORY
<1>1. c.inum \in disk[inode_bitmap_addr] /\ InodesOf(disk)[c.inum].type = Now!UFS_DIRECTORY
  BY ImConstants DEF CreateChecked, Im!IsDirectory, Im!Allocated
<1> QED BY <1>1 DEF CreateCall, Sound, Typed

\* A place before the data blocks are written.
LEMMA CreateDataUntouched ==
  ASSUME NEW disk, Sound(disk), NEW c \in CreateCall,
         c.at \in {"block", "inum", "dots"} \/ (c.at = "entry" /\ c.block = None)
  PROVE  CreateData(disk, c) = DataOf(disk)
<1>1. ASSUME NEW b \in Now!DataBlock PROVE CreateData(disk, c)[b] = DataOf(disk)[b]
  BY NoneIsNone DEF CreateData
<1>2. /\ DataOf(disk) = [b \in Now!DataBlock |-> DataOf(disk)[b]]
      /\ CreateData(disk, c) = [b \in Now!DataBlock |-> CreateData(disk, c)[b]]
  BY DEF DataOf, CreateData, Now!DataBlock
<1> QED BY <1>1, <1>2

LEMMA BlockFits ==
  ASSUME NEW disk, Sound(disk), NEW c \in CreateCall, c.at = "block",
         NEW v, CreateFits(disk, c, v),
         NEW m, Lowest(m, Now!DataBlock \ v.db),
         NEW d, d = GotBlock(c, m),
         NEW w, w = DataBitsIn(v, v.db \cup {m})
  PROVE  d \in CreateCall /\ CreateFits(disk, d, w)
<1>1. m \in Now!DataBlock /\ m # None
  BY NoneIsNone DEF Lowest
<1>2. d \in CreateCall
  BY <1>1 DEF CreateCall, GotBlock
<1>3. /\ d.at = "inum" /\ d.block = m /\ d.inum = c.inum /\ d.name = c.name /\ d.type = c.type
      /\ d.new = c.new /\ d.more = c.more
  BY DEF CreateCall, GotBlock
<1>4. c.block = None /\ c.new = None /\ c.more = None
  BY DEF CreateFits, CreateTook
<1>5. v.db = disk[data_bitmap_addr]
  BY <1>4 DEF CreateFits
<1>6. CreateChecked(disk, d)
  BY <1>3 DEF CreateFits, CreateChecked
<1>7. CreateTook(disk, d)
  BY <1>3, <1>4, <1>5 DEF CreateFits, CreateTook, View, CreateChecked
<1>8. CreateData(disk, c) = DataOf(disk) /\ CreateData(disk, d) = DataOf(disk)
  BY <1>2, <1>3, CreateDataUntouched
<1>9. CreateNodes(disk, c) = CreateNodes(disk, d)
  BY <1>3 DEF CreateNodes
<1>10. w = [ib |-> disk[inode_bitmap_addr] \cup ({d.new} \ {None}),
          db |-> disk[data_bitmap_addr] \cup ({d.block, d.more} \ {None}),
          nodes |-> CreateNodes(disk, d),
          data |-> CreateData(disk, d)]
  <2>1. v = [ib |-> disk[inode_bitmap_addr] \cup ({c.new} \ {None}),
          db |-> disk[data_bitmap_addr] \cup ({c.block, c.more} \ {None}),
          nodes |-> CreateNodes(disk, c),
          data |-> CreateData(disk, c)]
    BY DEF CreateFits
  <2>2. {d.block, d.more} \ {None} = {m}
    BY <1>1, <1>3, <1>4
  <2> QED BY <1>3, <1>4, <1>5, <1>8, <1>9, <2>1, <2>2 DEF DataBitsIn
<1> QED BY <1>2, <1>6, <1>7, <1>10 DEF CreateFits

LEMMA InumFits ==
  ASSUME NEW disk, Sound(disk), NEW c \in CreateCall, c.at = "inum",
         NEW v, CreateFits(disk, c, v),
         NEW m, Lowest(m, Now!Inode \ v.ib),
         NEW d, d = GotInum(c, m),
         NEW w, w = InodeBitsIn(v, v.ib \cup {m})
  PROVE  d \in CreateCall /\ CreateFits(disk, d, w)
<1>1. m \in Now!Inode /\ m # None
  BY NoneIsNone DEF Lowest
<1>2. d \in CreateCall
  BY <1>1 DEF CreateCall, GotInum
<1>3. /\ d.at = (IF c.type = Now!UFS_DIRECTORY THEN "dots" ELSE "entry")
      /\ d.block = c.block /\ d.inum = c.inum /\ d.name = c.name /\ d.type = c.type
      /\ d.new = m /\ d.more = c.more
  BY DEF CreateCall, GotInum
<1>4. c.new = None /\ c.more = None /\ (c.type # Now!UFS_DIRECTORY => c.block = None)
  BY DEF CreateFits, CreateTook
<1>5. v.ib = disk[inode_bitmap_addr]
  BY <1>4 DEF CreateFits
<1>6. CreateChecked(disk, d)
  BY <1>3 DEF CreateFits, CreateChecked
<1>7. CreateTook(disk, d)
  BY <1>3, <1>4, <1>5 DEF CreateFits, CreateTook, View, CreateChecked
<1>8. CreateData(disk, c) = DataOf(disk) /\ CreateData(disk, d) = DataOf(disk)
  BY <1>2, <1>3, <1>4, CreateDataUntouched
<1>9. CreateNodes(disk, c) = CreateNodes(disk, d)
  BY <1>3 DEF CreateNodes
<1>10. w = [ib |-> disk[inode_bitmap_addr] \cup ({d.new} \ {None}),
          db |-> disk[data_bitmap_addr] \cup ({d.block, d.more} \ {None}),
          nodes |-> CreateNodes(disk, d),
          data |-> CreateData(disk, d)]
  <2>1. v = [ib |-> disk[inode_bitmap_addr] \cup ({c.new} \ {None}),
          db |-> disk[data_bitmap_addr] \cup ({c.block, c.more} \ {None}),
          nodes |-> CreateNodes(disk, c),
          data |-> CreateData(disk, c)]
    BY DEF CreateFits
  <2>2. {d.new} \ {None} = {m}
    BY <1>1, <1>3
  <2> QED BY <1>3, <1>4, <1>5, <1>8, <1>9, <2>1, <2>2 DEF InodeBitsIn
<1> QED BY <1>2, <1>6, <1>7, <1>10 DEF CreateFits

LEMMA DotsFit ==
  ASSUME NEW disk, Sound(disk), NEW c \in CreateCall, c.at = "dots",
         NEW v, CreateFits(disk, c, v),
         NEW d, d = Moved(c, "entry"),
         NEW w, w = DataIn(v, c.block, Now!NewDirBlock(c.new, c.inum))
  PROVE  /\ c.block \in Now!DataBlock
         /\ Now!NewDirBlock(c.new, c.inum) \in DataBlocks
         /\ d \in CreateCall /\ CreateFits(disk, d, w)
<1>1. d \in CreateCall
  BY DEF CreateCall, Moved
<1>2. /\ d.at = "entry"
      /\ d.block = c.block /\ d.inum = c.inum /\ d.name = c.name /\ d.type = c.type
      /\ d.new = c.new /\ d.more = c.more
  BY DEF CreateCall, Moved
<1>3. /\ c.block \in Now!DataBlock /\ c.new \in Now!Inode /\ c.more = None
      /\ c.type = Now!UFS_DIRECTORY
  BY DEF CreateFits, CreateTook, CreateChecked, Lowest
<1>4. CreateChecked(disk, d)
  BY <1>2 DEF CreateFits, CreateChecked
<1>5. CreateTook(disk, d)
  BY <1>2, <1>3 DEF CreateFits, CreateTook
<1>6. CreateNodes(disk, c) = CreateNodes(disk, d)
  BY <1>2 DEF CreateNodes
<1>7. CreateData(disk, c) = DataOf(disk)
  BY CreateDataUntouched
<1>8. [DataOf(disk) EXCEPT ![c.block] = Now!NewDirBlock(c.new, c.inum)] = CreateData(disk, d)
  BY <1>2, <1>3 DEF CreateData, DataOf, Now!DataBlock
<1>9. v = [ib |-> disk[inode_bitmap_addr] \cup ({c.new} \ {None}),
          db |-> disk[data_bitmap_addr] \cup ({c.block, c.more} \ {None}),
          nodes |-> CreateNodes(disk, c),
          data |-> CreateData(disk, c)]
  BY DEF CreateFits
<1>10. w = [ib |-> disk[inode_bitmap_addr] \cup ({d.new} \ {None}),
          db |-> disk[data_bitmap_addr] \cup ({d.block, d.more} \ {None}),
          nodes |-> CreateNodes(disk, d),
          data |-> CreateData(disk, d)]
  BY <1>2, <1>6, <1>7, <1>8, <1>9 DEF DataIn
<1>11. Now!NewDirBlock(c.new, c.inum) \in DataBlocks
  <2>1. c.new \in Int /\ c.inum \in Int
    BY <1>3, SizesAssumption DEF CreateCall, Now!Inode
  <2>2. L!NewDirBlock(c.new, c.inum) \in [L!Slot -> L!Cell]
    BY <2>1, L!FreshBlocksAreTyped, Assumptions
  <2> QED BY <2>2, LConstants DEF DataBlocks
<1> QED BY <1>1, <1>3, <1>4, <1>5, <1>10, <1>11 DEF CreateFits

\* A block with the new entry in its place.
EntryIn(disk, c, block) ==
  [block EXCEPT ![Im(disk)!CreatePosition(c.inum) % UFS_BLOCK_SIZE] = Now!Entry(c.name, c.new)]

LEMMA HomeOfEntry ==
  ASSUME NEW disk, Sound(disk), NEW c \in CreateCall, CreateChecked(disk, c),
         NEW k, k = Im(disk)!CreatePosition(c.inum)
  PROVE  /\ k \in Nat /\ k % UFS_BLOCK_SIZE \in Now!Slot
         /\ InodesOf(disk)[c.inum].size \in Nat
         /\ HomeIndex(disk, c.inum) \in Nat
         /\ ~Im(disk)!NeedsBlock(c.inum) =>
              /\ InodesOf(disk)[c.inum].direct[HomeIndex(disk, c.inum)] \in disk[data_bitmap_addr]
              /\ InodesOf(disk)[c.inum].direct[HomeIndex(disk, c.inum)] \in Now!DataBlock
         /\ Im(disk)!NeedsBlock(c.inum) => ~(k + 1 <= InodesOf(disk)[c.inum].size)
<1>1. c.inum \in disk[inode_bitmap_addr] /\ InodesOf(disk)[c.inum] \in Now!InodeRecord
  BY ParentOfCreate
<1>2. /\ k \in Nat /\ k \div UFS_BLOCK_SIZE \in Nat /\ k % UFS_BLOCK_SIZE \in Now!Slot
      /\ ~Im(disk)!NeedsBlock(c.inum) =>
           k \div UFS_BLOCK_SIZE < Now!Blocks(InodesOf(disk)[c.inum].size)
      /\ Im(disk)!NeedsBlock(c.inum) => ~(k + 1 <= InodesOf(disk)[c.inum].size)
  BY <1>1 DEF Sound, PlacesFit
<1>3. HomeIndex(disk, c.inum) = k \div UFS_BLOCK_SIZE
  BY DEF HomeIndex
<1>4. ~Im(disk)!NeedsBlock(c.inum) =>
        InodesOf(disk)[c.inum].direct[HomeIndex(disk, c.inum)] \in disk[data_bitmap_addr]
  BY <1>1, <1>2, <1>3 DEF Sound, Owned
<1>5. disk[data_bitmap_addr] \subseteq Now!DataBlock
  BY DEF Sound, Typed
<1> QED BY <1>1, <1>2, <1>3, <1>4, <1>5 DEF Now!InodeRecord

LEMMA EntryIsTyped ==
  ASSUME NEW disk, Sound(disk), NEW c \in CreateCall, CreateChecked(disk, c),
         c.new \in Now!Inode, NEW block \in DataBlocks
  PROVE  EntryIn(disk, c, block) \in DataBlocks
<1>1. PICK k : k = Im(disk)!CreatePosition(c.inum)
  OBVIOUS
<1>2. k % UFS_BLOCK_SIZE \in Now!Slot
  BY <1>1, HomeOfEntry
<1>3. Now!Entry(c.name, c.new) \in Now!Cell
  <2>1. c.name \in Names /\ c.new \in Int
    BY SizesAssumption DEF CreateCall, Now!Inode
  <2> QED BY <2>1 DEF Now!Entry, Now!Cell
<1> QED BY <1>1, <1>2, <1>3 DEF EntryIn, DataBlocks

\* Until the entry is written the parent has the block it had.
LEMMA EntryFits ==
  ASSUME NEW disk, Sound(disk), NEW c \in CreateCall, c.at = "entry",
         NEW v, CreateFits(disk, c, v), ~Im(disk)!NeedsBlock(c.inum),
         NEW b, b = InodesOf(disk)[c.inum].direct[HomeIndex(disk, c.inum)],
         NEW d, d = Moved(c, IF InodesOf(disk)[c.inum].size < Im(disk)!CreatePosition(c.inum) + 1
                             THEN "parent" ELSE "init"),
         NEW w, w = DataIn(v, b, EntryIn(disk, c, v.data[b]))
  PROVE  /\ b \in Now!DataBlock
         /\ EntryIn(disk, c, v.data[b]) \in DataBlocks
         /\ d \in CreateCall /\ CreateFits(disk, d, w)
<1>1. d \in CreateCall
  BY DEF CreateCall, Moved
<1>2. /\ d.at = (IF InodesOf(disk)[c.inum].size < Im(disk)!CreatePosition(c.inum) + 1
                 THEN "parent" ELSE "init")
      /\ d.block = c.block /\ d.inum = c.inum /\ d.name = c.name /\ d.type = c.type
      /\ d.new = c.new /\ d.more = c.more
  BY DEF CreateCall, Moved
<1>3. CreateChecked(disk, c) /\ CreateTook(disk, c)
  BY DEF CreateFits
<1>4. b \in Now!DataBlock /\ b \in disk[data_bitmap_addr]
  BY <1>3, HomeOfEntry
<1>5. c.new \in Now!Inode /\ c.more = None /\ c.block \notin disk[data_bitmap_addr]
  <2>1. c.block = None => c.block \notin disk[data_bitmap_addr]
    BY NoneIsNone DEF Sound, Typed
  <2> QED BY <1>3, <2>1 DEF CreateTook, Lowest, View
<1>6. CreateChecked(disk, d)
  BY <1>2, <1>3 DEF CreateChecked
<1>7. CreateTook(disk, d)
  BY <1>2, <1>3, <1>5 DEF CreateTook
<1>8. v = [ib |-> disk[inode_bitmap_addr] \cup ({c.new} \ {None}),
          db |-> disk[data_bitmap_addr] \cup ({c.block, c.more} \ {None}),
          nodes |-> CreateNodes(disk, c),
          data |-> CreateData(disk, c)]
  BY DEF CreateFits
<1>9. CreateNodes(disk, d) = CreateNodes(disk, c)
  <2>1. CreateNodes(disk, c) = InodesOf(disk)
    BY DEF CreateNodes
  <2>2. CASE d.at = "parent"
    BY <2>1, <2>2 DEF CreateNodes
  <2>3. CASE d.at = "init"
    <3>1. PICK k : k = Im(disk)!CreatePosition(c.inum)
      OBVIOUS
    <3>2. PICK r : r = InodesOf(disk)[c.inum]
      OBVIOUS
    <3>3. ~(r.size < k + 1) /\ k \in Nat /\ r.size \in Nat /\ r \in Now!InodeRecord
      BY <1>2, <1>3, <2>3, <3>1, <3>2, HomeOfEntry, ParentOfCreate
    <3>4. Now!Larger(r.size, k + 1) = r.size
      BY <3>3 DEF Now!Larger
    <3>5. Im(disk)!Extended(c.inum, c.more) = [type |-> r.type, size |-> r.size, direct |-> r.direct]
      BY <3>1, <3>2, <3>4, ImConstants DEF Im!Extended
    <3>6. r = [type |-> r.type, size |-> r.size, direct |-> r.direct]
      BY <3>3 DEF Now!InodeRecord
    <3>7. CreateNodes(disk, d) = [InodesOf(disk) EXCEPT ![c.inum] = r]
      BY <1>2, <2>3, <3>5, <3>6 DEF CreateNodes
    <3> QED BY <2>1, <3>2, <3>7 DEF InodesOf
  <2> QED BY <1>2, <2>2, <2>3
<1>10. v.data[b] = DataOf(disk)[b]
  BY <1>4, <1>5, <1>8 DEF CreateData
<1>11. DataOf(disk)[b] \in DataBlocks
  BY <1>4 DEF Sound, Typed
<1>12. EntryIn(disk, c, v.data[b]) \in DataBlocks
  BY <1>3, <1>5, <1>10, <1>11, EntryIsTyped
<1>13. EntryIn(disk, c, v.data[b]) = Im(disk)!WithEntry(c.inum, b, c.name, c.new)
  <2>1. Im(disk)!WithEntry(c.inum, b, c.name, c.new) =
          [DataOf(disk)[b] EXCEPT
             ![Im(disk)!CreatePosition(c.inum) % UFS_BLOCK_SIZE] = Im(disk)!Entry(c.name, c.new)]
    BY <1>2 DEF Im!WithEntry
  <2>2. Im(disk)!Entry(c.name, c.new) = Now!Entry(c.name, c.new)
    BY DEF Im!Entry, Now!Entry
  <2> QED BY <1>10, <2>1, <2>2 DEF EntryIn
<1>14. [CreateData(disk, c) EXCEPT ![b] = EntryIn(disk, c, v.data[b])] = CreateData(disk, d)
  <2>1. HomeBlock(disk, d) = b
    BY <1>2 DEF HomeBlock
  <2> QED BY <1>2, <1>4, <1>13, <2>1 DEF CreateData
<1>15. w = [ib |-> disk[inode_bitmap_addr] \cup ({d.new} \ {None}),
          db |-> disk[data_bitmap_addr] \cup ({d.block, d.more} \ {None}),
          nodes |-> CreateNodes(disk, d),
          data |-> CreateData(disk, d)]
  BY <1>2, <1>8, <1>9, <1>14 DEF DataIn
<1> QED BY <1>1, <1>4, <1>6, <1>7, <1>12, <1>15 DEF CreateFits

LEMMA MoreFits ==
  ASSUME NEW disk, Sound(disk), NEW c \in CreateCall, c.at = "entry",
         NEW v, CreateFits(disk, c, v),
         Im(disk)!NeedsBlock(c.inum), HomeIndex(disk, c.inum) < DIRECT_PTRS,
         NEW m, Lowest(m, Now!DataBlock \ v.db),
         NEW d, d = GotMore(c, m),
         NEW w, w = DataBitsIn(v, v.db \cup {m})
  PROVE  d \in CreateCall /\ CreateFits(disk, d, w)
<1>1. m \in Now!DataBlock /\ m # None
  BY NoneIsNone DEF Lowest
<1>2. d \in CreateCall
  BY <1>1 DEF CreateCall, GotMore
<1>3. /\ d.at = "grow"
      /\ d.block = c.block /\ d.inum = c.inum /\ d.name = c.name /\ d.type = c.type
      /\ d.new = c.new /\ d.more = m
  BY DEF CreateCall, GotMore
<1>4. CreateChecked(disk, c) /\ CreateTook(disk, c)
  BY DEF CreateFits
<1>5. v = [ib |-> disk[inode_bitmap_addr] \cup ({c.new} \ {None}),
          db |-> disk[data_bitmap_addr] \cup ({c.block, c.more} \ {None}),
          nodes |-> CreateNodes(disk, c),
          data |-> CreateData(disk, c)]
  BY DEF CreateFits
<1>6. c.more = None
  BY <1>4 DEF CreateTook
<1>7. v.db \cup {m} = disk[data_bitmap_addr] \cup ({d.block, d.more} \ {None})
  BY <1>1, <1>3, <1>5, <1>6
<1>8. Lowest(m, Now!DataBlock \ (disk[data_bitmap_addr] \cup {d.block}))
  <2>1. Now!DataBlock \ (disk[data_bitmap_addr] \cup {d.block}) = Now!DataBlock \ v.db
    BY <1>3, <1>5, <1>6, NoneIsNone
  <2> QED BY <2>1
<1>9. CreateChecked(disk, d)
  BY <1>3, <1>4 DEF CreateChecked
<1>10. CreateTook(disk, d)
  BY <1>3, <1>4, <1>8 DEF CreateTook, View
<1>11. CreateNodes(disk, c) = CreateNodes(disk, d)
  BY <1>3 DEF CreateNodes
<1>12. CreateData(disk, c) = CreateData(disk, d)
  BY <1>3 DEF CreateData
<1>13. w = [ib |-> disk[inode_bitmap_addr] \cup ({d.new} \ {None}),
          db |-> disk[data_bitmap_addr] \cup ({d.block, d.more} \ {None}),
          nodes |-> CreateNodes(disk, d),
          data |-> CreateData(disk, d)]
  BY <1>3, <1>5, <1>7, <1>11, <1>12 DEF DataBitsIn
<1> QED BY <1>2, <1>9, <1>10, <1>13 DEF CreateFits

LEMMA GrowFits ==
  ASSUME NEW disk, Sound(disk), NEW c \in CreateCall, c.at = "grow",
         NEW v, CreateFits(disk, c, v),
         NEW d, d = Moved(c, "parent"),
         NEW w, w = DataIn(v, c.more, EntryIn(disk, c, Now!UnusedBlock))
  PROVE  /\ c.more \in Now!DataBlock
         /\ EntryIn(disk, c, Now!UnusedBlock) \in DataBlocks
         /\ d \in CreateCall /\ CreateFits(disk, d, w)
<1>1. d \in CreateCall
  BY DEF CreateCall, Moved
<1>2. /\ d.at = "parent"
      /\ d.block = c.block /\ d.inum = c.inum /\ d.name = c.name /\ d.type = c.type
      /\ d.new = c.new /\ d.more = c.more
  BY DEF CreateCall, Moved
<1>3. CreateChecked(disk, c) /\ CreateTook(disk, c)
  BY DEF CreateFits
<1>4. Im(disk)!NeedsBlock(c.inum)
  BY <1>3 DEF CreateChecked
<1>5. /\ c.more \in Now!DataBlock /\ c.new \in Now!Inode
      /\ c.more \notin disk[data_bitmap_addr] /\ c.more # c.block
  BY <1>3, <1>4 DEF CreateTook, Lowest, View
<1>6. CreateChecked(disk, d)
  <2>1. PICK k : k = Im(disk)!CreatePosition(c.inum)
    OBVIOUS
  <2>2. PICK n : n = InodesOf(disk)[c.inum].size
    OBVIOUS
  <2>3. ~(k + 1 <= n) /\ k \in Nat /\ n \in Nat
    BY <1>3, <1>4, <2>1, <2>2, HomeOfEntry
  <2>4. n < k + 1
    BY <2>3
  <2> QED BY <1>2, <1>3, <2>1, <2>2, <2>4 DEF CreateChecked
<1>7. CreateTook(disk, d)
  BY <1>2, <1>3, <1>4 DEF CreateTook
<1>8. v = [ib |-> disk[inode_bitmap_addr] \cup ({c.new} \ {None}),
          db |-> disk[data_bitmap_addr] \cup ({c.block, c.more} \ {None}),
          nodes |-> CreateNodes(disk, c),
          data |-> CreateData(disk, c)]
  BY DEF CreateFits
<1>9. CreateNodes(disk, c) = CreateNodes(disk, d)
  BY <1>2 DEF CreateNodes
<1>10. Now!UnusedBlock \in DataBlocks
  <2>1. L!UnusedBlock \in [L!Slot -> L!Cell]
    BY 0 \in Int, L!FreshBlocksAreTyped, Assumptions
  <2> QED BY <2>1, LConstants DEF DataBlocks
<1>11. EntryIn(disk, c, Now!UnusedBlock) \in DataBlocks
  BY <1>3, <1>5, <1>10, EntryIsTyped
<1>12. EntryIn(disk, c, Now!UnusedBlock) = Im(disk)!WithEntry(c.inum, c.more, c.name, c.new)
  BY <1>4, ImConstants DEF EntryIn, Im!WithEntry
<1>13. [CreateData(disk, c) EXCEPT ![c.more] = EntryIn(disk, c, Now!UnusedBlock)] = CreateData(disk, d)
  <2>1. HomeBlock(disk, d) = c.more
    BY <1>2, <1>4 DEF HomeBlock
  <2> QED BY <1>2, <1>5, <1>12, <2>1 DEF CreateData
<1>14. w = [ib |-> disk[inode_bitmap_addr] \cup ({d.new} \ {None}),
          db |-> disk[data_bitmap_addr] \cup ({d.block, d.more} \ {None}),
          nodes |-> CreateNodes(disk, d),
          data |-> CreateData(disk, d)]
  BY <1>2, <1>8, <1>9, <1>13 DEF DataIn
<1> QED BY <1>1, <1>5, <1>6, <1>7, <1>11, <1>14 DEF CreateFits

\* The inode of the parent as it is written.
Longer(disk, c, r) ==
  [r EXCEPT !.size = Im(disk)!CreatePosition(c.inum) + 1,
            !.direct = IF c.more = None THEN @ ELSE [@ EXCEPT ![HomeIndex(disk, c.inum)] = c.more]]

LEMMA ParentFits ==
  ASSUME NEW disk, Sound(disk), NEW c \in CreateCall, c.at = "parent",
         NEW v, CreateFits(disk, c, v),
         NEW d, d = Moved(c, "init"),
         NEW w, w = InodeIn(v, c.inum, Longer(disk, c, v.nodes[c.inum]))
  PROVE  /\ Longer(disk, c, v.nodes[c.inum]) \in Now!InodeRecord
         /\ d \in CreateCall /\ CreateFits(disk, d, w)
<1>1. d \in CreateCall
  BY DEF CreateCall, Moved
<1>2. /\ d.at = "init"
      /\ d.block = c.block /\ d.inum = c.inum /\ d.name = c.name /\ d.type = c.type
      /\ d.new = c.new /\ d.more = c.more
  BY DEF CreateCall, Moved
<1>3. CreateChecked(disk, c) /\ CreateTook(disk, c)
  BY DEF CreateFits
<1>4. CreateChecked(disk, d)
  BY <1>2, <1>3 DEF CreateChecked
<1>5. CreateTook(disk, d)
  BY <1>2, <1>3 DEF CreateTook
<1>6. v = [ib |-> disk[inode_bitmap_addr] \cup ({c.new} \ {None}),
          db |-> disk[data_bitmap_addr] \cup ({c.block, c.more} \ {None}),
          nodes |-> CreateNodes(disk, c),
          data |-> CreateData(disk, c)]
  BY DEF CreateFits
<1>7. v.nodes = InodesOf(disk)
  BY <1>6 DEF CreateNodes
<1>8. PICK k : k = Im(disk)!CreatePosition(c.inum)
  OBVIOUS
<1>9. PICK r : r = InodesOf(disk)[c.inum]
  OBVIOUS
<1>10. k \in Nat /\ r.size \in Nat /\ r \in Now!InodeRecord /\ HomeIndex(disk, c.inum) \in Nat
  BY <1>3, <1>8, <1>9, HomeOfEntry, ParentOfCreate
<1>11. r.size < k + 1
  BY <1>3, <1>8, <1>9 DEF CreateChecked
<1>12. Now!Larger(r.size, k + 1) = k + 1
  BY <1>11 DEF Now!Larger
<1>13. /\ Im(disk)!NeedsBlock(c.inum) =>
            c.more \in Now!DataBlock /\ c.more # None /\ HomeIndex(disk, c.inum) \in Now!Index
       /\ ~Im(disk)!NeedsBlock(c.inum) => c.more = None
  BY <1>3, <1>10, NoneIsNone, SizesAssumption DEF CreateTook, Lowest, Now!Index
<1>14. PICK a : a = IF c.more = None THEN r.direct
                    ELSE [r.direct EXCEPT ![HomeIndex(disk, c.inum)] = c.more]
  OBVIOUS
<1>15. a \in [Now!Index -> Now!Pointer]
  BY <1>10, <1>13, <1>14 DEF Now!InodeRecord, Now!Pointer
<1>16. Longer(disk, c, r) = [type |-> r.type, size |-> k + 1, direct |-> a]
  <2>1. r = [type |-> r.type, size |-> r.size, direct |-> r.direct]
    BY <1>10 DEF Now!InodeRecord
  <2>2. r.direct = [r EXCEPT !.size = k + 1].direct
    BY <2>1
  <2>3. Longer(disk, c, r) = [r EXCEPT !.size = k + 1, !.direct = a]
    BY <1>8, <1>14, <2>2 DEF Longer
  <2>4. [r EXCEPT !.size = k + 1, !.direct = a] = [type |-> r.type, size |-> k + 1, direct |-> a]
    <3>1. PICK t, n, g : t = r.type /\ n = r.size /\ g = r.direct
      OBVIOUS
    <3>2. r = [type |-> t, size |-> n, direct |-> g]
      BY <2>1, <3>1
    <3>3. PICK q : q = [type |-> t, size |-> k + 1, direct |-> g]
      OBVIOUS
    <3>4. [r EXCEPT !.size = k + 1] = q
      BY <3>2, <3>3
    <3>5. [q EXCEPT !.direct = a] = [type |-> t, size |-> k + 1, direct |-> a]
      BY <3>3
    <3>6. [r EXCEPT !.size = k + 1, !.direct = a] = [[r EXCEPT !.size = k + 1] EXCEPT !.direct = a]
      OBVIOUS
    <3> QED BY <3>1, <3>4, <3>5, <3>6
  <2> QED BY <2>3, <2>4
<1>17. Longer(disk, c, r) \in Now!InodeRecord
  BY <1>10, <1>15, <1>16 DEF Now!InodeRecord
<1>18. Im(disk)!Extended(c.inum, c.more) = [type |-> r.type, size |-> k + 1, direct |-> a]
  <2>1. a = IF Im(disk)!NeedsBlock(c.inum) THEN [r.direct EXCEPT ![HomeIndex(disk, c.inum)] = c.more]
            ELSE r.direct
    BY <1>13, <1>14
  <2> QED BY <1>8, <1>9, <1>12, <2>1, ImConstants DEF Im!Extended, HomeIndex
<1>19. CreateNodes(disk, d) = [InodesOf(disk) EXCEPT ![c.inum] = Longer(disk, c, r)]
  BY <1>2, <1>16, <1>18 DEF CreateNodes
<1>20. CreateData(disk, c) = CreateData(disk, d)
  BY <1>2 DEF CreateData, HomeBlock
<1>21. w = [ib |-> disk[inode_bitmap_addr] \cup ({d.new} \ {None}),
          db |-> disk[data_bitmap_addr] \cup ({d.block, d.more} \ {None}),
          nodes |-> CreateNodes(disk, d),
          data |-> CreateData(disk, d)]
  BY <1>2, <1>6, <1>7, <1>9, <1>19, <1>20 DEF InodeIn
<1> QED BY <1>1, <1>4, <1>5, <1>7, <1>9, <1>17, <1>21 DEF CreateFits

\* The new inode as it is written.
Fresh(c, r) ==
  IF c.type = Now!UFS_DIRECTORY
  THEN [type |-> c.type, size |-> 2, direct |-> [r.direct EXCEPT ![0] = c.block]]
  ELSE [type |-> c.type, size |-> 0, direct |-> r.direct]

LEMMA InitFits ==
  ASSUME NEW disk, Sound(disk), NEW c \in CreateCall, c.at = "init",
         NEW v, CreateFits(disk, c, v),
         NEW d, d = Moved(c, "commit"),
         NEW w, w = InodeIn(v, c.new, Fresh(c, v.nodes[c.new]))
  PROVE  /\ c.new \in Now!Inode /\ Fresh(c, v.nodes[c.new]) \in Now!InodeRecord
         /\ d \in CreateCall /\ CreateFits(disk, d, w)
<1>1. d \in CreateCall
  BY DEF CreateCall, Moved
<1>2. /\ d.at = "commit"
      /\ d.block = c.block /\ d.inum = c.inum /\ d.name = c.name /\ d.type = c.type
      /\ d.new = c.new /\ d.more = c.more
  BY DEF CreateCall, Moved
<1>3. CreateChecked(disk, c) /\ CreateTook(disk, c)
  BY DEF CreateFits
<1>4. CreateChecked(disk, d)
  BY <1>2, <1>3 DEF CreateChecked
<1>5. CreateTook(disk, d)
  BY <1>2, <1>3 DEF CreateTook
<1>6. v = [ib |-> disk[inode_bitmap_addr] \cup ({c.new} \ {None}),
          db |-> disk[data_bitmap_addr] \cup ({c.block, c.more} \ {None}),
          nodes |-> CreateNodes(disk, c),
          data |-> CreateData(disk, c)]
  BY DEF CreateFits
<1>7. c.new \in Now!Inode /\ c.new \notin disk[inode_bitmap_addr]
  BY <1>3 DEF CreateTook, Lowest, View
<1>8. c.inum \in disk[inode_bitmap_addr] /\ c.new # c.inum
  BY <1>3, <1>7, ParentOfCreate
<1>9. PICK r : r = InodesOf(disk)[c.new]
  OBVIOUS
<1>10. r \in Now!InodeRecord
  BY <1>7, <1>9 DEF Sound, Typed
<1>11. v.nodes[c.new] = r
  BY <1>6, <1>7, <1>8, <1>9 DEF CreateNodes, Sound, Typed
<1>12. c.type = Now!UFS_DIRECTORY => c.block \in Now!DataBlock
  BY <1>3 DEF CreateTook, Lowest
<1>13. Fresh(c, r) \in Now!InodeRecord
  <2>1. 0 \in Now!Index
    BY SizesAssumption DEF Now!Index
  <2>2. c.type \in {Now!UFS_DIRECTORY, Now!UFS_REGULAR_FILE}
    BY DEF CreateCall
  <2>3. r.direct \in [Now!Index -> Now!Pointer]
    BY <1>10 DEF Now!InodeRecord
  <2>4. c.type = Now!UFS_DIRECTORY => [r.direct EXCEPT ![0] = c.block] \in [Now!Index -> Now!Pointer]
    BY <1>12, <2>1, <2>3 DEF Now!Pointer
  <2> QED BY <2>2, <2>3, <2>4 DEF Fresh, Now!InodeRecord
<1>14. Fresh(c, r) = Im(disk)!Created(c.new, c.type, c.block)
  BY <1>9, ImConstants DEF Fresh, Im!Created
<1>15. CreateNodes(disk, d) = [CreateNodes(disk, c) EXCEPT ![c.new] = Fresh(c, r)]
  BY <1>2, <1>14 DEF CreateNodes
<1>16. CreateData(disk, c) = CreateData(disk, d)
  BY <1>2 DEF CreateData, HomeBlock
<1>17. w = [ib |-> disk[inode_bitmap_addr] \cup ({d.new} \ {None}),
          db |-> disk[data_bitmap_addr] \cup ({d.block, d.more} \ {None}),
          nodes |-> CreateNodes(disk, d),
          data |-> CreateData(disk, d)]
  BY <1>2, <1>6, <1>11, <1>15, <1>16 DEF InodeIn
<1> QED BY <1>1, <1>4, <1>5, <1>7, <1>11, <1>13, <1>17 DEF CreateFits
-----------------------------------------------------------------------------
(* The steps of create.                                                    *)

LEMMA AtWork ==
  ASSUME SInv, call.at \notin {"idle", "rollback"}
  PROVE  Working /\ Shaped(image) /\ Sound(stable)
<1>1. ~Resting /\ ~Undoing
  BY DEF Resting, Idle, Undoing
<1> QED BY <1>1, SoundStable DEF SInv, Working

LEMMA CreateAt ==
  ASSUME SInv, call.at \in {"block", "inum", "dots", "entry", "grow", "parent", "init"}
  PROVE  /\ Working /\ Shaped(image) /\ Sound(stable)
         /\ call \in CreateCall /\ CreateFits(stable, call, View(image))
<1>1. Working /\ Shaped(image) /\ Sound(stable)
  BY AtWork
<1>2. call \notin WriteCall /\ call \notin UnlinkCall
  BY DEF WriteCall, UnlinkCall
<1> QED BY <1>1, <1>2 DEF Working, Fits

LEMMA CreateGoesOn ==
  ASSUME Device', stable' = stable, isInTransaction' = TRUE, iter' = 0, Shaped(image'),
         call' \in CreateCall, call'.at # "rollback", CreateFits(stable, call', View(image'))
  PROVE  SInv'
<1>1. Fits(stable, call', View(image'))
  BY DEF Fits
<1> QED BY <1>1, GoesOn

LEMMA CreateBlockStep == ASSUME SInv, CreateBlock PROVE SInv'
<1>1. call.at = "block"
  BY DEF CreateBlock, At
<1>2. /\ Working /\ Shaped(image) /\ Sound(stable)
      /\ call \in CreateCall /\ CreateFits(stable, call, View(image))
  BY <1>1, CreateAt
<1>3. PICK next : next = [b \in Now!DataBlock |-> [call EXCEPT !.block = b, !.at = "inum"]]
  OBVIOUS
<1>4. TakeBit(data_bitmap_addr, DataBits, next)
  BY <1>3 DEF CreateBlock
<1>5. /\ Device' /\ stable' = stable
      /\ isInTransaction' = TRUE /\ iter' = 0
      /\ Shaped(image')
      /\ \/ call' = Moved(call, "fail")
         \/ \E m \in DOMAIN next :
              /\ Lowest(m, (0 .. DataBits - 1) \ image[data_bitmap_addr])
              /\ image' = Wrote(image, data_bitmap_addr, image[data_bitmap_addr] \cup {m})
              /\ call' = next[m]
  <2>1. DataBits \in Nat
    BY BitsAssumption
  <2> QED BY <1>2, <1>4, <2>1, BitTaken
<1>6. CASE call' = Moved(call, "fail")
  BY <1>2, <1>5, <1>6, CallFails
<1>7. ASSUME NEW m \in DOMAIN next,
             Lowest(m, (0 .. DataBits - 1) \ image[data_bitmap_addr]),
             image' = Wrote(image, data_bitmap_addr, image[data_bitmap_addr] \cup {m}),
             call' = next[m]
      PROVE  SInv'
  <2>1. m \in Now!DataBlock /\ call' = GotBlock(call, m)
    BY <1>3, <1>7 DEF GotBlock
  <2>2. Lowest(m, Now!DataBlock \ image[data_bitmap_addr])
    BY <1>7, <2>1, LowestInRegion
  <2>3. View(image').db = image'[data_bitmap_addr] /\ View(image).db = image[data_bitmap_addr]
    BY DEF View
  <2>4. image[data_bitmap_addr] \cup {m} \subseteq Int
    BY <1>2, <2>1, SizesAssumption DEF Shaped, Now!DataBlock
  <2>5. View(image') = DataBitsIn(View(image), View(image).db \cup {m})
    BY <1>2, <1>7, <2>3, <2>4, PutDataBitmap
  <2>6. call' \in CreateCall /\ CreateFits(stable, call', View(image'))
    BY <1>1, <1>2, <2>1, <2>2, <2>3, <2>5, BlockFits
  <2>7. call'.at # "rollback"
    BY <1>2, <2>1 DEF GotBlock, CreateCall
  <2> QED BY <1>5, <2>6, <2>7, CreateGoesOn
<1> QED BY <1>5, <1>6, <1>7

LEMMA CreateInumStep == ASSUME SInv, CreateInum PROVE SInv'
<1>1. call.at = "inum"
  BY DEF CreateInum, At
<1>2. /\ Working /\ Shaped(image) /\ Sound(stable)
      /\ call \in CreateCall /\ CreateFits(stable, call, View(image))
  BY <1>1, CreateAt
<1>3. PICK next : next = [i \in Now!Inode |-> GotInum(call, i)]
  OBVIOUS
<1>4. TakeBit(inode_bitmap_addr, InodeBits, next)
  BY <1>3 DEF CreateInum, GotInum
<1>5. /\ Device' /\ stable' = stable
      /\ isInTransaction' = TRUE /\ iter' = 0
      /\ Shaped(image')
      /\ \/ call' = Moved(call, "fail")
         \/ \E m \in DOMAIN next :
              /\ Lowest(m, (0 .. InodeBits - 1) \ image[inode_bitmap_addr])
              /\ image' = Wrote(image, inode_bitmap_addr, image[inode_bitmap_addr] \cup {m})
              /\ call' = next[m]
  <2>1. InodeBits \in Nat
    BY BitsAssumption
  <2> QED BY <1>2, <1>4, <2>1, BitTaken
<1>6. CASE call' = Moved(call, "fail")
  BY <1>2, <1>5, <1>6, CallFails
<1>7. ASSUME NEW m \in DOMAIN next,
             Lowest(m, (0 .. InodeBits - 1) \ image[inode_bitmap_addr]),
             image' = Wrote(image, inode_bitmap_addr, image[inode_bitmap_addr] \cup {m}),
             call' = next[m]
      PROVE  SInv'
  <2>1. m \in Now!Inode /\ call' = GotInum(call, m)
    BY <1>3, <1>7
  <2>2. Lowest(m, Now!Inode \ image[inode_bitmap_addr])
    BY <1>7, <2>1, LowestInode
  <2>3. View(image).ib = image[inode_bitmap_addr]
    BY DEF View
  <2>4. image[inode_bitmap_addr] \cup {m} \subseteq Int
    BY <1>2, <2>1, SizesAssumption DEF Shaped, Now!Inode
  <2>5. View(image') = InodeBitsIn(View(image), View(image).ib \cup {m})
    BY <1>2, <1>7, <2>3, <2>4, PutInodeBitmap
  <2>6. call' \in CreateCall /\ CreateFits(stable, call', View(image'))
    BY <1>1, <1>2, <2>1, <2>2, <2>3, <2>5, InumFits
  <2>7. call'.at # "rollback"
    BY <1>2, <2>1 DEF GotInum, CreateCall
  <2> QED BY <1>5, <2>6, <2>7, CreateGoesOn
<1> QED BY <1>5, <1>6, <1>7

LEMMA CreateDotsStep == ASSUME SInv, CreateDots PROVE SInv'
<1>1. call.at = "dots"
  BY DEF CreateDots, At
<1>2. /\ Working /\ Shaped(image) /\ Sound(stable)
      /\ call \in CreateCall /\ CreateFits(stable, call, View(image))
  BY <1>1, CreateAt
<1>3. /\ Put(data_region_addr + call.block, Now!NewDirBlock(call.new, call.inum))
      /\ call' = Moved(call, "entry")
  BY DEF CreateDots, Goto, Moved
<1>4. call.block \in Now!DataBlock /\ Now!NewDirBlock(call.new, call.inum) \in DataBlocks
  BY <1>1, <1>2, DotsFit
<1>5. /\ Device' /\ stable' = stable
      /\ isInTransaction' = TRUE /\ iter' = 0
      /\ Shaped(image')
      /\ View(image') = DataIn(View(image), call.block, Now!NewDirBlock(call.new, call.inum))
  BY <1>2, <1>3, <1>4, DataWritten
<1>6. call' \in CreateCall /\ CreateFits(stable, call', View(image'))
  BY <1>1, <1>2, <1>3, <1>5, DotsFit
<1>7. call'.at # "rollback"
  BY <1>2, <1>3 DEF Moved, CreateCall
<1> QED BY <1>5, <1>6, <1>7, CreateGoesOn

LEMMA EntryWritten ==
  ASSUME NEW block
  PROVE  WithEntry(block) = EntryIn(stable, call, block)
  BY StableReads DEF WithEntry, Place, EntryIn

LEMMA HomeIsIndex == Home = HomeIndex(stable, call.inum)
  BY StableReads DEF Home, Place, HomeIndex

LEMMA AddressOfBlock ==
  ASSUME NEW b \in Now!DataBlock
  PROVE  Address(b) = data_region_addr + b
  BY SizesAssumption DEF Address, Now!DataBlock, Now!NullPtr, Now!Unset

LEMMA CreateEntryStep == ASSUME SInv, CreateEntry PROVE SInv'
<1>1. call.at = "entry"
  BY DEF CreateEntry, At
<1>2. /\ Working /\ Shaped(image) /\ Sound(stable)
      /\ call \in CreateCall /\ CreateFits(stable, call, View(image))
  BY <1>1, CreateAt
<1>3. PICK b : b = InodesOf(stable)[call.inum].direct[HomeIndex(stable, call.inum)]
  OBVIOUS
<1>4. CASE /\ ~Stable!NeedsBlock(call.inum)
           /\ LET p == Address(InodesOf(stable)[call.inum].direct[Home])
              IN Put(p, WithEntry(image[p]))
           /\ Goto(IF InodesOf(stable)[call.inum].size < Place + 1 THEN "parent" ELSE "init")
  <2>1. ~Im(stable)!NeedsBlock(call.inum)
    BY <1>4, StableReads
  <2>2. b \in Now!DataBlock /\ EntryIn(stable, call, View(image).data[b]) \in DataBlocks
    BY <1>1, <1>2, <1>3, <2>1, EntryFits
  <2>3. Put(data_region_addr + b, EntryIn(stable, call, image[data_region_addr + b]))
    BY <1>3, <1>4, <2>2, HomeIsIndex, AddressOfBlock, EntryWritten
  <2>4. View(image).data[b] = image[data_region_addr + b]
    BY <2>2 DEF View, DataOf, Now!DataBlock
  <2>5. PICK e : e = EntryIn(stable, call, View(image).data[b])
    OBVIOUS
  <2>6. /\ Device' /\ stable' = stable
        /\ isInTransaction' = TRUE /\ iter' = 0
        /\ Shaped(image')
        /\ View(image') = DataIn(View(image), b, e)
    BY <1>2, <2>2, <2>3, <2>4, <2>5, DataWritten
  <2>7. call' = Moved(call, IF InodesOf(stable)[call.inum].size < Im(stable)!CreatePosition(call.inum) + 1
                            THEN "parent" ELSE "init")
    BY <1>4, StableReads DEF Goto, Moved, Place
  <2>8. call' \in CreateCall /\ CreateFits(stable, call', View(image'))
    BY <1>1, <1>2, <1>3, <2>1, <2>5, <2>6, <2>7, EntryFits
  <2>9. call'.at # "rollback"
    BY <1>2, <2>7 DEF Moved, CreateCall
  <2> QED BY <2>6, <2>8, <2>9, CreateGoesOn
<1>5. CASE Goto("fail") /\ UNCHANGED diskVars
  <2>1. Device' /\ stable' = stable /\ UNCHANGED <<image, isInTransaction, iter>>
    BY <1>5, DeviceStays
  <2>2. isInTransaction = TRUE /\ iter = 0
    BY <1>2 DEF Working, SInv, Device, DD!IInv, DD!TypeOK
  <2>3. call' = Moved(call, "fail")
    BY <1>5 DEF Goto, Moved
  <2> QED BY <1>2, <2>1, <2>2, <2>3, CallFails
<1>6. CASE /\ Stable!NeedsBlock(call.inum) /\ Home < DIRECT_PTRS
           /\ TakeBit(data_bitmap_addr, DataBits,
                [m \in Now!DataBlock |-> [call EXCEPT !.more = m, !.at = "grow"]])
  <2>1. Im(stable)!NeedsBlock(call.inum) /\ HomeIndex(stable, call.inum) < DIRECT_PTRS
    BY <1>6, StableReads, HomeIsIndex
  <2>2. PICK next : next = [m \in Now!DataBlock |-> [call EXCEPT !.more = m, !.at = "grow"]]
    OBVIOUS
  <2>3. TakeBit(data_bitmap_addr, DataBits, next)
    BY <1>6, <2>2
  <2>4. /\ Device' /\ stable' = stable
        /\ isInTransaction' = TRUE /\ iter' = 0
        /\ Shaped(image')
        /\ \/ call' = Moved(call, "fail")
           \/ \E m \in DOMAIN next :
                /\ Lowest(m, (0 .. DataBits - 1) \ image[data_bitmap_addr])
                /\ image' = Wrote(image, data_bitmap_addr, image[data_bitmap_addr] \cup {m})
                /\ call' = next[m]
    <3>1. DataBits \in Nat
      BY BitsAssumption
    <3> QED BY <1>2, <2>3, <3>1, BitTaken
  <2>5. CASE call' = Moved(call, "fail")
    BY <1>2, <2>4, <2>5, CallFails
  <2>6. ASSUME NEW m \in DOMAIN next,
               Lowest(m, (0 .. DataBits - 1) \ image[data_bitmap_addr]),
               image' = Wrote(image, data_bitmap_addr, image[data_bitmap_addr] \cup {m}),
               call' = next[m]
        PROVE  SInv'
    <3>1. m \in Now!DataBlock /\ call' = GotMore(call, m)
      BY <2>2, <2>6 DEF GotMore
    <3>2. Lowest(m, Now!DataBlock \ image[data_bitmap_addr])
      BY <2>6, <3>1, LowestInRegion
    <3>3. View(image).db = image[data_bitmap_addr]
      BY DEF View
    <3>4. image[data_bitmap_addr] \cup {m} \subseteq Int
      BY <1>2, <3>1, SizesAssumption DEF Shaped, Now!DataBlock
    <3>5. View(image') = DataBitsIn(View(image), View(image).db \cup {m})
      BY <1>2, <2>6, <3>3, <3>4, PutDataBitmap
    <3>6. call' \in CreateCall /\ CreateFits(stable, call', View(image'))
      BY <1>1, <1>2, <2>1, <3>1, <3>2, <3>3, <3>5, MoreFits
    <3>7. call'.at # "rollback"
      BY <1>2, <3>1 DEF GotMore, CreateCall
    <3> QED BY <2>4, <3>6, <3>7, CreateGoesOn
  <2> QED BY <2>4, <2>5, <2>6
<1> QED BY <1>4, <1>5, <1>6 DEF CreateEntry

LEMMA CreateGrowStep == ASSUME SInv, CreateGrow PROVE SInv'
<1>1. call.at = "grow"
  BY DEF CreateGrow, At
<1>2. /\ Working /\ Shaped(image) /\ Sound(stable)
      /\ call \in CreateCall /\ CreateFits(stable, call, View(image))
  BY <1>1, CreateAt
<1>3. PICK e : e = EntryIn(stable, call, Now!UnusedBlock)
  OBVIOUS
<1>4. Put(data_region_addr + call.more, e) /\ call' = Moved(call, "parent")
  BY <1>3, EntryWritten DEF CreateGrow, Goto, Moved
<1>5. call.more \in Now!DataBlock /\ e \in DataBlocks
  BY <1>1, <1>2, <1>3, GrowFits
<1>6. /\ Device' /\ stable' = stable
      /\ isInTransaction' = TRUE /\ iter' = 0
      /\ Shaped(image')
      /\ View(image') = DataIn(View(image), call.more, e)
  BY <1>2, <1>4, <1>5, DataWritten
<1>7. call' \in CreateCall /\ CreateFits(stable, call', View(image'))
  BY <1>1, <1>2, <1>3, <1>4, <1>6, GrowFits
<1>8. call'.at # "rollback"
  BY <1>2, <1>4 DEF Moved, CreateCall
<1> QED BY <1>6, <1>7, <1>8, CreateGoesOn

LEMMA CreateParentStep == ASSUME SInv, CreateParent PROVE SInv'
<1>1. call.at = "parent"
  BY DEF CreateParent, At
<1>2. /\ Working /\ Shaped(image) /\ Sound(stable)
      /\ call \in CreateCall /\ CreateFits(stable, call, View(image))
  BY <1>1, CreateAt
<1>3. PICK r : r = Longer(stable, call, InodesOf(image)[call.inum])
  OBVIOUS
<1>4. /\ Put(InodeBlock(call.inum), WithInode(call.inum, r))
      /\ call' = Moved(call, "init")
  BY <1>3, HomeIsIndex, StableReads DEF CreateParent, Goto, Moved, Longer, Place
<1>5. View(image).nodes = InodesOf(image)
  BY DEF View
<1>6. call.inum \in Now!Inode /\ r \in Now!InodeRecord
  BY <1>1, <1>2, <1>3, <1>5, ParentFits DEF CreateCall
<1>7. /\ Device' /\ stable' = stable
      /\ isInTransaction' = TRUE /\ iter' = 0
      /\ Shaped(image')
      /\ View(image') = InodeIn(View(image), call.inum, r)
  BY <1>2, <1>4, <1>6, InodeWritten
<1>8. call' \in CreateCall /\ CreateFits(stable, call', View(image'))
  BY <1>1, <1>2, <1>3, <1>4, <1>5, <1>7, ParentFits
<1>9. call'.at # "rollback"
  BY <1>2, <1>4 DEF Moved, CreateCall
<1> QED BY <1>7, <1>8, <1>9, CreateGoesOn

LEMMA CreateInitStep == ASSUME SInv, CreateInit PROVE SInv'
<1>1. call.at = "init"
  BY DEF CreateInit, At
<1>2. /\ Working /\ Shaped(image) /\ Sound(stable)
      /\ call \in CreateCall /\ CreateFits(stable, call, View(image))
  BY <1>1, CreateAt
<1>3. PICK r : r = Fresh(call, InodesOf(image)[call.new])
  OBVIOUS
<1>4. /\ Put(InodeBlock(call.new), WithInode(call.new, r))
      /\ call' = Moved(call, "commit")
  BY <1>3 DEF CreateInit, Goto, Moved, Fresh, Now!Created
<1>5. View(image).nodes = InodesOf(image)
  BY DEF View
<1>6. call.new \in Now!Inode /\ r \in Now!InodeRecord
  BY <1>1, <1>2, <1>3, <1>5, InitFits
<1>7. /\ Device' /\ stable' = stable
      /\ isInTransaction' = TRUE /\ iter' = 0
      /\ Shaped(image')
      /\ View(image') = InodeIn(View(image), call.new, r)
  BY <1>2, <1>4, <1>6, InodeWritten
<1>8. call' \in CreateCall /\ CreateFits(stable, call', View(image'))
  BY <1>1, <1>2, <1>3, <1>4, <1>5, <1>7, InitFits
<1>9. call'.at # "rollback"
  BY <1>2, <1>4 DEF Moved, CreateCall
<1> QED BY <1>7, <1>8, <1>9, CreateGoesOn
-----------------------------------------------------------------------------
(* write, place by place.                                                  *)

IsView(v) ==
  \E ib, db, nodes, data :
    /\ v = [ib |-> ib, db |-> db, nodes |-> nodes, data |-> data]
    /\ data = [b \in Now!DataBlock |-> data[b]]

LEMMA ViewIsView == ASSUME NEW disk PROVE IsView(View(disk))
<1>1. DataOf(disk) = [b \in Now!DataBlock |-> DataOf(disk)[b]]
  BY DEF DataOf, Now!DataBlock
<1> QED BY <1>1 DEF IsView, View

LEMMA InodeBitsParts ==
  ASSUME NEW v, IsView(v), NEW X
  PROVE  /\ InodeBitsIn(v, X).ib = X /\ InodeBitsIn(v, X).db = v.db
         /\ InodeBitsIn(v, X).nodes = v.nodes /\ InodeBitsIn(v, X).data = v.data
  BY DEF IsView, InodeBitsIn

LEMMA DataBitsParts ==
  ASSUME NEW v, IsView(v), NEW X
  PROVE  /\ DataBitsIn(v, X).ib = v.ib /\ DataBitsIn(v, X).db = X
         /\ DataBitsIn(v, X).nodes = v.nodes /\ DataBitsIn(v, X).data = v.data
  BY DEF IsView, DataBitsIn

LEMMA InodeParts ==
  ASSUME NEW v, IsView(v), NEW i, NEW r
  PROVE  /\ InodeIn(v, i, r).ib = v.ib /\ InodeIn(v, i, r).db = v.db
         /\ InodeIn(v, i, r).nodes = [v.nodes EXCEPT ![i] = r] /\ InodeIn(v, i, r).data = v.data
  BY DEF IsView, InodeIn

LEMMA DataParts ==
  ASSUME NEW v, IsView(v), NEW b \in Now!DataBlock, NEW c
  PROVE  /\ DataIn(v, b, c).ib = v.ib /\ DataIn(v, b, c).db = v.db
         /\ DataIn(v, b, c).nodes = v.nodes
         /\ DataIn(v, b, c).data[b] = c
         /\ \A x \in Now!DataBlock \ {b} : DataIn(v, b, c).data[x] = v.data[x]
<1>1. PICK ib, db, nodes, data :
        /\ v = [ib |-> ib, db |-> db, nodes |-> nodes, data |-> data]
        /\ data = [x \in Now!DataBlock |-> data[x]]
  BY DEF IsView
<1>2. /\ DataIn(v, b, c).ib = v.ib /\ DataIn(v, b, c).db = v.db
      /\ DataIn(v, b, c).nodes = v.nodes /\ DataIn(v, b, c).data = [data EXCEPT ![b] = c]
      /\ v.data = data
  BY <1>1 DEF DataIn
<1>3. /\ [data EXCEPT ![b] = c][b] = c
      /\ \A x \in Now!DataBlock \ {b} : [data EXCEPT ![b] = c][x] = data[x]
  <2>1. DOMAIN data = Now!DataBlock
    BY <1>1
  <2> QED BY <2>1
<1> QED BY <1>2, <1>3

\* The next pointer of the file, taken or given back.
GotPointer(c, b) ==
  [c EXCEPT !.inode.direct[c.x] = b, !.x = @ + 1,
            !.at = IF c.x + 1 < Now!Blocks(c.size) THEN "alloc" ELSE "inode"]
LostPointer(c) ==
  [c EXCEPT !.inode.direct[c.x] = Now!Unset, !.x = @ + 1,
            !.at = IF c.x + 1 < c.last THEN "free" ELSE "inode"]
Wrote1(c) ==
  [c EXCEPT !.x = @ + 1, !.at = IF c.x + 1 < Now!Blocks(c.size) THEN "data" ELSE "commit"]

\* The file as the call found it.
LEMMA FileOfWrite ==
  ASSUME NEW disk, Sound(disk), NEW c \in WriteCall, WriteChecked(disk, c),
         NEW now, now = Now!Blocks(InodesOf(disk)[c.inum].size),
         NEW cnt, cnt = Now!Blocks(c.size)
  PROVE  /\ c.inum \in disk[inode_bitmap_addr] /\ c.inum \in Now!Inode
         /\ InodesOf(disk)[c.inum] \in Now!InodeRecord
         /\ InodesOf(disk)[c.inum].type = Now!UFS_REGULAR_FILE
         /\ c.size \in Nat
         /\ now \in Nat /\ now <= DIRECT_PTRS
         /\ cnt \in Nat /\ 0 < cnt /\ cnt <= DIRECT_PTRS
         /\ \A y \in 0 .. now - 1 :
              /\ InodesOf(disk)[c.inum].direct[y] \in disk[data_bitmap_addr]
              /\ InodesOf(disk)[c.inum].direct[y] \in Now!DataBlock
              /\ \A z \in 0 .. now - 1 :
                   InodesOf(disk)[c.inum].direct[y] = InodesOf(disk)[c.inum].direct[z] => y = z
<1>1. c.inum \in disk[inode_bitmap_addr] /\ InodesOf(disk)[c.inum].type = Now!UFS_REGULAR_FILE
  BY ImConstants DEF WriteChecked, Im!IsFile, Im!Allocated
<1>2. c.inum \in Now!Inode /\ InodesOf(disk)[c.inum] \in Now!InodeRecord
  BY DEF WriteCall, Sound, Typed
<1>3. now \in Nat
  BY <1>2, BlocksBound DEF Now!InodeRecord
<1>4. c.size \in Nat
  BY SizesAssumption DEF WriteCall, WriteChecked
<1>5. cnt \in Nat /\ 0 < cnt /\ cnt <= DIRECT_PTRS
  <2>1. cnt \in Nat /\ (cnt <= 0 <=> c.size <= 0 * UFS_BLOCK_SIZE)
    BY <1>4, BlocksBound
  <2>2. 0 * UFS_BLOCK_SIZE = 0
    BY SizesAssumption
  <2>3. c.size > 0 /\ cnt <= DIRECT_PTRS
    BY DEF WriteChecked
  <2> QED BY <1>4, <2>1, <2>2, <2>3
<1>6. now <= DIRECT_PTRS
  <2> SUFFICES ASSUME ~(now <= DIRECT_PTRS) PROVE FALSE
    OBVIOUS
  <2>1. DIRECT_PTRS \in Nat /\ DIRECT_PTRS < now
    BY <1>3, SizesAssumption
  <2>2. DIRECT_PTRS \in Now!Index
    BY <1>1, <2>1 DEF Sound, Owned
  <2> QED BY <2>1, <2>2 DEF Now!Index
<1>7. ASSUME NEW y \in 0 .. now - 1
      PROVE  /\ InodesOf(disk)[c.inum].direct[y] \in disk[data_bitmap_addr]
             /\ InodesOf(disk)[c.inum].direct[y] \in Now!DataBlock
             /\ \A z \in 0 .. now - 1 :
                  InodesOf(disk)[c.inum].direct[y] = InodesOf(disk)[c.inum].direct[z] => y = z
  <2>1. y \in Nat /\ y < now
    BY <1>3
  <2>2. \A z \in 0 .. now - 1 : z \in Nat /\ z < now
    BY <1>3
  <2>3. InodesOf(disk)[c.inum].direct[y] \in disk[data_bitmap_addr]
    BY <1>1, <2>1 DEF Sound, Owned
  <2>4. \A z \in 0 .. now - 1 :
          InodesOf(disk)[c.inum].direct[y] = InodesOf(disk)[c.inum].direct[z] => y = z
    BY <1>1, <2>1, <2>2 DEF Sound, Owned
  <2> QED BY <2>3, <2>4 DEF Sound, Typed
<1> QED BY <1>1, <1>2, <1>3, <1>4, <1>5, <1>6, <1>7

LEMMA PointerFields ==
  ASSUME NEW c \in WriteCall, c.x \in Now!Index, NEW b \in Now!Pointer,
         NEW d, d = GotPointer(c, b)
  PROVE  /\ d \in WriteCall
         /\ d.at = (IF c.x + 1 < Now!Blocks(c.size) THEN "alloc" ELSE "inode")
         /\ d.x = c.x + 1 /\ d.inum = c.inum /\ d.size = c.size /\ d.value = c.value
         /\ d.last = c.last
         /\ d.inode.type = c.inode.type /\ d.inode.size = c.inode.size
         /\ \A y \in Now!Index : d.inode.direct[y] = IF y = c.x THEN b ELSE c.inode.direct[y]
<1>1. c.inode \in Now!InodeRecord /\ c.x \in Nat
  BY DEF WriteCall
<1>2. PICK r : r = [c.inode EXCEPT !.direct = [@ EXCEPT ![c.x] = b]]
  OBVIOUS
<1>3. r \in Now!InodeRecord /\ r.type = c.inode.type /\ r.size = c.inode.size
      /\ r.direct = [c.inode.direct EXCEPT ![c.x] = b]
  BY <1>1, <1>2 DEF Now!InodeRecord
<1>4. /\ d.at = (IF c.x + 1 < Now!Blocks(c.size) THEN "alloc" ELSE "inode")
      /\ d.x = c.x + 1 /\ d.inum = c.inum /\ d.size = c.size /\ d.value = c.value
      /\ d.last = c.last /\ d.inode = r
  BY <1>2 DEF GotPointer, WriteCall
<1>5. d \in WriteCall
  <2>1. PICK place : place = IF c.x + 1 < Now!Blocks(c.size) THEN "alloc" ELSE "inode"
    OBVIOUS
  <2>2. d = [c EXCEPT !.inode = r, !.x = c.x + 1, !.at = place]
    BY <1>2, <2>1 DEF GotPointer, WriteCall
  <2>3. place \in {"alloc", "free", "inode"} /\ c.x + 1 \in Nat
    BY <1>1, <2>1
  <2> QED BY <1>3, <2>2, <2>3 DEF WriteCall
<1>6. \A y \in Now!Index : r.direct[y] = IF y = c.x THEN b ELSE c.inode.direct[y]
  BY <1>1, <1>3 DEF Now!InodeRecord
<1> QED BY <1>3, <1>4, <1>5, <1>6

LEMMA LostFields ==
  ASSUME NEW c \in WriteCall, c.x \in Now!Index, NEW d, d = LostPointer(c)
  PROVE  /\ d \in WriteCall
         /\ d.at = (IF c.x + 1 < c.last THEN "free" ELSE "inode")
         /\ d.x = c.x + 1 /\ d.inum = c.inum /\ d.size = c.size /\ d.value = c.value
         /\ d.last = c.last
         /\ d.inode.type = c.inode.type /\ d.inode.size = c.inode.size
         /\ \A y \in Now!Index : d.inode.direct[y] = IF y = c.x THEN Now!Unset ELSE c.inode.direct[y]
<1>1. c.inode \in Now!InodeRecord /\ c.x \in Nat
  BY DEF WriteCall
<1>2. PICK r : r = [c.inode EXCEPT !.direct = [@ EXCEPT ![c.x] = Now!Unset]]
  OBVIOUS
<1>3. r \in Now!InodeRecord /\ r.type = c.inode.type /\ r.size = c.inode.size
      /\ r.direct = [c.inode.direct EXCEPT ![c.x] = Now!Unset]
  BY <1>1, <1>2 DEF Now!InodeRecord, Now!Pointer
<1>4. /\ d.at = (IF c.x + 1 < c.last THEN "free" ELSE "inode")
      /\ d.x = c.x + 1 /\ d.inum = c.inum /\ d.size = c.size /\ d.value = c.value
      /\ d.last = c.last /\ d.inode = r
  BY <1>2 DEF LostPointer, WriteCall
<1>5. d \in WriteCall
  <2>1. PICK place : place = IF c.x + 1 < c.last THEN "free" ELSE "inode"
    OBVIOUS
  <2>2. d = [c EXCEPT !.inode = r, !.x = c.x + 1, !.at = place]
    BY <1>2, <2>1 DEF LostPointer, WriteCall
  <2>3. place \in {"alloc", "free", "inode"} /\ c.x + 1 \in Nat
    BY <1>1, <2>1
  <2> QED BY <1>3, <2>2, <2>3 DEF WriteCall
<1>6. \A y \in Now!Index : r.direct[y] = IF y = c.x THEN Now!Unset ELSE c.inode.direct[y]
  BY <1>1, <1>3 DEF Now!InodeRecord
<1> QED BY <1>3, <1>4, <1>5, <1>6

\* What of WriteFits stays when only the bitmap and the pointers change.
LEMMA WriteUnfilled ==
  ASSUME NEW disk, NEW c, c.at \in {"alloc", "free", "inode"}, NEW data
  PROVE  /\ WriteFilled(disk, c) = {}
         /\ WriteNodes(disk, c) = InodesOf(disk)
         /\ WriteData1(disk, c, data) <=> \A b \in Now!DataBlock : data[b] = DataOf(disk)[b]
<1>1. WriteFilled(disk, c) = {}
  BY DEF WriteFilled
<1>2. WriteNodes(disk, c) = InodesOf(disk)
  BY DEF WriteNodes
<1> QED BY <1>1, <1>2 DEF WriteData1

LEMMA AllocFits ==
  ASSUME NEW disk, Sound(disk), NEW c \in WriteCall, c.at = "alloc",
         NEW v, IsView(v), WriteFits(disk, c, v),
         NEW m, Lowest(m, Now!DataBlock \ v.db),
         NEW d, d = GotPointer(c, m),
         NEW w, w = DataBitsIn(v, v.db \cup {m})
  PROVE  d \in WriteCall /\ WriteFits(disk, d, w)
<1>1. WriteChecked(disk, c) /\ WriteTook(disk, c)
  BY DEF WriteFits
<1>2. PICK now, cnt : now = Now!Blocks(InodesOf(disk)[c.inum].size) /\ cnt = Now!Blocks(c.size)
  OBVIOUS
<1>3. PICK x : x = c.x
  OBVIOUS
<1>4. /\ now \in Nat /\ now <= DIRECT_PTRS /\ cnt \in Nat /\ cnt <= DIRECT_PTRS
      /\ x \in Nat /\ now <= x /\ x < cnt /\ DIRECT_PTRS \in Nat
  <2>1. now \in Nat /\ now <= DIRECT_PTRS /\ cnt \in Nat /\ cnt <= DIRECT_PTRS
    BY <1>1, <1>2, FileOfWrite
  <2>2. now <= x /\ x < cnt
    BY <1>1, <1>2, <1>3 DEF WriteChecked
  <2> QED BY <1>3, <2>1, <2>2, SizesAssumption DEF WriteCall
<1>5. m \in Now!DataBlock /\ m \in Now!Pointer /\ c.x \in Now!Index /\ m \in Int
  <2>1. c.x \in Now!Index
    BY <1>3, <1>4 DEF Now!Index
  <2> QED BY <2>1, SizesAssumption DEF Lowest, Now!Pointer, Now!DataBlock
<1>6. /\ d \in WriteCall
      /\ d.at = (IF x + 1 < cnt THEN "alloc" ELSE "inode")
      /\ d.x = x + 1 /\ d.inum = c.inum /\ d.size = c.size /\ d.value = c.value
      /\ d.last = c.last
      /\ d.inode.type = c.inode.type /\ d.inode.size = c.inode.size
      /\ \A y \in Now!Index : d.inode.direct[y] = IF y = x THEN m ELSE c.inode.direct[y]
  BY <1>2, <1>3, <1>5, PointerFields
<1>7. WriteTaken(disk, c) = now .. x - 1
  BY <1>2, <1>3 DEF WriteTaken
<1>8. WriteTaken(disk, d) = now .. x
  <2>1. CASE x + 1 < cnt
    BY <1>2, <1>4, <1>6, <2>1 DEF WriteTaken
  <2>2. CASE ~(x + 1 < cnt)
    <3>1. x + 1 = cnt
      BY <1>4, <2>2
    <3>2. WriteTaken(disk, d) = now .. cnt - 1
      BY <1>2, <1>6, <2>2 DEF WriteTaken
    <3> QED BY <1>4, <3>1, <3>2
  <2> QED BY <2>1, <2>2
<1>9. WriteGiven(disk, c) = {} /\ WriteGiven(disk, d) = {}
  <2>1. WriteGiven(disk, c) = cnt .. now - 1
    BY <1>2 DEF WriteGiven
  <2>2. WriteGiven(disk, d) = cnt .. now - 1
    BY <1>2, <1>6 DEF WriteGiven
  <2> QED BY <1>4, <2>1, <2>2
<1>10. \A y \in now .. x - 1 : y \in Now!Index /\ d.inode.direct[y] = c.inode.direct[y] /\ y \in now .. x
  <2>1. ASSUME NEW y \in now .. x - 1 PROVE y \in Now!Index /\ y # x /\ y \in now .. x
    BY <1>4 DEF Now!Index
  <2> QED BY <1>6, <2>1
<1>11. d.inode.direct[x] = m /\ x \in Now!Index
  BY <1>3, <1>5, <1>6
<1>12. \A y \in now .. x : y = x \/ y \in now .. x - 1
  BY <1>4
<1>13. PICK free : free = Now!DataBlock \ disk[data_bitmap_addr]
  OBVIOUS
<1>14. /\ v.db = disk[data_bitmap_addr] \cup {c.inode.direct[y] : y \in now .. x - 1}
  BY <1>7, <1>9 DEF WriteFits
<1>15. \A y \in now .. x - 1 :
         /\ c.inode.direct[y] \in free
         /\ \A b \in free : b < c.inode.direct[y] <=> \E z \in now .. x - 1 : z < y /\ c.inode.direct[z] = b
  BY <1>1, <1>7, <1>13 DEF WriteTook
<1>16. free \subseteq Int
  BY <1>13, SizesAssumption DEF Now!DataBlock
<1>17. m \in free /\ m \notin {c.inode.direct[y] : y \in now .. x - 1}
  BY <1>5, <1>13, <1>14 DEF Lowest
<1>18. \A b \in free : m <= b \/ \E z \in now .. x - 1 : c.inode.direct[z] = b
  BY <1>13, <1>14 DEF Lowest
<1>19. \A z \in now .. x - 1 : c.inode.direct[z] < m
  <2> SUFFICES ASSUME NEW z \in now .. x - 1 PROVE c.inode.direct[z] < m
    OBVIOUS
  <2>1. ~(m < c.inode.direct[z])
    BY <1>15, <1>17
  <2>2. c.inode.direct[z] # m /\ c.inode.direct[z] \in Int
    BY <1>15, <1>16, <1>17
  <2> QED BY <1>5, <2>1, <2>2
<1>20. ASSUME NEW y \in now .. x
       PROVE  /\ d.inode.direct[y] \in free
              /\ \A b \in free :
                   b < d.inode.direct[y] <=> \E z \in now .. x : z < y /\ d.inode.direct[z] = b
  <2>1. CASE y = x
    <3>1. ASSUME NEW b \in free, b < m PROVE \E z \in now .. x : z < x /\ d.inode.direct[z] = b
      <4>1. ~(m <= b)
        BY <1>5, <1>16, <3>1
      <4>2. PICK z \in now .. x - 1 : c.inode.direct[z] = b
        BY <1>18, <4>1
      <4>3. z < x
        BY <1>4
      <4> QED BY <1>10, <4>2, <4>3
    <3>2. ASSUME NEW b \in free, NEW z \in now .. x, z < x, d.inode.direct[z] = b PROVE b < m
      <4>1. z \in now .. x - 1
        BY <1>4, <3>2
      <4> QED BY <1>10, <1>19, <3>2, <4>1
    <3> QED BY <1>11, <1>17, <2>1, <3>1, <3>2
  <2>2. CASE y # x
    <3>1. y \in now .. x - 1 /\ d.inode.direct[y] = c.inode.direct[y]
      BY <1>10, <1>12, <2>2
    <3>2. \A z \in now .. x : z < y => z \in now .. x - 1
      BY <1>4, <3>1
    <3>3. \A b : (\E z \in now .. x : z < y /\ d.inode.direct[z] = b)
                 <=> (\E z \in now .. x - 1 : z < y /\ c.inode.direct[z] = b)
      BY <1>10, <3>2
    <3> QED BY <1>15, <3>1, <3>3
  <2> QED BY <2>1, <2>2
<1>21. WriteTook(disk, d)
  <2>1. \A y \in Now!Index \ (now .. x) : d.inode.direct[y] = c.inode.direct[y] /\ y \in Now!Index \ (now .. x - 1)
    <3>1. x \in now .. x /\ \A y \in now .. x - 1 : y \in now .. x
      BY <1>4
    <3> QED BY <1>6, <3>1
  <2>2. \A y \in Now!Index \ (now .. x) : d.inode.direct[y] = InodesOf(disk)[c.inum].direct[y]
    BY <1>1, <1>7, <1>9, <2>1 DEF WriteTook
  <2>3. d.inode.type = Now!UFS_REGULAR_FILE /\ d.inode.size = InodesOf(disk)[c.inum].size
    BY <1>1, <1>6 DEF WriteTook
  <2> QED BY <1>6, <1>8, <1>9, <1>13, <1>20, <2>2, <2>3 DEF WriteTook
<1>22. WriteChecked(disk, d)
  <2>1. d.at = "alloc" => now <= d.x /\ d.x < cnt
    BY <1>4, <1>6
  <2>2. d.at \in {"alloc", "inode"}
    BY <1>6
  <2> QED BY <1>1, <1>2, <1>6, <2>1, <2>2 DEF WriteChecked
<1>23. v.db \cup {m} = disk[data_bitmap_addr] \cup {d.inode.direct[y] : y \in now .. x}
  <2>1. {d.inode.direct[y] : y \in now .. x} = {c.inode.direct[y] : y \in now .. x - 1} \cup {m}
    <3>1. x \in now .. x
      BY <1>4
    <3> QED BY <1>10, <1>11, <1>12, <3>1
  <2> QED BY <1>14, <2>1
<1>24. w.ib = v.ib /\ w.db = v.db \cup {m} /\ w.nodes = v.nodes /\ w.data = v.data
  BY DataBitsParts
<1>25. WriteNodes(disk, d) = WriteNodes(disk, c) /\ WriteData1(disk, d, w.data)
  <2>1. WriteData1(disk, c, v.data)
    BY DEF WriteFits
  <2>2. c.at \in {"alloc", "free", "inode"} /\ d.at \in {"alloc", "free", "inode"}
    BY <1>6
  <2>3. WriteData1(disk, d, v.data) /\ WriteNodes(disk, d) = WriteNodes(disk, c)
    BY <2>1, <2>2, WriteUnfilled
  <2> QED BY <1>24, <2>3
<1>26. w.db = (disk[data_bitmap_addr] \cup {d.inode.direct[y] : y \in WriteTaken(disk, d)})
              \ {InodesOf(disk)[d.inum].direct[y] : y \in WriteGiven(disk, d)}
  BY <1>8, <1>9, <1>23, <1>24
<1> QED BY <1>6, <1>21, <1>22, <1>24, <1>25, <1>26 DEF WriteFits

LEMMA FreeFits ==
  ASSUME NEW disk, Sound(disk), NEW c \in WriteCall, c.at = "free",
         NEW v, IsView(v), WriteFits(disk, c, v),
         NEW d, d = LostPointer(c),
         NEW w, w = DataBitsIn(v, v.db \ {c.inode.direct[c.x]})
  PROVE  d \in WriteCall /\ WriteFits(disk, d, w)
<1>1. WriteChecked(disk, c) /\ WriteTook(disk, c)
  BY DEF WriteFits
<1>2. PICK now, cnt : now = Now!Blocks(InodesOf(disk)[c.inum].size) /\ cnt = Now!Blocks(c.size)
  OBVIOUS
<1>3. PICK x : x = c.x
  OBVIOUS
<1>4. /\ now \in Nat /\ now <= DIRECT_PTRS /\ cnt \in Nat /\ 0 < cnt /\ cnt <= DIRECT_PTRS
      /\ x \in Nat /\ cnt <= x /\ x < now /\ DIRECT_PTRS \in Nat /\ c.last = now
  <2>1. now \in Nat /\ now <= DIRECT_PTRS /\ cnt \in Nat /\ 0 < cnt /\ cnt <= DIRECT_PTRS
    BY <1>1, <1>2, FileOfWrite
  <2>2. cnt <= x /\ x < now /\ c.last = now
    BY <1>1, <1>2, <1>3 DEF WriteChecked
  <2> QED BY <1>3, <2>1, <2>2, SizesAssumption DEF WriteCall
<1>5. x \in Now!Index
  BY <1>4 DEF Now!Index
<1>6. /\ d \in WriteCall
      /\ d.at = (IF x + 1 < now THEN "free" ELSE "inode")
      /\ d.x = x + 1 /\ d.inum = c.inum /\ d.size = c.size /\ d.value = c.value
      /\ d.last = c.last
      /\ d.inode.type = c.inode.type /\ d.inode.size = c.inode.size
      /\ \A y \in Now!Index : d.inode.direct[y] = IF y = x THEN Now!Unset ELSE c.inode.direct[y]
  BY <1>3, <1>4, <1>5, LostFields
<1>7. WriteTaken(disk, c) = {} /\ WriteTaken(disk, d) = {}
  <2>1. WriteTaken(disk, c) = now .. cnt - 1
    BY <1>2 DEF WriteTaken
  <2>2. WriteTaken(disk, d) = now .. cnt - 1
    BY <1>2, <1>6 DEF WriteTaken
  <2> QED BY <1>4, <2>1, <2>2
<1>8. WriteGiven(disk, c) = cnt .. x - 1
  BY <1>2, <1>3 DEF WriteGiven
<1>9. WriteGiven(disk, d) = cnt .. x
  <2>1. CASE x + 1 < now
    BY <1>2, <1>4, <1>6, <2>1 DEF WriteGiven
  <2>2. CASE ~(x + 1 < now)
    <3>1. x + 1 = now
      BY <1>4, <2>2
    <3>2. WriteGiven(disk, d) = cnt .. now - 1
      BY <1>2, <1>6, <2>2 DEF WriteGiven
    <3> QED BY <1>4, <3>1, <3>2
  <2> QED BY <2>1, <2>2
<1>10. x \notin cnt .. x - 1 /\ x \in cnt .. x /\ \A y \in cnt .. x : y = x \/ y \in cnt .. x - 1
  BY <1>4
<1>11. \A y \in cnt .. x - 1 : y \in cnt .. x /\ y # x
  BY <1>4
<1>12. c.inode.direct[x] = InodesOf(disk)[c.inum].direct[x]
  BY <1>1, <1>5, <1>7, <1>8, <1>10 DEF WriteTook
<1>13. WriteTook(disk, d)
  <2>1. ASSUME NEW y \in Now!Index
        PROVE  d.inode.direct[y] = IF y \in cnt .. x THEN Now!Unset ELSE InodesOf(disk)[c.inum].direct[y]
    <3>1. c.inode.direct[y] = IF y \in cnt .. x - 1 THEN Now!Unset ELSE InodesOf(disk)[c.inum].direct[y]
      BY <1>1, <1>7, <1>8 DEF WriteTook
    <3> QED BY <1>6, <1>10, <1>11, <3>1
  <2>2. d.inode.type = Now!UFS_REGULAR_FILE /\ d.inode.size = InodesOf(disk)[c.inum].size
    BY <1>1, <1>6 DEF WriteTook
  <2> QED BY <1>6, <1>7, <1>9, <2>1, <2>2 DEF WriteTook
<1>14. WriteChecked(disk, d)
  <2>1. d.at = "free" => cnt <= d.x /\ d.x < now /\ d.last = now
    BY <1>4, <1>6
  <2>2. d.at \in {"free", "inode"}
    BY <1>6
  <2> QED BY <1>1, <1>2, <1>6, <2>1, <2>2 DEF WriteChecked
<1>15. PICK q : q = InodesOf(disk)[c.inum].direct
  OBVIOUS
<1>16. {q[y] : y \in cnt .. x} = {q[y] : y \in cnt .. x - 1} \cup {q[x]}
  BY <1>10, <1>11
<1>17. v.db = disk[data_bitmap_addr] \ {q[y] : y \in cnt .. x - 1}
  BY <1>7, <1>8, <1>15 DEF WriteFits
<1>18. v.db \ {c.inode.direct[c.x]} = disk[data_bitmap_addr] \ {q[y] : y \in cnt .. x}
  BY <1>3, <1>12, <1>15, <1>16, <1>17
<1>19. w.ib = v.ib /\ w.db = v.db \ {c.inode.direct[c.x]} /\ w.nodes = v.nodes /\ w.data = v.data
  BY DataBitsParts
<1>20. WriteNodes(disk, d) = WriteNodes(disk, c) /\ WriteData1(disk, d, w.data)
  <2>1. d.at \in {"alloc", "free", "inode"} /\ c.at \in {"alloc", "free", "inode"}
    BY <1>6
  <2>2. WriteData1(disk, c, v.data)
    BY DEF WriteFits
  <2> QED BY <1>19, <2>1, <2>2, WriteUnfilled
<1>21. w.db = (disk[data_bitmap_addr] \cup {d.inode.direct[y] : y \in WriteTaken(disk, d)})
              \ {InodesOf(disk)[d.inum].direct[y] : y \in WriteGiven(disk, d)}
  <2>1. InodesOf(disk)[d.inum].direct = q
    BY <1>6, <1>15
  <2>2. {d.inode.direct[y] : y \in WriteTaken(disk, d)} = {}
    BY <1>7
  <2>3. {InodesOf(disk)[d.inum].direct[y] : y \in WriteGiven(disk, d)} = {q[y] : y \in cnt .. x}
    BY <1>9, <2>1
  <2> QED BY <1>18, <1>19, <2>2, <2>3
<1> QED BY <1>6, <1>13, <1>14, <1>19, <1>20, <1>21 DEF WriteFits

\* From the inode on, the pointers stay.
LEMMA PointersStay ==
  ASSUME NEW disk, NEW c, NEW d, c.at \in {"inode", "data"}, d.at \in {"data", "commit"},
         d.inum = c.inum, d.inode = c.inode, d.size = c.size
  PROVE  /\ WriteTaken(disk, d) = WriteTaken(disk, c)
         /\ WriteGiven(disk, d) = WriteGiven(disk, c)
         /\ WriteTook(disk, c) => WriteTook(disk, d)
<1>1. WriteTaken(disk, d) = WriteTaken(disk, c)
  BY DEF WriteTaken
<1>2. WriteGiven(disk, d) = WriteGiven(disk, c)
  BY DEF WriteGiven
<1> QED BY <1>1, <1>2 DEF WriteTook

Sized(c) == [c.inode EXCEPT !.size = c.size]
ToData(c) == [c EXCEPT !.x = 0, !.at = "data"]

LEMMA WriteInodeFits ==
  ASSUME NEW disk, Sound(disk), NEW c \in WriteCall, c.at = "inode",
         NEW v, IsView(v), WriteFits(disk, c, v),
         NEW d, d = ToData(c),
         NEW w, w = InodeIn(v, c.inum, Sized(c))
  PROVE  /\ Sized(c) \in Now!InodeRecord
         /\ d \in WriteCall /\ WriteFits(disk, d, w)
<1>1. WriteChecked(disk, c) /\ WriteTook(disk, c)
  BY DEF WriteFits
<1>2. c.size \in Nat /\ 0 < Now!Blocks(c.size)
  BY <1>1, FileOfWrite
<1>3. Sized(c) \in Now!InodeRecord
  BY <1>2 DEF WriteCall, Sized, Now!InodeRecord
<1>4. /\ d \in WriteCall
      /\ d.at = "data" /\ d.x = 0 /\ d.inum = c.inum /\ d.size = c.size /\ d.value = c.value
      /\ d.last = c.last /\ d.inode = c.inode
  BY DEF WriteCall, ToData
<1>5. /\ WriteTaken(disk, d) = WriteTaken(disk, c)
      /\ WriteGiven(disk, d) = WriteGiven(disk, c)
      /\ WriteTook(disk, d)
  BY <1>1, <1>4, PointersStay
<1>6. WriteChecked(disk, d)
  BY <1>1, <1>2, <1>4 DEF WriteChecked
<1>7. w.ib = v.ib /\ w.db = v.db /\ w.data = v.data
      /\ w.nodes = [v.nodes EXCEPT ![c.inum] = Sized(c)]
  BY InodeParts
<1>8. v.nodes = InodesOf(disk) /\ \A b \in Now!DataBlock : v.data[b] = DataOf(disk)[b]
  BY WriteUnfilled DEF WriteFits
<1>9. w.nodes = WriteNodes(disk, d)
  BY <1>4, <1>7, <1>8 DEF WriteNodes, Sized
<1>10. WriteData1(disk, d, w.data)
  <2>1. WriteFilled(disk, d) = {}
    BY <1>4 DEF WriteFilled
  <2> QED BY <1>7, <1>8, <2>1 DEF WriteData1
<1>11. w.db = (disk[data_bitmap_addr] \cup {d.inode.direct[y] : y \in WriteTaken(disk, d)})
              \ {InodesOf(disk)[d.inum].direct[y] : y \in WriteGiven(disk, d)}
  BY <1>4, <1>5, <1>7 DEF WriteFits
<1> QED BY <1>3, <1>4, <1>5, <1>6, <1>7, <1>9, <1>10, <1>11 DEF WriteFits

\* The file at its new size has as many different blocks as it needs.
LEMMA NewPointers ==
  ASSUME NEW disk, Sound(disk), NEW c \in WriteCall, c.at \in {"inode", "data", "commit"},
         WriteChecked(disk, c), WriteTook(disk, c),
         NEW y \in 0 .. Now!Blocks(c.size) - 1
  PROVE  /\ y \in Now!Index
         /\ c.inode.direct[y] \in Now!DataBlock
         /\ \A z \in 0 .. Now!Blocks(c.size) - 1 : c.inode.direct[z] = c.inode.direct[y] => z = y
<1>1. PICK now, cnt : now = Now!Blocks(InodesOf(disk)[c.inum].size) /\ cnt = Now!Blocks(c.size)
  OBVIOUS
<1>2. now \in Nat /\ now <= DIRECT_PTRS /\ cnt \in Nat /\ 0 < cnt /\ cnt <= DIRECT_PTRS
  BY <1>1, FileOfWrite
<1>3. WriteTaken(disk, c) = now .. cnt - 1 /\ WriteGiven(disk, c) = cnt .. now - 1
  BY <1>1 DEF WriteTaken, WriteGiven
<1>4. PICK q : q = InodesOf(disk)[c.inum].direct
  OBVIOUS
<1>5. \A z \in 0 .. now - 1 :
        /\ q[z] \in disk[data_bitmap_addr] /\ q[z] \in Now!DataBlock
        /\ \A u \in 0 .. now - 1 : q[z] = q[u] => z = u
  BY <1>1, <1>4, FileOfWrite
<1>6. PICK free : free = Now!DataBlock \ disk[data_bitmap_addr]
  OBVIOUS
<1>7. \A z \in now .. cnt - 1 :
        /\ c.inode.direct[z] \in free
        /\ \A b \in free :
             b < c.inode.direct[z] <=> \E u \in now .. cnt - 1 : u < z /\ c.inode.direct[u] = b
  BY <1>3, <1>6 DEF WriteTook
<1>8. ASSUME NEW z \in 0 .. cnt - 1
      PROVE  /\ z \in Now!Index
             /\ z < now => c.inode.direct[z] = q[z] /\ z \in 0 .. now - 1
             /\ ~(z < now) => z \in now .. cnt - 1
  <2>1. /\ z \in Now!Index
        /\ z < now => z \in 0 .. now - 1 /\ z \notin now .. cnt - 1
        /\ z \notin cnt .. now - 1
        /\ ~(z < now) => z \in now .. cnt - 1
    BY <1>2, SizesAssumption DEF Now!Index
  <2>2. z < now => c.inode.direct[z] = q[z]
    BY <1>3, <1>4, <2>1 DEF WriteTook
  <2> QED BY <2>1, <2>2
<1>9. free \subseteq Int
  BY <1>6, SizesAssumption DEF Now!DataBlock
<1>10. \A z, u \in now .. cnt - 1 : z < u => c.inode.direct[z] # c.inode.direct[u]
  <2> SUFFICES ASSUME NEW z \in now .. cnt - 1, NEW u \in now .. cnt - 1, z < u
               PROVE  c.inode.direct[z] # c.inode.direct[u]
    OBVIOUS
  <2>1. c.inode.direct[z] \in free /\ c.inode.direct[u] \in free
    BY <1>7
  <2>2. c.inode.direct[z] < c.inode.direct[u]
    BY <1>7, <2>1
  <2>3. c.inode.direct[z] \in Int /\ c.inode.direct[u] \in Int
    BY <1>9, <2>1
  <2> QED BY <2>2, <2>3
<1>11. ASSUME NEW z \in 0 .. cnt - 1, NEW u \in 0 .. cnt - 1, c.inode.direct[z] = c.inode.direct[u]
       PROVE  z = u
  <2>1. CASE z < now /\ u < now
    BY <1>5, <1>8, <1>11, <2>1
  <2>2. CASE z < now /\ ~(u < now)
    BY <1>5, <1>6, <1>7, <1>8, <1>11, <2>2
  <2>3. CASE ~(z < now) /\ u < now
    BY <1>5, <1>6, <1>7, <1>8, <1>11, <2>3
  <2>4. CASE ~(z < now) /\ ~(u < now)
    <3>1. z \in now .. cnt - 1 /\ u \in now .. cnt - 1
      BY <1>8, <2>4
    <3>2. ~(z < u) /\ ~(u < z)
      BY <1>10, <1>11, <3>1
    <3> QED BY <1>2, <3>2
  <2> QED BY <2>1, <2>2, <2>3, <2>4
<1>12. c.inode.direct[y] \in Now!DataBlock
  BY <1>1, <1>5, <1>6, <1>7, <1>8
<1> QED BY <1>1, <1>8, <1>11, <1>12

LEMMA WriteDataFits ==
  ASSUME NEW disk, Sound(disk), NEW c \in WriteCall, c.at = "data",
         NEW v, IsView(v), WriteFits(disk, c, v),
         NEW b, b = c.inode.direct[c.x],
         NEW d, d = Wrote1(c),
         NEW w, w = DataIn(v, b, Now!FileBlock(c.value, c.size, c.x))
  PROVE  /\ b \in Now!DataBlock
         /\ d \in WriteCall /\ WriteFits(disk, d, w)
<1>1. WriteChecked(disk, c) /\ WriteTook(disk, c)
  BY DEF WriteFits
<1>2. PICK cnt : cnt = Now!Blocks(c.size)
  OBVIOUS
<1>3. PICK x : x = c.x
  OBVIOUS
<1>4. x \in Nat /\ x < cnt /\ cnt \in Nat
  BY <1>1, <1>2, <1>3, FileOfWrite DEF WriteChecked, WriteCall
<1>5. x \in 0 .. cnt - 1
  BY <1>4
<1>6. /\ b \in Now!DataBlock
      /\ \A y \in 0 .. cnt - 1 : c.inode.direct[y] = b => y = x
  BY <1>1, <1>2, <1>3, <1>5, NewPointers
<1>7. /\ d \in WriteCall
      /\ d.at = (IF x + 1 < cnt THEN "data" ELSE "commit")
      /\ d.x = x + 1 /\ d.inum = c.inum /\ d.size = c.size /\ d.value = c.value
      /\ d.last = c.last /\ d.inode = c.inode
  <2>1. PICK place : place = IF x + 1 < cnt THEN "data" ELSE "commit"
    OBVIOUS
  <2>2. d = [c EXCEPT !.x = x + 1, !.at = place]
    BY <1>2, <1>3, <2>1 DEF WriteCall, Wrote1
  <2>3. place \in {"data", "commit"} /\ x + 1 \in Nat
    BY <1>4, <2>1
  <2>4. d \in WriteCall
    BY <2>2, <2>3 DEF WriteCall
  <2> QED BY <2>1, <2>2, <2>4 DEF WriteCall
<1>8. /\ WriteTaken(disk, d) = WriteTaken(disk, c)
      /\ WriteGiven(disk, d) = WriteGiven(disk, c)
      /\ WriteTook(disk, d)
  <2>1. d.at \in {"data", "commit"}
    BY <1>7
  <2> QED BY <1>1, <1>7, <2>1, PointersStay
<1>9. WriteChecked(disk, d)
  <2>1. d.at \in {"data", "commit"} /\ (d.at = "data" => d.x < cnt)
    BY <1>7
  <2> QED BY <1>1, <1>2, <1>7, <2>1 DEF WriteChecked
<1>10. WriteFilled(disk, c) = 0 .. x - 1
  BY <1>3 DEF WriteFilled
<1>11. WriteFilled(disk, d) = 0 .. x
  <2>1. CASE x + 1 < cnt
    BY <1>4, <1>7, <2>1 DEF WriteFilled
  <2>2. CASE ~(x + 1 < cnt)
    <3>1. x = cnt - 1
      BY <1>4, <2>2
    <3> QED BY <1>2, <1>7, <2>2, <3>1 DEF WriteFilled
  <2> QED BY <2>1, <2>2
<1>12. /\ \A y \in 0 .. x : y = x \/ y \in 0 .. x - 1
       /\ \A y \in 0 .. x - 1 : y \in 0 .. x /\ y # x /\ y \in 0 .. cnt - 1
       /\ x \in 0 .. x
  BY <1>4
<1>13. /\ w.ib = v.ib /\ w.db = v.db /\ w.nodes = v.nodes
       /\ w.data[b] = Now!FileBlock(c.value, c.size, x)
       /\ \A a \in Now!DataBlock \ {b} : w.data[a] = v.data[a]
  BY <1>3, <1>6, DataParts
<1>14. /\ \A y \in 0 .. x - 1 : v.data[c.inode.direct[y]] = Now!FileBlock(c.value, c.size, y)
       /\ \A a \in Now!DataBlock :
            (\A y \in 0 .. x - 1 : c.inode.direct[y] # a) => v.data[a] = DataOf(disk)[a]
  BY <1>10 DEF WriteFits, WriteData1
<1>15. \A y \in 0 .. x - 1 : c.inode.direct[y] \in Now!DataBlock \ {b}
  <2>1. \A y \in 0 .. cnt - 1 : c.inode.direct[y] \in Now!DataBlock
    BY <1>1, <1>2, NewPointers
  <2> QED BY <1>6, <1>12, <2>1
<1>16. \A y \in 0 .. x : w.data[c.inode.direct[y]] = Now!FileBlock(c.value, c.size, y)
  BY <1>3, <1>12, <1>13, <1>14, <1>15
<1>17. ASSUME NEW a \in Now!DataBlock, \A y \in 0 .. x : c.inode.direct[y] # a
       PROVE  w.data[a] = DataOf(disk)[a]
  <2>1. a # b
    BY <1>3, <1>12, <1>17
  <2>2. \A y \in 0 .. x - 1 : c.inode.direct[y] # a
    BY <1>12, <1>17
  <2> QED BY <1>13, <1>14, <2>1, <2>2
<1>18. WriteData1(disk, d, w.data)
  BY <1>7, <1>11, <1>16, <1>17, ZenonT(60) DEF WriteData1
<1>19. w.nodes = WriteNodes(disk, d)
  <2>1. d.at \in {"data", "commit"}
    BY <1>7
  <2> QED BY <1>7, <1>13, <2>1 DEF WriteNodes, WriteFits
<1>20. w.db = (disk[data_bitmap_addr] \cup {d.inode.direct[y] : y \in WriteTaken(disk, d)})
              \ {InodesOf(disk)[d.inum].direct[y] : y \in WriteGiven(disk, d)}
  <2>1. v.db = (disk[data_bitmap_addr] \cup {c.inode.direct[y] : y \in WriteTaken(disk, c)})
                 \ {InodesOf(disk)[c.inum].direct[y] : y \in WriteGiven(disk, c)}
    BY DEF WriteFits
  <2>2. d.inode = c.inode /\ d.inum = c.inum
    BY <1>7
  <2>3. {d.inode.direct[y] : y \in WriteTaken(disk, d)} = {c.inode.direct[y] : y \in WriteTaken(disk, c)}
    BY <1>8, <2>2
  <2>4. {InodesOf(disk)[d.inum].direct[y] : y \in WriteGiven(disk, d)}
          = {InodesOf(disk)[c.inum].direct[y] : y \in WriteGiven(disk, c)}
    BY <1>8, <2>2
  <2> QED BY <1>13, <2>1, <2>3, <2>4
<1>21. w.ib = disk[inode_bitmap_addr]
  BY <1>13 DEF WriteFits
<1> QED BY <1>6, <1>7, <1>8, <1>9, <1>18, <1>19, <1>20, <1>21 DEF WriteFits
-----------------------------------------------------------------------------
(* The steps of write.                                                     *)

LEMMA WriteAt ==
  ASSUME SInv, call.at \in {"alloc", "free", "inode", "data"}
  PROVE  /\ Working /\ Shaped(image) /\ Sound(stable) /\ IsView(View(image))
         /\ call \in WriteCall /\ WriteFits(stable, call, View(image))
<1>1. Working /\ Shaped(image) /\ Sound(stable)
  BY AtWork
<1>2. call \notin CreateCall /\ call \notin UnlinkCall
  BY DEF CreateCall, UnlinkCall
<1> QED BY <1>1, <1>2, ViewIsView DEF Working, Fits

LEMMA WriteGoesOn ==
  ASSUME Device', stable' = stable, isInTransaction' = TRUE, iter' = 0, Shaped(image'),
         call' \in WriteCall, call'.at # "rollback", WriteFits(stable, call', View(image'))
  PROVE  SInv'
<1>1. Fits(stable, call', View(image'))
  BY DEF Fits
<1> QED BY <1>1, GoesOn

LEMMA WriteAllocStep == ASSUME SInv, WriteAlloc PROVE SInv'
<1>1. call.at = "alloc"
  BY DEF WriteAlloc, At
<1>2. /\ Working /\ Shaped(image) /\ Sound(stable) /\ IsView(View(image))
      /\ call \in WriteCall /\ WriteFits(stable, call, View(image))
  BY <1>1, WriteAt
<1>3. PICK next : next = [b \in Now!DataBlock |-> GotPointer(call, b)]
  OBVIOUS
<1>4. TakeBit(data_bitmap_addr, DataBits, next)
  BY <1>3 DEF WriteAlloc, GotPointer
<1>5. /\ Device' /\ stable' = stable
      /\ isInTransaction' = TRUE /\ iter' = 0
      /\ Shaped(image')
      /\ \/ call' = Moved(call, "fail")
         \/ \E m \in DOMAIN next :
              /\ Lowest(m, (0 .. DataBits - 1) \ image[data_bitmap_addr])
              /\ image' = Wrote(image, data_bitmap_addr, image[data_bitmap_addr] \cup {m})
              /\ call' = next[m]
  <2>1. DataBits \in Nat
    BY BitsAssumption
  <2> QED BY <1>2, <1>4, <2>1, BitTaken
<1>6. CASE call' = Moved(call, "fail")
  BY <1>2, <1>5, <1>6, CallFails
<1>7. ASSUME NEW m \in DOMAIN next,
             Lowest(m, (0 .. DataBits - 1) \ image[data_bitmap_addr]),
             image' = Wrote(image, data_bitmap_addr, image[data_bitmap_addr] \cup {m}),
             call' = next[m]
      PROVE  SInv'
  <2>1. m \in Now!DataBlock /\ call' = GotPointer(call, m)
    BY <1>3, <1>7
  <2>2. Lowest(m, Now!DataBlock \ image[data_bitmap_addr])
    BY <1>7, <2>1, LowestInRegion
  <2>3. View(image).db = image[data_bitmap_addr]
    BY DEF View
  <2>4. image[data_bitmap_addr] \cup {m} \subseteq Int
    BY <1>2, <2>1, SizesAssumption DEF Shaped, Now!DataBlock
  <2>5. View(image') = DataBitsIn(View(image), View(image).db \cup {m})
    BY <1>2, <1>7, <2>3, <2>4, PutDataBitmap
  <2>6. call' \in WriteCall /\ WriteFits(stable, call', View(image'))
    BY <1>1, <1>2, <2>1, <2>2, <2>3, <2>5, AllocFits
  <2>7. call'.at # "rollback"
    BY <1>2, <2>1 DEF GotPointer, WriteCall
  <2> QED BY <1>5, <2>6, <2>7, WriteGoesOn
<1> QED BY <1>5, <1>6, <1>7

LEMMA WriteFreeStep == ASSUME SInv, WriteFree PROVE SInv'
<1>1. call.at = "free"
  BY DEF WriteFree, At
<1>2. /\ Working /\ Shaped(image) /\ Sound(stable) /\ IsView(View(image))
      /\ call \in WriteCall /\ WriteFits(stable, call, View(image))
  BY <1>1, WriteAt
<1>3. PICK X : X = image[data_bitmap_addr] \ {call.inode.direct[call.x]}
  OBVIOUS
<1>4. Put(data_bitmap_addr, X) /\ call' = LostPointer(call)
  BY <1>3 DEF WriteFree, ClearBit, LostPointer
<1>5. X \subseteq Int
  BY <1>2, <1>3 DEF Shaped
<1>6. /\ image' = Wrote(image, data_bitmap_addr, X)
      /\ Device' /\ stable' = stable
      /\ isInTransaction' = TRUE /\ iter' = 0
      /\ Shaped(image')
  BY <1>2, <1>4, <1>5, BitmapWritten
<1>7. View(image).db = image[data_bitmap_addr]
  BY DEF View
<1>8. View(image') = DataBitsIn(View(image), X)
  BY <1>2, <1>5, <1>6, PutDataBitmap
<1>9. View(image') = DataBitsIn(View(image), View(image).db \ {call.inode.direct[call.x]})
  BY <1>3, <1>7, <1>8
<1>10. call' \in WriteCall /\ WriteFits(stable, call', View(image'))
  BY <1>1, <1>2, <1>4, <1>9, FreeFits
<1>11. call'.at # "rollback"
  BY <1>2, <1>4 DEF LostPointer, WriteCall
<1> QED BY <1>6, <1>10, <1>11, WriteGoesOn

LEMMA WriteInodeStep == ASSUME SInv, WriteInode PROVE SInv'
<1>1. call.at = "inode"
  BY DEF WriteInode, At
<1>2. /\ Working /\ Shaped(image) /\ Sound(stable) /\ IsView(View(image))
      /\ call \in WriteCall /\ WriteFits(stable, call, View(image))
  BY <1>1, WriteAt
<1>3. PICK r : r = Sized(call)
  OBVIOUS
<1>4. /\ Put(InodeBlock(call.inum), WithInode(call.inum, r))
      /\ call' = ToData(call)
  BY <1>3 DEF WriteInode, Sized, ToData
<1>5. call.inum \in Now!Inode /\ r \in Now!InodeRecord
  BY <1>1, <1>2, <1>3, WriteInodeFits DEF WriteCall
<1>6. /\ Device' /\ stable' = stable
      /\ isInTransaction' = TRUE /\ iter' = 0
      /\ Shaped(image')
      /\ View(image') = InodeIn(View(image), call.inum, r)
  BY <1>2, <1>4, <1>5, InodeWritten
<1>7. call' \in WriteCall /\ WriteFits(stable, call', View(image'))
  BY <1>1, <1>2, <1>3, <1>4, <1>6, WriteInodeFits
<1>8. call'.at # "rollback"
  BY <1>2, <1>4 DEF ToData, WriteCall
<1> QED BY <1>6, <1>7, <1>8, WriteGoesOn

LEMMA FileBlockIsTyped ==
  ASSUME NEW c \in WriteCall
  PROVE  Now!FileBlock(c.value, c.size, c.x) \in DataBlocks
<1>1. c.value \in Values /\ c.size \in Int /\ c.x \in Nat
  BY SizesAssumption DEF WriteCall
<1>2. ASSUME NEW s \in Now!Slot
      PROVE  Now!Entry(c.value, c.x * UFS_BLOCK_SIZE + s) \in Now!Cell
  <2>1. c.x * UFS_BLOCK_SIZE + s \in Int
    BY <1>1, SizesAssumption DEF Now!Slot
  <2> QED BY <1>1, <2>1 DEF Now!Entry, Now!Cell
<1>3. Now!Entry("inode", 0) \in Now!Cell
  BY DEF Now!Entry, Now!Cell
<1> QED BY <1>2, <1>3 DEF Now!FileBlock, DataBlocks

LEMMA WriteDataStep == ASSUME SInv, WriteData PROVE SInv'
<1>1. call.at = "data"
  BY DEF WriteData, At
<1>2. /\ Working /\ Shaped(image) /\ Sound(stable) /\ IsView(View(image))
      /\ call \in WriteCall /\ WriteFits(stable, call, View(image))
  BY <1>1, WriteAt
<1>3. PICK b : b = call.inode.direct[call.x]
  OBVIOUS
<1>4. PICK e : e = Now!FileBlock(call.value, call.size, call.x)
  OBVIOUS
<1>5. b \in Now!DataBlock /\ e \in DataBlocks
  BY <1>1, <1>2, <1>3, <1>4, WriteDataFits, FileBlockIsTyped
<1>6. Put(data_region_addr + b, e) /\ call' = Wrote1(call)
  BY <1>3, <1>4, <1>5, AddressOfBlock DEF WriteData, Wrote1
<1>7. /\ Device' /\ stable' = stable
      /\ isInTransaction' = TRUE /\ iter' = 0
      /\ Shaped(image')
      /\ View(image') = DataIn(View(image), b, e)
  BY <1>2, <1>5, <1>6, DataWritten
<1>8. call' \in WriteCall /\ WriteFits(stable, call', View(image'))
  BY <1>1, <1>2, <1>3, <1>4, <1>6, <1>7, WriteDataFits
<1>9. call'.at # "rollback"
  BY <1>2, <1>6 DEF Wrote1, WriteCall
<1> QED BY <1>7, <1>8, <1>9, WriteGoesOn
-----------------------------------------------------------------------------
(* unlink, place by place.                                                 *)

Found(c, t) == [c EXCEPT !.new = t, !.at = "compact"]
NextMoved(disk, c) ==
  [c EXCEPT !.x = @ + 1,
            !.at = IF c.x + 1 < Shorter(disk, c.inum) THEN "compact"
                   ELSE IF Now!Blocks(InodesOf(disk)[c.inum].size) # Shorter(disk, c.inum)
                     THEN "shrink" ELSE "shorten"]
ToTarget(disk, c) ==
  [c EXCEPT !.x = 0, !.at = IF InodesOf(disk)[c.new].size = 0 THEN "bit" ELSE "bits"]
NextGone(disk, c) ==
  [c EXCEPT !.x = @ + 1,
            !.at = IF c.x + 1 < Now!Blocks(InodesOf(disk)[c.new].size) THEN "bits" ELSE "bit"]

\* A file or a directory as it was: its blocks are different data blocks.
LEMMA BlocksOfInode ==
  ASSUME NEW disk, Sound(disk), NEW i \in disk[inode_bitmap_addr],
         NEW now, now = Now!Blocks(InodesOf(disk)[i].size)
  PROVE  /\ i \in Now!Inode /\ InodesOf(disk)[i] \in Now!InodeRecord
         /\ InodesOf(disk)[i].size \in Nat
         /\ now \in Nat /\ now <= DIRECT_PTRS
         /\ \A y \in 0 .. now - 1 :
              /\ InodesOf(disk)[i].direct[y] \in disk[data_bitmap_addr]
              /\ InodesOf(disk)[i].direct[y] \in Now!DataBlock
              /\ \A z \in 0 .. now - 1 :
                   InodesOf(disk)[i].direct[y] = InodesOf(disk)[i].direct[z] => y = z
<1>1. i \in Now!Inode /\ InodesOf(disk)[i] \in Now!InodeRecord
  BY DEF Sound, Typed
<1>2. now \in Nat /\ InodesOf(disk)[i].size \in Nat
  BY <1>1, BlocksBound DEF Now!InodeRecord
<1>3. now <= DIRECT_PTRS
  <2> SUFFICES ASSUME ~(now <= DIRECT_PTRS) PROVE FALSE
    OBVIOUS
  <2>1. DIRECT_PTRS \in Nat /\ DIRECT_PTRS < now
    BY <1>2, SizesAssumption
  <2>2. DIRECT_PTRS \in Now!Index
    BY <2>1 DEF Sound, Owned
  <2> QED BY <2>1, <2>2 DEF Now!Index
<1>4. ASSUME NEW y \in 0 .. now - 1
      PROVE  /\ InodesOf(disk)[i].direct[y] \in disk[data_bitmap_addr]
             /\ InodesOf(disk)[i].direct[y] \in Now!DataBlock
             /\ \A z \in 0 .. now - 1 :
                  InodesOf(disk)[i].direct[y] = InodesOf(disk)[i].direct[z] => y = z
  <2>1. y \in Nat /\ y < now
    BY <1>2
  <2>2. \A z \in 0 .. now - 1 : z \in Nat /\ z < now
    BY <1>2
  <2>3. InodesOf(disk)[i].direct[y] \in disk[data_bitmap_addr]
    BY <2>1 DEF Sound, Owned
  <2>4. \A z \in 0 .. now - 1 :
          InodesOf(disk)[i].direct[y] = InodesOf(disk)[i].direct[z] => y = z
    BY <2>1, <2>2 DEF Sound, Owned
  <2> QED BY <2>3, <2>4 DEF Sound, Typed
<1> QED BY <1>1, <1>2, <1>3, <1>4

LEMMA ShorterByOne ==
  ASSUME NEW n \in Nat, n >= 2
  PROVE  /\ n - 1 \in Nat /\ Now!Blocks(n - 1) \in Nat /\ Now!Blocks(n) \in Nat
         /\ 0 < Now!Blocks(n - 1) /\ Now!Blocks(n - 1) <= Now!Blocks(n)
         /\ Now!Blocks(n) <= Now!Blocks(n - 1) + 1
<1>1. n - 1 \in Nat
  OBVIOUS
<1>2. PICK after, before : after = Now!Blocks(n - 1) /\ before = Now!Blocks(n)
  OBVIOUS
<1>3. after \in Nat /\ before \in Nat
  BY <1>1, <1>2, BlocksBound
<1>4. after <= 0 <=> n - 1 <= 0 * UFS_BLOCK_SIZE
  BY <1>1, <1>2, BlocksBound
<1>5. after <= before <=> n - 1 <= before * UFS_BLOCK_SIZE
  BY <1>1, <1>2, <1>3, BlocksBound
<1>6. before <= before <=> n <= before * UFS_BLOCK_SIZE
  BY <1>2, <1>3, BlocksBound
<1>7. after <= after <=> n - 1 <= after * UFS_BLOCK_SIZE
  BY <1>1, <1>2, <1>3, BlocksBound
<1>8. before <= after + 1 <=> n <= (after + 1) * UFS_BLOCK_SIZE
  <2>1. after + 1 \in Nat
    BY <1>3
  <2> QED BY <1>2, <2>1, BlocksBound
<1>9. /\ UFS_BLOCK_SIZE \in Nat /\ UFS_BLOCK_SIZE >= 2
      /\ (after + 1) * UFS_BLOCK_SIZE = after * UFS_BLOCK_SIZE + UFS_BLOCK_SIZE
      /\ after * UFS_BLOCK_SIZE \in Nat /\ before * UFS_BLOCK_SIZE \in Nat
      /\ 0 * UFS_BLOCK_SIZE = 0
  BY <1>3, SizesAssumption
<1> QED BY <1>1, <1>2, <1>3, <1>4, <1>5, <1>6, <1>7, <1>8, <1>9

\* The parent and the target.
LEMMA TargetOfUnlink ==
  ASSUME NEW disk, Sound(disk), NEW c \in UnlinkCall, UnlinkChecked(disk, c), c.at # "find",
         NEW e, e = Min(Im(disk)!UnlinkHits(c.inum, c.name)),
         NEW before, before = Now!Blocks(InodesOf(disk)[c.inum].size),
         NEW after, after = Shorter(disk, c.inum)
  PROVE  /\ c.inum \in disk[inode_bitmap_addr] /\ c.new \in disk[inode_bitmap_addr]
         /\ c.new # c.inum
         /\ e \in Nat
         /\ InodesOf(disk)[c.inum].size \in Nat /\ InodesOf(disk)[c.inum].size >= 2
         /\ before \in Nat /\ after \in Nat /\ 0 < after /\ after <= before /\ before <= after + 1
         /\ before <= DIRECT_PTRS
         /\ \A x \in 0 .. after - 1 : Im(disk)!CompactedBlock(c.inum, e, x) \in DataBlocks
<1>1. /\ Im(disk)!UnlinkReturn(c.inum, c.name) = 0
      /\ c.new = Im(disk)!EntryAt(c.inum, e).inum
      /\ c.inum \in Now!Inode /\ c.name \in Names \cup {LongName}
  BY DEF UnlinkChecked, UnlinkCall
<1>2. /\ c.inum \in disk[inode_bitmap_addr]
      /\ InodesOf(disk)[c.inum].size >= 2
      /\ e \in Nat
      /\ c.new \in disk[inode_bitmap_addr] /\ c.new # c.inum
      /\ \A x \in 0 .. Now!Blocks(InodesOf(disk)[c.inum].size - 1) - 1 :
           Im(disk)!CompactedBlock(c.inum, e, x) \in DataBlocks
  BY <1>1 DEF Sound, TargetsFit
<1>3. InodesOf(disk)[c.inum].size \in Nat /\ before <= DIRECT_PTRS
  BY <1>2, BlocksOfInode
<1>4. after = Now!Blocks(InodesOf(disk)[c.inum].size - 1)
  BY DEF Shorter
<1>5. before \in Nat /\ after \in Nat /\ 0 < after /\ after <= before /\ before <= after + 1
  BY <1>2, <1>3, <1>4, ShorterByOne
<1> QED BY <1>2, <1>3, <1>4, <1>5

LEMMA UnlinkFoundFits ==
  ASSUME NEW disk, Sound(disk), NEW c \in UnlinkCall, c.at = "find",
         NEW v, UnlinkFits(disk, c, v), Im(disk)!UnlinkReturn(c.inum, c.name) = 0,
         NEW d, d = Found(c, Im(disk)!EntryAt(c.inum, Min(Im(disk)!UnlinkHits(c.inum, c.name))).inum)
  PROVE  d \in UnlinkCall /\ UnlinkFits(disk, d, v)
<1>1. PICK e, t : /\ e = Min(Im(disk)!UnlinkHits(c.inum, c.name))
                  /\ t = Im(disk)!EntryAt(c.inum, e).inum
  OBVIOUS
<1>2. c.inum \in Now!Inode /\ c.name \in Names \cup {LongName}
  BY DEF UnlinkCall
<1>3. /\ c.inum \in disk[inode_bitmap_addr] /\ t \in disk[inode_bitmap_addr]
      /\ InodesOf(disk)[c.inum].size >= 2
  BY <1>1, <1>2 DEF Sound, TargetsFit
<1>4. t \in Now!Inode
  BY <1>3 DEF Sound, Typed
<1>5. c.x = 0
  BY DEF UnlinkFits, UnlinkChecked
<1>6. d = Found(c, t)
  BY <1>1
<1>7. /\ d \in UnlinkCall
      /\ d.at = "compact" /\ d.x = 0 /\ d.inum = c.inum /\ d.name = c.name /\ d.new = t
  BY <1>4, <1>5, <1>6 DEF UnlinkCall, Found
<1>8. 0 < Shorter(disk, c.inum)
  <2>1. InodesOf(disk)[c.inum].size \in Nat
    BY <1>3, BlocksOfInode
  <2> QED BY <1>3, <2>1, ShorterByOne DEF Shorter
<1>9. UnlinkChecked(disk, d)
  BY <1>1, <1>7, <1>8 DEF UnlinkChecked
<1>10. UnlinkMoved(disk, c) = {} /\ UnlinkMoved(disk, d) = {}
  BY <1>7 DEF UnlinkMoved
<1>11. UnlinkData(disk, d, v.data)
  BY <1>7, <1>10 DEF UnlinkFits, UnlinkData
<1>12. UnlinkCut(disk, d) = UnlinkCut(disk, c) /\ UnlinkGone(disk, d) = UnlinkGone(disk, c)
  BY <1>7 DEF UnlinkCut, UnlinkGone
<1> QED BY <1>7, <1>9, <1>11, <1>12 DEF UnlinkFits

\* From here on the data region stays.
LEMMA AllMoved ==
  ASSUME NEW disk, NEW c \in UnlinkCall, NEW d \in UnlinkCall, NEW data,
         c.at \in {"shrink", "shorten", "bits", "bit"},
         d.at \in {"shorten", "bits", "bit", "commit"},
         d.inum = c.inum, d.name = c.name,
         UnlinkData(disk, c, data)
  PROVE  UnlinkData(disk, d, data)
<1>1. UnlinkMoved(disk, c) = UnlinkMoved(disk, d)
  BY DEF UnlinkMoved
<1> QED BY <1>1 DEF UnlinkData

LEMMA CompactFits ==
  ASSUME NEW disk, Sound(disk), NEW c \in UnlinkCall, c.at = "compact",
         NEW v, IsView(v), UnlinkFits(disk, c, v),
         NEW b, b = InodesOf(disk)[c.inum].direct[c.x],
         NEW new, new = Im(disk)!CompactedBlock(c.inum, Min(Im(disk)!UnlinkHits(c.inum, c.name)), c.x),
         NEW d, d = NextMoved(disk, c),
         NEW w, w = DataIn(v, b, new)
  PROVE  /\ b \in Now!DataBlock /\ new \in DataBlocks
         /\ d \in UnlinkCall /\ UnlinkFits(disk, d, w)
<1>1. UnlinkChecked(disk, c)
  BY DEF UnlinkFits
<1>2. PICK before, after : before = Now!Blocks(InodesOf(disk)[c.inum].size) /\ after = Shorter(disk, c.inum)
  OBVIOUS
<1>3. PICK e, x : e = Min(Im(disk)!UnlinkHits(c.inum, c.name)) /\ x = c.x
  OBVIOUS
<1>4. /\ c.inum \in disk[inode_bitmap_addr]
      /\ before \in Nat /\ after \in Nat /\ 0 < after /\ after <= before /\ before <= after + 1
      /\ \A y \in 0 .. after - 1 : Im(disk)!CompactedBlock(c.inum, e, y) \in DataBlocks
  BY <1>1, <1>2, <1>3, TargetOfUnlink
<1>5. x \in Nat /\ x < after
  BY <1>1, <1>2, <1>3 DEF UnlinkChecked, UnlinkCall
<1>6. x \in 0 .. after - 1 /\ x \in 0 .. before - 1
  BY <1>4, <1>5
<1>7. PICK q : q = InodesOf(disk)[c.inum].direct
  OBVIOUS
<1>8. \A y \in 0 .. before - 1 :
        /\ q[y] \in Now!DataBlock
        /\ \A z \in 0 .. before - 1 : q[y] = q[z] => y = z
  BY <1>2, <1>4, <1>7, BlocksOfInode
<1>9. b = q[x] /\ b \in Now!DataBlock /\ new \in DataBlocks
  BY <1>3, <1>4, <1>6, <1>7, <1>8
<1>10. /\ d \in UnlinkCall
       /\ d.at = (IF x + 1 < after THEN "compact" ELSE IF before # after THEN "shrink" ELSE "shorten")
       /\ d.x = x + 1 /\ d.inum = c.inum /\ d.name = c.name /\ d.new = c.new
  <2>1. PICK place : place = IF x + 1 < after THEN "compact" ELSE IF before # after THEN "shrink" ELSE "shorten"
    OBVIOUS
  <2>2. d = [c EXCEPT !.x = x + 1, !.at = place]
    BY <1>2, <1>3, <2>1 DEF UnlinkCall, NextMoved
  <2>3. place \in {"compact", "shrink", "shorten"} /\ x + 1 \in Nat
    BY <1>5, <2>1
  <2>4. d \in UnlinkCall
    BY <2>2, <2>3 DEF UnlinkCall
  <2> QED BY <2>1, <2>2, <2>4 DEF UnlinkCall
<1>11. d.at \in {"compact", "shrink", "shorten"}
  BY <1>10
<1>12. UnlinkChecked(disk, d)
  <2>1. (d.at = "compact" => d.x < after) /\ (d.at = "shrink" => before # after)
    BY <1>10
  <2> QED BY <1>1, <1>2, <1>10, <1>11, <2>1 DEF UnlinkChecked
<1>13. UnlinkMoved(disk, c) = 0 .. x - 1
  BY <1>3 DEF UnlinkMoved
<1>14. UnlinkMoved(disk, d) = 0 .. x
  <2>1. CASE x + 1 < after
    BY <1>5, <1>10, <2>1 DEF UnlinkMoved
  <2>2. CASE ~(x + 1 < after)
    <3>1. after - 1 = x
      BY <1>4, <1>5, <2>2
    <3>2. d.at \in {"shrink", "shorten"}
      BY <1>10, <2>2
    <3> QED BY <1>2, <1>10, <3>1, <3>2 DEF UnlinkMoved
  <2> QED BY <2>1, <2>2
<1>15. /\ \A y \in 0 .. x : y = x \/ y \in 0 .. x - 1
       /\ \A y \in 0 .. x - 1 : y \in 0 .. x /\ y # x /\ y \in 0 .. before - 1
       /\ x \in 0 .. x
  BY <1>4, <1>5
<1>16. /\ w.ib = v.ib /\ w.db = v.db /\ w.nodes = v.nodes
       /\ w.data[b] = new
       /\ \A a \in Now!DataBlock \ {b} : w.data[a] = v.data[a]
  BY <1>9, DataParts
<1>17. /\ \A y \in 0 .. x - 1 : v.data[q[y]] = Im(disk)!CompactedBlock(c.inum, e, y)
       /\ \A a \in Now!DataBlock : (\A y \in 0 .. x - 1 : q[y] # a) => v.data[a] = DataOf(disk)[a]
  BY <1>3, <1>7, <1>13 DEF UnlinkFits, UnlinkData
<1>18. \A y \in 0 .. x - 1 : q[y] \in Now!DataBlock \ {b}
  BY <1>6, <1>8, <1>9, <1>15
<1>19. \A y \in 0 .. x : w.data[q[y]] = Im(disk)!CompactedBlock(c.inum, e, y)
  BY <1>3, <1>9, <1>15, <1>16, <1>17, <1>18
<1>20. ASSUME NEW a \in Now!DataBlock, \A y \in 0 .. x : q[y] # a
       PROVE  w.data[a] = DataOf(disk)[a]
  <2>1. a # b
    BY <1>9, <1>15, <1>20
  <2>2. \A y \in 0 .. x - 1 : q[y] # a
    BY <1>15, <1>20
  <2> QED BY <1>16, <1>17, <2>1, <2>2
<1>21. UnlinkData(disk, d, w.data)
  BY <1>3, <1>7, <1>10, <1>14, <1>19, <1>20, ZenonT(60) DEF UnlinkData
<1>22. UnlinkCut(disk, d) = {}
  <2>1. CASE d.at \in {"compact", "shrink"}
    BY <2>1 DEF UnlinkCut
  <2>2. CASE d.at = "shorten"
    <3>1. before = after
      BY <1>10, <2>2
    <3>2. after .. before - 1 = {}
      BY <1>4, <3>1
    <3> QED BY <1>2, <1>10, <2>2, <3>2 DEF UnlinkCut
  <2> QED BY <1>11, <2>1, <2>2
<1>23. /\ UnlinkCut(disk, c) = {} /\ UnlinkGone(disk, c) = {} /\ UnlinkGone(disk, d) = {}
  BY <1>11 DEF UnlinkCut, UnlinkGone
<1>24. v.nodes = InodesOf(disk) /\ v.ib = disk[inode_bitmap_addr] \ {} /\ v.db = disk[data_bitmap_addr] \ {}
  BY <1>23 DEF UnlinkFits
<1> QED BY <1>9, <1>10, <1>11, <1>12, <1>16, <1>21, <1>22, <1>23, <1>24 DEF UnlinkFits

LEMMA ShrinkFits ==
  ASSUME NEW disk, Sound(disk), NEW c \in UnlinkCall, c.at = "shrink",
         NEW v, IsView(v), UnlinkFits(disk, c, v),
         NEW d, d = Moved(c, "shorten"),
         NEW w, w = DataBitsIn(v, v.db \ {InodesOf(disk)[c.inum].direct[Shorter(disk, c.inum)]})
  PROVE  d \in UnlinkCall /\ UnlinkFits(disk, d, w)
<1>1. UnlinkChecked(disk, c)
  BY DEF UnlinkFits
<1>2. PICK before, after : before = Now!Blocks(InodesOf(disk)[c.inum].size) /\ after = Shorter(disk, c.inum)
  OBVIOUS
<1>3. before \in Nat /\ after \in Nat /\ 0 < after /\ after <= before /\ before <= after + 1
  BY <1>1, <1>2, TargetOfUnlink
<1>4. before # after
  BY <1>1, <1>2 DEF UnlinkChecked
<1>5. after .. before - 1 = {after}
  BY <1>3, <1>4
<1>6. /\ d \in UnlinkCall
      /\ d.at = "shorten" /\ d.x = c.x /\ d.inum = c.inum /\ d.name = c.name /\ d.new = c.new
  BY DEF UnlinkCall, Moved
<1>7. UnlinkChecked(disk, d)
  BY <1>1, <1>6 DEF UnlinkChecked
<1>8. UnlinkCut(disk, d) = {InodesOf(disk)[c.inum].direct[after]}
  BY <1>2, <1>5, <1>6 DEF UnlinkCut
<1>9. UnlinkCut(disk, c) = {} /\ UnlinkGone(disk, c) = {} /\ UnlinkGone(disk, d) = {}
  BY <1>6 DEF UnlinkCut, UnlinkGone
<1>10. /\ w.ib = v.ib /\ w.nodes = v.nodes /\ w.data = v.data
       /\ w.db = v.db \ {InodesOf(disk)[c.inum].direct[after]}
  BY <1>2, DataBitsParts
<1>11. UnlinkData(disk, d, w.data)
  BY <1>6, <1>10, AllMoved DEF UnlinkFits
<1>12. w.db = disk[data_bitmap_addr] \ (UnlinkCut(disk, d) \cup UnlinkGone(disk, d))
  BY <1>8, <1>9, <1>10 DEF UnlinkFits
<1> QED BY <1>6, <1>7, <1>10, <1>11, <1>12 DEF UnlinkFits

LEMMA ShortenFits ==
  ASSUME NEW disk, Sound(disk), NEW c \in UnlinkCall, c.at = "shorten",
         NEW v, IsView(v), UnlinkFits(disk, c, v),
         NEW d, d = ToTarget(disk, c),
         NEW w, w = InodeIn(v, c.inum, Im(disk)!Shortened(c.inum))
  PROVE  /\ Im(disk)!Shortened(c.inum) \in Now!InodeRecord
         /\ d \in UnlinkCall /\ UnlinkFits(disk, d, w)
<1>1. UnlinkChecked(disk, c)
  BY DEF UnlinkFits
<1>2. PICK before, after : before = Now!Blocks(InodesOf(disk)[c.inum].size) /\ after = Shorter(disk, c.inum)
  OBVIOUS
<1>3. /\ c.inum \in disk[inode_bitmap_addr] /\ c.new \in disk[inode_bitmap_addr]
      /\ before \in Nat /\ after \in Nat /\ after <= before
      /\ before <= after + 1 /\ before <= DIRECT_PTRS
      /\ InodesOf(disk)[c.inum].size \in Nat /\ InodesOf(disk)[c.inum].size >= 2
  BY <1>1, <1>2, TargetOfUnlink
<1>4. PICK r : r = InodesOf(disk)[c.inum]
  OBVIOUS
<1>5. r \in Now!InodeRecord /\ r.size - 1 \in Nat
  BY <1>3, <1>4, BlocksOfInode
<1>6. Im(disk)!Shortened(c.inum) \in Now!InodeRecord
  <2>1. after = Im(disk)!Blocks(r.size - 1) /\ before = Im(disk)!Blocks(r.size)
    BY <1>2, <1>4, ImConstants DEF Shorter
  <2>2. PICK a : a = IF before # after THEN [r.direct EXCEPT ![after] = Now!Unset] ELSE r.direct
    OBVIOUS
  <2>3. a \in [Now!Index -> Now!Pointer]
    BY <1>5, <2>2 DEF Now!InodeRecord, Now!Pointer
  <2>4. Im(disk)!Shortened(c.inum) = [type |-> r.type, size |-> r.size - 1, direct |-> a]
    BY <1>4, <2>1, <2>2, ImConstants DEF Im!Shortened
  <2> QED BY <1>5, <2>3, <2>4 DEF Now!InodeRecord
<1>7. /\ d \in UnlinkCall
      /\ d.at = (IF InodesOf(disk)[c.new].size = 0 THEN "bit" ELSE "bits")
      /\ d.x = 0 /\ d.inum = c.inum /\ d.name = c.name /\ d.new = c.new
  BY DEF UnlinkCall, ToTarget
<1>8. d.at \in {"bit", "bits"}
  BY <1>7
<1>9. PICK n : n = InodesOf(disk)[c.new].size
  OBVIOUS
<1>10. n \in Nat /\ Now!Blocks(n) \in Nat /\ (Now!Blocks(n) <= 0 <=> n = 0)
  <2>1. n \in Nat /\ Now!Blocks(n) \in Nat
    BY <1>3, <1>9, BlocksOfInode
  <2>2. Now!Blocks(n) <= 0 <=> n <= 0 * UFS_BLOCK_SIZE
    BY <2>1, BlocksBound
  <2>3. 0 * UFS_BLOCK_SIZE = 0
    BY SizesAssumption
  <2> QED BY <2>1, <2>2, <2>3
<1>11. UnlinkChecked(disk, d)
  <2>1. d.at = "bits" => d.x < Now!Blocks(n)
    BY <1>7, <1>9, <1>10
  <2> QED BY <1>1, <1>7, <1>8, <1>9, <2>1 DEF UnlinkChecked
<1>12. UnlinkCut(disk, d) = UnlinkCut(disk, c)
  BY <1>7, <1>8 DEF UnlinkCut
<1>13. UnlinkGone(disk, c) = {} /\ UnlinkGone(disk, d) = {}
  <2>1. UnlinkGone(disk, c) = {}
    BY DEF UnlinkGone
  <2>2. CASE d.at = "bits"
    BY <1>7, <2>1, <2>2 DEF UnlinkGone
  <2>3. CASE d.at = "bit"
    <3>1. n = 0
      BY <1>7, <1>9, <2>3
    <3>2. 0 .. Now!Blocks(n) - 1 = {}
      BY <1>10, <3>1
    <3> QED BY <1>7, <1>9, <2>1, <2>3, <3>2 DEF UnlinkGone
  <2> QED BY <1>8, <2>2, <2>3
<1>14. /\ w.ib = v.ib /\ w.db = v.db /\ w.data = v.data
       /\ w.nodes = [v.nodes EXCEPT ![c.inum] = Im(disk)!Shortened(c.inum)]
  BY InodeParts
<1>15. UnlinkData(disk, d, w.data)
  BY <1>7, <1>8, <1>14, AllMoved DEF UnlinkFits
<1>16. w.nodes = [InodesOf(disk) EXCEPT ![d.inum] = Im(disk)!Shortened(d.inum)]
  BY <1>7, <1>14 DEF UnlinkFits
<1>17. w.ib = disk[inode_bitmap_addr] \ {}
  BY <1>14 DEF UnlinkFits
<1>18. w.db = disk[data_bitmap_addr] \ (UnlinkCut(disk, d) \cup UnlinkGone(disk, d))
  BY <1>12, <1>13, <1>14 DEF UnlinkFits
<1> QED BY <1>6, <1>7, <1>8, <1>11, <1>15, <1>16, <1>17, <1>18 DEF UnlinkFits

LEMMA GoneFits ==
  ASSUME NEW disk, Sound(disk), NEW c \in UnlinkCall, c.at = "bits",
         NEW v, IsView(v), UnlinkFits(disk, c, v),
         NEW d, d = NextGone(disk, c),
         NEW w, w = DataBitsIn(v, v.db \ {InodesOf(disk)[c.new].direct[c.x]})
  PROVE  d \in UnlinkCall /\ UnlinkFits(disk, d, w)
<1>1. UnlinkChecked(disk, c)
  BY DEF UnlinkFits
<1>2. PICK n, x : n = Now!Blocks(InodesOf(disk)[c.new].size) /\ x = c.x
  OBVIOUS
<1>3. c.new \in disk[inode_bitmap_addr]
  BY <1>1, TargetOfUnlink
<1>4. n \in Nat /\ x \in Nat /\ x < n
  <2>1. n \in Nat
    BY <1>2, <1>3, BlocksOfInode
  <2> QED BY <1>1, <1>2, <2>1 DEF UnlinkChecked, UnlinkCall
<1>5. /\ d \in UnlinkCall
      /\ d.at = (IF x + 1 < n THEN "bits" ELSE "bit")
      /\ d.x = x + 1 /\ d.inum = c.inum /\ d.name = c.name /\ d.new = c.new
  <2>1. PICK place : place = IF x + 1 < n THEN "bits" ELSE "bit"
    OBVIOUS
  <2>2. d = [c EXCEPT !.x = x + 1, !.at = place]
    BY <1>2, <2>1 DEF UnlinkCall, NextGone
  <2>3. place \in {"bits", "bit"} /\ x + 1 \in Nat
    BY <1>4, <2>1
  <2>4. d \in UnlinkCall
    BY <2>2, <2>3 DEF UnlinkCall
  <2> QED BY <2>1, <2>2, <2>4 DEF UnlinkCall
<1>6. d.at \in {"bit", "bits"}
  BY <1>5
<1>7. UnlinkChecked(disk, d)
  <2>1. d.at = "bits" => d.x < n
    BY <1>5
  <2> QED BY <1>1, <1>2, <1>5, <1>6, <2>1 DEF UnlinkChecked
<1>8. UnlinkCut(disk, d) = UnlinkCut(disk, c)
  BY <1>5, <1>6 DEF UnlinkCut
<1>9. PICK q : q = InodesOf(disk)[c.new].direct
  OBVIOUS
<1>10. UnlinkGone(disk, c) = {q[y] : y \in 0 .. x - 1}
  BY <1>2, <1>9 DEF UnlinkGone
<1>11. UnlinkGone(disk, d) = {q[y] : y \in 0 .. x}
  <2>1. CASE x + 1 < n
    <3>1. d.x - 1 = x
      BY <1>4, <1>5
    <3> QED BY <1>5, <1>9, <2>1, <3>1 DEF UnlinkGone
  <2>2. CASE ~(x + 1 < n)
    <3>1. n - 1 = x
      BY <1>4, <2>2
    <3> QED BY <1>2, <1>5, <1>9, <2>2, <3>1 DEF UnlinkGone
  <2> QED BY <2>1, <2>2
<1>12. {q[y] : y \in 0 .. x} = {q[y] : y \in 0 .. x - 1} \cup {q[x]}
  <2>1. /\ \A y \in 0 .. x : y = x \/ y \in 0 .. x - 1
        /\ \A y \in 0 .. x - 1 : y \in 0 .. x
        /\ x \in 0 .. x
    BY <1>4
  <2> QED BY <2>1
<1>13. /\ w.ib = v.ib /\ w.nodes = v.nodes /\ w.data = v.data
       /\ w.db = v.db \ {q[x]}
  BY <1>2, <1>9, DataBitsParts
<1>14. UnlinkData(disk, d, w.data)
  <2>1. UnlinkData(disk, c, v.data)
    BY DEF UnlinkFits
  <2>2. c.at \in {"shrink", "shorten", "bits", "bit"} /\ d.at \in {"shorten", "bits", "bit", "commit"}
    BY <1>6
  <2>3. UnlinkData(disk, d, v.data)
    BY <1>5, <2>1, <2>2, AllMoved
  <2> QED BY <1>13, <2>3
<1>15. w.nodes = [InodesOf(disk) EXCEPT ![d.inum] = Im(disk)!Shortened(d.inum)]
  BY <1>5, <1>13 DEF UnlinkFits
<1>16. w.ib = disk[inode_bitmap_addr] \ {}
  BY <1>13 DEF UnlinkFits
<1>17. w.db = disk[data_bitmap_addr] \ (UnlinkCut(disk, d) \cup UnlinkGone(disk, d))
  <2>1. v.db = disk[data_bitmap_addr] \ (UnlinkCut(disk, c) \cup UnlinkGone(disk, c))
    BY DEF UnlinkFits
  <2> QED BY <1>8, <1>10, <1>11, <1>12, <1>13, <2>1
<1> QED BY <1>5, <1>6, <1>7, <1>14, <1>15, <1>16, <1>17 DEF UnlinkFits

LEMMA BitFits ==
  ASSUME NEW disk, Sound(disk), NEW c \in UnlinkCall, c.at = "bit",
         NEW v, IsView(v), UnlinkFits(disk, c, v),
         NEW d, d = Moved(c, "commit"),
         NEW w, w = InodeBitsIn(v, v.ib \ {c.new})
  PROVE  d \in UnlinkCall /\ UnlinkFits(disk, d, w)
<1>1. UnlinkChecked(disk, c)
  BY DEF UnlinkFits
<1>2. /\ d \in UnlinkCall
      /\ d.at = "commit" /\ d.x = c.x /\ d.inum = c.inum /\ d.name = c.name /\ d.new = c.new
  BY DEF UnlinkCall, Moved
<1>3. UnlinkChecked(disk, d)
  BY <1>1, <1>2 DEF UnlinkChecked
<1>4. UnlinkCut(disk, d) = UnlinkCut(disk, c) /\ UnlinkGone(disk, d) = UnlinkGone(disk, c)
  BY <1>2 DEF UnlinkCut, UnlinkGone
<1>5. /\ w.ib = v.ib \ {c.new} /\ w.db = v.db /\ w.nodes = v.nodes /\ w.data = v.data
  BY InodeBitsParts
<1>6. UnlinkData(disk, d, w.data)
  BY <1>2, <1>5, AllMoved DEF UnlinkFits
<1>7. w.nodes = [InodesOf(disk) EXCEPT ![d.inum] = Im(disk)!Shortened(d.inum)]
  BY <1>2, <1>5 DEF UnlinkFits
<1>8. v.ib = disk[inode_bitmap_addr] \ {}
  BY DEF UnlinkFits
<1>9. w.ib = disk[inode_bitmap_addr] \ {d.new}
  BY <1>2, <1>5, <1>8
<1>10. w.db = disk[data_bitmap_addr] \ (UnlinkCut(disk, d) \cup UnlinkGone(disk, d))
  BY <1>4, <1>5 DEF UnlinkFits
<1> QED BY <1>2, <1>3, <1>6, <1>7, <1>9, <1>10 DEF UnlinkFits
-----------------------------------------------------------------------------
(* The steps of unlink.                                                    *)

LEMMA UnlinkAt ==
  ASSUME SInv, call.at \in {"find", "compact", "shrink", "shorten", "bits", "bit"}
  PROVE  /\ Working /\ Shaped(image) /\ Sound(stable) /\ IsView(View(image))
         /\ call \in UnlinkCall /\ UnlinkFits(stable, call, View(image))
<1>1. Working /\ Shaped(image) /\ Sound(stable)
  BY AtWork
<1>2. call \notin CreateCall /\ call \notin WriteCall
  BY DEF CreateCall, WriteCall
<1> QED BY <1>1, <1>2, ViewIsView DEF Working, Fits

LEMMA UnlinkGoesOn ==
  ASSUME Device', stable' = stable, isInTransaction' = TRUE, iter' = 0, Shaped(image'),
         call' \in UnlinkCall, call'.at # "rollback", UnlinkFits(stable, call', View(image'))
  PROVE  SInv'
<1>1. Fits(stable, call', View(image'))
  BY DEF Fits
<1> QED BY <1>1, GoesOn

LEMMA UnlinkAnswers ==
  ASSUME NEW p, NEW n, ~(Im(stable)!UnlinkReturn(p, n) < 0)
  PROVE  Im(stable)!UnlinkReturn(p, n) = 0
<1>1. \/ Im(stable)!UnlinkReturn(p, n) = -Im(stable)!EUNLINKNOTALLOWED
      \/ Im(stable)!UnlinkReturn(p, n) = -Im(stable)!EINVALIDNAME
      \/ Im(stable)!UnlinkReturn(p, n) = -Im(stable)!EINVALIDINODE
      \/ Im(stable)!UnlinkReturn(p, n) = -Im(stable)!EDIRNOTEMPTY
      \/ Im(stable)!UnlinkReturn(p, n) = 0
  BY Zenon DEF Im!UnlinkReturn
<1> QED
  BY <1>1 DEF Im!EUNLINKNOTALLOWED, Im!EINVALIDNAME, Im!EINVALIDINODE, Im!EDIRNOTEMPTY

LEMMA UnlinkFindStep == ASSUME SInv, UnlinkFind PROVE SInv'
<1>1. call.at = "find"
  BY DEF UnlinkFind, At
<1>2. /\ Working /\ Shaped(image) /\ Sound(stable) /\ IsView(View(image))
      /\ call \in UnlinkCall /\ UnlinkFits(stable, call, View(image))
  BY <1>1, UnlinkAt
<1>3. UNCHANGED diskVars
  BY DEF UnlinkFind
<1>4. /\ Device' /\ stable' = stable /\ UNCHANGED <<image, isInTransaction, iter>>
      /\ isInTransaction = TRUE /\ iter = 0
  BY <1>2, <1>3, DeviceStays DEF Working, SInv, Device, DD!IInv, DD!TypeOK
<1>5. PICK e, t : /\ e = Min(Im(stable)!UnlinkHits(call.inum, call.name))
                  /\ t = Im(stable)!EntryAt(call.inum, e).inum
  OBVIOUS
<1>6. call' = IF Im(stable)!UnlinkReturn(call.inum, call.name) < 0
              THEN Moved(call, "fail") ELSE Found(call, t)
  BY <1>5, StableUnlinks, StableReads DEF UnlinkFind, Moved, Found
<1>7. CASE Im(stable)!UnlinkReturn(call.inum, call.name) < 0
  BY <1>2, <1>4, <1>6, <1>7, CallFails
<1>8. CASE ~(Im(stable)!UnlinkReturn(call.inum, call.name) < 0)
  <2>1. Im(stable)!UnlinkReturn(call.inum, call.name) = 0
    BY <1>8, UnlinkAnswers
  <2>2. call' = Found(call, t)
    BY <1>6, <1>8
  <2>3. call' \in UnlinkCall /\ UnlinkFits(stable, call', View(image))
    BY <1>1, <1>2, <1>5, <2>1, <2>2, UnlinkFoundFits
  <2>4. call'.at # "rollback" /\ UnlinkFits(stable, call', View(image'))
    BY <1>2, <1>4, <2>2, <2>3 DEF Found, UnlinkCall
  <2>5. Shaped(image')
    BY <1>2, <1>4
  <2> QED BY <1>4, <2>3, <2>4, <2>5, UnlinkGoesOn
<1> QED BY <1>7, <1>8

LEMMA UnlinkCompactStep == ASSUME SInv, UnlinkCompact PROVE SInv'
<1>1. call.at = "compact"
  BY DEF UnlinkCompact, At
<1>2. /\ Working /\ Shaped(image) /\ Sound(stable) /\ IsView(View(image))
      /\ call \in UnlinkCall /\ UnlinkFits(stable, call, View(image))
  BY <1>1, UnlinkAt
<1>3. PICK b : b = InodesOf(stable)[call.inum].direct[call.x]
  OBVIOUS
<1>4. PICK new : new = Im(stable)!CompactedBlock(call.inum,
                         Min(Im(stable)!UnlinkHits(call.inum, call.name)), call.x)
  OBVIOUS
<1>5. b \in Now!DataBlock /\ new \in DataBlocks
  BY <1>1, <1>2, <1>3, <1>4, CompactFits
<1>6. Put(data_region_addr + b, new)
  BY <1>3, <1>4, <1>5, AddressOfBlock, StableUnlinks DEF UnlinkCompact
<1>7. call' = NextMoved(stable, call)
  BY DEF UnlinkCompact, NextMoved, Before, After, Shorter
<1>8. /\ Device' /\ stable' = stable
      /\ isInTransaction' = TRUE /\ iter' = 0
      /\ Shaped(image')
      /\ View(image') = DataIn(View(image), b, new)
  BY <1>2, <1>5, <1>6, DataWritten
<1>9. call' \in UnlinkCall /\ UnlinkFits(stable, call', View(image'))
  BY <1>1, <1>2, <1>3, <1>4, <1>7, <1>8, CompactFits
<1>10. call'.at # "rollback"
  BY <1>2, <1>7 DEF NextMoved, UnlinkCall
<1> QED BY <1>8, <1>9, <1>10, UnlinkGoesOn

\* A bit of the data bitmap is cleared.
LEMMA DataBitCleared ==
  ASSUME SInv, Working, NEW b, ClearBit(data_bitmap_addr, b)
  PROVE  /\ Device' /\ stable' = stable
         /\ isInTransaction' = TRUE /\ iter' = 0
         /\ Shaped(image')
         /\ View(image') = DataBitsIn(View(image), View(image).db \ {b})
<1>1. PICK X : X = image[data_bitmap_addr] \ {b}
  OBVIOUS
<1>2. Put(data_bitmap_addr, X) /\ Shaped(image)
  BY <1>1 DEF ClearBit, Working
<1>3. X \subseteq Int
  BY <1>1, <1>2 DEF Shaped
<1>4. /\ image' = Wrote(image, data_bitmap_addr, X)
      /\ Device' /\ stable' = stable
      /\ isInTransaction' = TRUE /\ iter' = 0
      /\ Shaped(image')
  BY <1>2, <1>3, BitmapWritten
<1>5. View(image).db = image[data_bitmap_addr]
  BY DEF View
<1>6. View(image') = DataBitsIn(View(image), X)
  BY <1>2, <1>3, <1>4, PutDataBitmap
<1> QED BY <1>1, <1>4, <1>5, <1>6

LEMMA UnlinkShrinkStep == ASSUME SInv, UnlinkShrink PROVE SInv'
<1>1. call.at = "shrink"
  BY DEF UnlinkShrink, At
<1>2. /\ Working /\ Shaped(image) /\ Sound(stable) /\ IsView(View(image))
      /\ call \in UnlinkCall /\ UnlinkFits(stable, call, View(image))
  BY <1>1, UnlinkAt
<1>3. PICK b : b = InodesOf(stable)[call.inum].direct[Shorter(stable, call.inum)]
  OBVIOUS
<1>4. ClearBit(data_bitmap_addr, b) /\ call' = Moved(call, "shorten")
  BY <1>3 DEF UnlinkShrink, After, Shorter, Goto, Moved
<1>5. /\ Device' /\ stable' = stable
      /\ isInTransaction' = TRUE /\ iter' = 0
      /\ Shaped(image')
      /\ View(image') = DataBitsIn(View(image), View(image).db \ {b})
  BY <1>2, <1>4, DataBitCleared
<1>6. call' \in UnlinkCall /\ UnlinkFits(stable, call', View(image'))
  BY <1>1, <1>2, <1>3, <1>4, <1>5, ShrinkFits
<1>7. call'.at # "rollback"
  BY <1>2, <1>4 DEF Moved, UnlinkCall
<1> QED BY <1>5, <1>6, <1>7, UnlinkGoesOn

LEMMA UnlinkParentStep == ASSUME SInv, UnlinkParent PROVE SInv'
<1>1. call.at = "shorten"
  BY DEF UnlinkParent, At
<1>2. /\ Working /\ Shaped(image) /\ Sound(stable) /\ IsView(View(image))
      /\ call \in UnlinkCall /\ UnlinkFits(stable, call, View(image))
  BY <1>1, UnlinkAt
<1>3. PICK r : r = Im(stable)!Shortened(call.inum)
  OBVIOUS
<1>4. Put(InodeBlock(call.inum), WithInode(call.inum, r))
  BY <1>3, StableUnlinks DEF UnlinkParent
<1>5. call' = ToTarget(stable, call)
  BY DEF UnlinkParent, ToTarget
<1>6. call.inum \in Now!Inode /\ r \in Now!InodeRecord
  BY <1>1, <1>2, <1>3, ShortenFits DEF UnlinkCall
<1>7. /\ Device' /\ stable' = stable
      /\ isInTransaction' = TRUE /\ iter' = 0
      /\ Shaped(image')
      /\ View(image') = InodeIn(View(image), call.inum, r)
  BY <1>2, <1>4, <1>6, InodeWritten
<1>8. call' \in UnlinkCall /\ UnlinkFits(stable, call', View(image'))
  BY <1>1, <1>2, <1>3, <1>5, <1>7, ShortenFits
<1>9. call'.at # "rollback"
  BY <1>2, <1>5 DEF ToTarget, UnlinkCall
<1> QED BY <1>7, <1>8, <1>9, UnlinkGoesOn

LEMMA UnlinkBlocksStep == ASSUME SInv, UnlinkBlocks PROVE SInv'
<1>1. call.at = "bits"
  BY DEF UnlinkBlocks, At
<1>2. /\ Working /\ Shaped(image) /\ Sound(stable) /\ IsView(View(image))
      /\ call \in UnlinkCall /\ UnlinkFits(stable, call, View(image))
  BY <1>1, UnlinkAt
<1>3. PICK b : b = InodesOf(stable)[call.new].direct[call.x]
  OBVIOUS
<1>4. ClearBit(data_bitmap_addr, b) /\ call' = NextGone(stable, call)
  BY <1>3 DEF UnlinkBlocks, NextGone
<1>5. /\ Device' /\ stable' = stable
      /\ isInTransaction' = TRUE /\ iter' = 0
      /\ Shaped(image')
      /\ View(image') = DataBitsIn(View(image), View(image).db \ {b})
  BY <1>2, <1>4, DataBitCleared
<1>6. call' \in UnlinkCall /\ UnlinkFits(stable, call', View(image'))
  BY <1>1, <1>2, <1>3, <1>4, <1>5, GoneFits
<1>7. call'.at # "rollback"
  BY <1>2, <1>4 DEF NextGone, UnlinkCall
<1> QED BY <1>5, <1>6, <1>7, UnlinkGoesOn

LEMMA UnlinkInodeStep == ASSUME SInv, UnlinkInode PROVE SInv'
<1>1. call.at = "bit"
  BY DEF UnlinkInode, At
<1>2. /\ Working /\ Shaped(image) /\ Sound(stable) /\ IsView(View(image))
      /\ call \in UnlinkCall /\ UnlinkFits(stable, call, View(image))
  BY <1>1, UnlinkAt
<1>3. PICK X : X = image[inode_bitmap_addr] \ {call.new}
  OBVIOUS
<1>4. Put(inode_bitmap_addr, X) /\ call' = Moved(call, "commit")
  BY <1>3 DEF UnlinkInode, ClearBit, Goto, Moved
<1>5. X \subseteq Int
  BY <1>2, <1>3 DEF Shaped
<1>6. /\ image' = Wrote(image, inode_bitmap_addr, X)
      /\ Device' /\ stable' = stable
      /\ isInTransaction' = TRUE /\ iter' = 0
      /\ Shaped(image')
  BY <1>2, <1>4, <1>5, BitmapWritten
<1>7. View(image).ib = image[inode_bitmap_addr]
  BY DEF View
<1>8. View(image') = InodeBitsIn(View(image), X)
  BY <1>2, <1>5, <1>6, PutInodeBitmap
<1>9. View(image') = InodeBitsIn(View(image), View(image).ib \ {call.new})
  BY <1>3, <1>7, <1>8
<1>10. call' \in UnlinkCall /\ UnlinkFits(stable, call', View(image'))
  BY <1>1, <1>2, <1>4, <1>9, BitFits
<1>11. call'.at # "rollback"
  BY <1>2, <1>4 DEF Moved, UnlinkCall
<1> QED BY <1>6, <1>10, <1>11, UnlinkGoesOn
-----------------------------------------------------------------------------
(* A call begins.                                                          *)

\* How the calls begin: with the image they see.
NewCreate(p, t, n) ==
  [op |-> "create", inum |-> p, type |-> t, name |-> n,
   at |-> IF t = Now!UFS_DIRECTORY THEN "block" ELSE "inum",
   block |-> None, new |-> None, more |-> None]

NewWrite(disk, i, v, n) ==
  [op |-> "write", inum |-> i, value |-> v, size |-> n, inode |-> InodesOf(disk)[i],
   x |-> Now!Smaller(Now!Blocks(InodesOf(disk)[i].size), Now!Blocks(n)),
   last |-> Now!Blocks(InodesOf(disk)[i].size),
   at |-> CASE Now!Blocks(InodesOf(disk)[i].size) < Now!Blocks(n) -> "alloc"
            [] Now!Blocks(n) < Now!Blocks(InodesOf(disk)[i].size) -> "free"
            [] OTHER -> "inode"]

NewUnlink(p, n) == [op |-> "unlink", inum |-> p, name |-> n, at |-> "find", x |-> 0, new |-> None]

LEMMA IdleRests ==
  ASSUME SInv, call = Idle
  PROVE  /\ call = Idle /\ ~isInTransaction /\ iter = 0
         /\ stable = image /\ Shaped(stable) /\ Sound(stable)
<1>1. call \notin CreateCall /\ call \notin WriteCall /\ call \notin UnlinkCall
  BY DEF Idle, CreateCall, WriteCall, UnlinkCall
<1>2. Resting
  BY <1>1 DEF SInv, Working, Undoing, Calling
<1>3. stable = image
  BY <1>2 DEF Resting, stable, D!InFlight
<1> QED BY <1>2, <1>3, SoundStable DEF Resting, SInv, Device

LEMMA Begins ==
  ASSUME SInv, NEW new, Begin(new),
         new \in CreateCall \cup WriteCall \cup UnlinkCall, new.at # "rollback",
         Fits(stable, new, View(stable))
  PROVE  SInv' /\ stable' = stable
<1>1. /\ call = Idle /\ ~isInTransaction /\ iter = 0
      /\ stable = image /\ Shaped(stable)
  BY IdleRests DEF Begin
<1>2. D!BeginTransaction /\ call' = new
  BY <1>1 DEF Begin, D!ExitNestedTransaction
<1>3. /\ isInTransaction' = TRUE /\ iter' = 0 /\ alive' = alive
      /\ image' = image /\ atBegin' = image
  BY <1>1, <1>2 DEF D!BeginTransaction
<1>4. stable' = stable
  BY <1>1, <1>3 DEF stable, D!InFlight
<1>5. DD!IInv'
  <2>1. DD!BeginTransaction
    BY <1>2, DiskSteps
  <2>2. DD!Next
    BY <2>1 DEF DD!Next, DD!Operation
  <2> QED BY <2>2, DeviceStep DEF SInv, Device
<1>6. Device'
  BY <1>3, <1>4, <1>5, StableStays DEF SInv, Device
<1>7. Shaped(image') /\ Fits(stable, call', View(image'))
  BY <1>1, <1>2, <1>3
<1> QED BY <1>2, <1>3, <1>4, <1>6, <1>7, GoesOn

LEMMA StartCreateStep ==
  ASSUME SInv, NEW p \in Now!Inode, NEW t \in {Now!UFS_DIRECTORY, Now!UFS_REGULAR_FILE},
         NEW n \in Names, StartCreate(p, t, n)
  PROVE  SInv' /\ stable' = stable
<1>1. PICK new : new = NewCreate(p, t, n)
  OBVIOUS
<1>2. Begin(new) /\ Now!IsDirectory(p) /\ Now!lookup(p, n) = -Now!ENOTFOUND
  BY <1>1 DEF StartCreate, NewCreate
<1>3. /\ stable = image /\ Sound(stable)
  BY <1>2, IdleRests DEF Begin
<1>4. Im(stable)!IsDirectory(p) /\ Im(stable)!lookup(p, n) = -Now!ENOTFOUND
  BY <1>2, <1>3, NowReads
<1>5. /\ new.op = "create" /\ new.inum = p /\ new.type = t /\ new.name = n
      /\ new.at = IF t = Now!UFS_DIRECTORY THEN "block" ELSE "inum"
      /\ new.block = None /\ new.new = None /\ new.more = None
  BY <1>1 DEF NewCreate
<1>6. new \in CreateCall
  BY <1>1 DEF NewCreate, CreateCall
<1>7. CreateChecked(stable, new)
  BY <1>4, <1>5 DEF CreateChecked
<1>8. CreateTook(stable, new)
  BY <1>5 DEF CreateTook
<1>9. CreateData(stable, new) = DataOf(stable)
  BY <1>3, <1>5, <1>6, CreateDataUntouched
<1>10. CreateNodes(stable, new) = InodesOf(stable)
  BY <1>5 DEF CreateNodes
<1>11. /\ stable[inode_bitmap_addr] \cup ({new.new} \ {None}) = stable[inode_bitmap_addr]
       /\ stable[data_bitmap_addr] \cup ({new.block, new.more} \ {None}) = stable[data_bitmap_addr]
  BY <1>5
<1>12. CreateFits(stable, new, View(stable))
  BY <1>7, <1>8, <1>9, <1>10, <1>11 DEF CreateFits, View
<1>13. Fits(stable, new, View(stable)) /\ new.at # "rollback"
  BY <1>5, <1>6, <1>12 DEF Fits
<1> QED BY <1>2, <1>6, <1>13, Begins

LEMMA StartWriteStep ==
  ASSUME SInv, NEW i \in Now!Inode, NEW v \in Values, NEW n \in Sizes, StartWrite(i, v, n)
  PROVE  SInv' /\ stable' = stable
<1>1. PICK new : new = NewWrite(image, i, v, n)
  OBVIOUS
<1>2. /\ Begin(new) /\ Now!IsFile(i)
      /\ n > 0 /\ Now!Blocks(n) <= DIRECT_PTRS
  BY <1>1 DEF StartWrite, NewWrite
<1>3. /\ stable = image /\ Sound(stable)
  BY <1>2, IdleRests DEF Begin
<1>4. Im(stable)!IsFile(i)
  BY <1>2, <1>3, NowReads
<1>5. PICK now, cnt : now = Now!Blocks(InodesOf(stable)[i].size) /\ cnt = Now!Blocks(n)
  OBVIOUS
<1>6. /\ new.op = "write" /\ new.inum = i /\ new.value = v /\ new.size = n
      /\ new.inode = InodesOf(stable)[i]
      /\ new.x = Now!Smaller(now, cnt) /\ new.last = now
      /\ new.at = CASE now < cnt -> "alloc" [] cnt < now -> "free" [] OTHER -> "inode"
  BY <1>1, <1>3, <1>5 DEF NewWrite
<1>7. InodesOf(stable)[i] \in Now!InodeRecord /\ InodesOf(stable)[i].type = Now!UFS_REGULAR_FILE
  BY <1>3, <1>4, ImConstants DEF Sound, Typed, Im!IsFile
<1>8. now \in Nat /\ cnt \in Nat
  <2>1. n \in Nat
    BY <1>2, SizesAssumption
  <2> QED BY <1>5, <1>7, <2>1, BlocksBound DEF Now!InodeRecord
<1>9. /\ new.x = (IF now < cnt THEN now ELSE cnt) /\ new.x \in Nat
      /\ new.at \in {"alloc", "free", "inode"}
      /\ (new.at = "alloc" <=> now < cnt) /\ (new.at = "free" <=> cnt < now)
  BY <1>6, <1>8 DEF Now!Smaller
<1>10. new \in WriteCall
  <2>1. new = [op |-> new.op, inum |-> new.inum, value |-> new.value, size |-> new.size,
               inode |-> new.inode, x |-> new.x, last |-> new.last, at |-> new.at]
    BY <1>1 DEF NewWrite
  <2> QED BY <1>6, <1>7, <1>8, <1>9, <2>1 DEF WriteCall
<1>11. WriteChecked(stable, new)
  BY <1>2, <1>4, <1>5, <1>6, <1>8, <1>9 DEF WriteChecked
<1>12. WriteTaken(stable, new) = {} /\ WriteGiven(stable, new) = {}
  BY <1>5, <1>6, <1>8, <1>9 DEF WriteTaken, WriteGiven
<1>13. WriteTook(stable, new)
  BY <1>6, <1>7, <1>12 DEF WriteTook
<1>14. /\ WriteNodes(stable, new) = InodesOf(stable)
       /\ WriteData1(stable, new, DataOf(stable))
  BY <1>9, WriteUnfilled, SMTT(60)
<1>15. (stable[data_bitmap_addr] \cup {new.inode.direct[y] : y \in WriteTaken(stable, new)})
         \ {InodesOf(stable)[new.inum].direct[y] : y \in WriteGiven(stable, new)}
         = stable[data_bitmap_addr]
  BY <1>12
<1>16. WriteFits(stable, new, View(stable))
  BY <1>11, <1>13, <1>14, <1>15 DEF WriteFits, View
<1>17. Fits(stable, new, View(stable)) /\ new.at # "rollback"
  BY <1>9, <1>10, <1>16 DEF Fits
<1> QED BY <1>2, <1>10, <1>17, Begins

LEMMA StartUnlinkStep ==
  ASSUME SInv, NEW p \in Now!Inode, NEW n \in Names \cup {LongName}, StartUnlink(p, n)
  PROVE  SInv' /\ stable' = stable
<1>1. PICK new : new = NewUnlink(p, n)
  OBVIOUS
<1>2. Begin(new)
  BY <1>1 DEF StartUnlink, NewUnlink
<1>3. new \in UnlinkCall /\ new.at = "find" /\ new.x = 0
  BY <1>1 DEF NewUnlink, UnlinkCall
<1>4. UnlinkMoved(stable, new) = {} /\ UnlinkCut(stable, new) = {} /\ UnlinkGone(stable, new) = {}
  BY <1>3 DEF UnlinkMoved, UnlinkCut, UnlinkGone
<1>5. UnlinkFits(stable, new, View(stable))
  BY <1>3, <1>4 DEF UnlinkFits, UnlinkChecked, UnlinkData, View
<1>6. Fits(stable, new, View(stable)) /\ new.at # "rollback"
  BY <1>3, <1>5 DEF Fits
<1> QED BY <1>2, <1>3, <1>6, Begins
-----------------------------------------------------------------------------
(* A call fails and returns.                                               *)

LEMMA CallsMove ==
  ASSUME NEW c \in CreateCall \cup WriteCall \cup UnlinkCall, NEW place \in {"fail", "rollback"},
         NEW d, d = Moved(c, place)
  PROVE  d \in CreateCall \cup WriteCall \cup UnlinkCall /\ d.at = place
<1>1. CASE c \in CreateCall
  BY <1>1 DEF CreateCall, Moved
<1>2. CASE c \in WriteCall
  BY <1>2 DEF WriteCall, Moved
<1>3. CASE c \in UnlinkCall
  BY <1>3 DEF UnlinkCall, Moved
<1> QED BY <1>1, <1>2, <1>3

LEMMA FailStep == ASSUME SInv, Fail PROVE SInv' /\ stable' = stable
<1>1. call.at = "fail" /\ D!Rollback /\ call' = Moved(call, "rollback")
  BY DEF Fail, At, Goto, Moved
<1>2. Working
  BY <1>1, AtWork
<1>3. isInTransaction' = FALSE /\ iter' = 1 /\ atBegin' = atBegin /\ alive' = alive
  BY <1>1, <1>2 DEF D!Rollback, Working
<1>4. stable' = stable
  BY <1>2, <1>3 DEF stable, D!InFlight, Working
<1>5. DD!IInv'
  <2>1. DD!Next
    BY <1>1, DiskSteps DEF DD!Next, DD!Operation
  <2> QED BY <2>1, DeviceStep DEF SInv, Device
<1>6. Device'
  BY <1>3, <1>4, <1>5, StableStays DEF SInv, Device
<1>7. call' \in CreateCall \cup WriteCall \cup UnlinkCall /\ call'.at = "rollback"
  BY <1>1, <1>2, CallsMove DEF Working, Calling
<1>8. Undoing'
  BY <1>3, <1>7 DEF Undoing, Calling
<1> QED BY <1>4, <1>6, <1>8 DEF SInv

LEMMA AtUndo ==
  ASSUME SInv, call.at = "rollback"
  PROVE  Undoing /\ iter \in Nat \ {0} /\ isInTransaction = FALSE /\ stable = atBegin
<1>1. Undoing
  BY DEF SInv, Resting, Idle, Working
<1>2. iter \in Nat \ {0} /\ isInTransaction = FALSE
  BY <1>1 DEF SInv, Device, DD!IInv, DD!TypeOK, Undoing
<1> QED BY <1>1, <1>2 DEF stable, D!InFlight

LEMMA UndoStep == ASSUME SInv, Undo PROVE SInv' /\ stable' = stable
<1>1. call.at = "rollback" /\ D!UndoOne /\ call' = call
  BY DEF Undo, At
<1>2. Undoing /\ iter \in Nat \ {0} /\ isInTransaction = FALSE /\ stable = atBegin
  BY <1>1, AtUndo
<1>3. /\ iter' = iter + 1 /\ isInTransaction' = isInTransaction
      /\ alive' = alive /\ atBegin' = atBegin
  BY <1>1 DEF D!UndoOne
<1>4. iter' > 0
  BY <1>2, <1>3
<1>5. stable' = stable
  BY <1>2, <1>3, <1>4 DEF stable, D!InFlight
<1>6. DD!IInv'
  <2>1. DD!Next
    BY <1>1, DiskSteps DEF DD!Next, DD!Operation
  <2> QED BY <2>1, DeviceStep DEF SInv, Device
<1>7. Device'
  BY <1>3, <1>5, <1>6, StableStays DEF SInv, Device
<1>8. Undoing'
  BY <1>1, <1>2, <1>3, <1>4 DEF Undoing, Calling
<1> QED BY <1>5, <1>7, <1>8 DEF SInv

LEMMA ReturnStep == ASSUME SInv, Return PROVE SInv' /\ stable' = stable
<1>1. call.at = "rollback" /\ D!EndRollback /\ call' = Idle
  BY DEF Return, At
<1>2. isInTransaction = FALSE /\ stable = atBegin
  BY <1>1, AtUndo
<1>3. /\ iter > Len(undoLog) /\ iter' = 0
      /\ image' = image /\ isInTransaction' = isInTransaction
      /\ alive' = alive /\ atBegin' = atBegin
  BY <1>1 DEF D!EndRollback
<1>4. image = atBegin
  <2>1. DD!RollbackRestores
    BY DD!WalkEndsAtBegin, DiskAssumed DEF SInv, Device
  <2> QED BY <1>3, <2>1 DEF DD!RollbackRestores
<1>5. stable' = stable
  BY <1>2, <1>3, <1>4 DEF stable, D!InFlight
<1>6. DD!IInv'
  <2>1. DD!Next
    BY <1>1, DiskSteps DEF DD!Next, DD!Operation
  <2> QED BY <2>1, DeviceStep DEF SInv, Device
<1>7. Device'
  BY <1>3, <1>5, <1>6, StableStays DEF SInv, Device
<1>8. Resting'
  BY <1>1, <1>2, <1>3 DEF Resting, Idle
<1> QED BY <1>5, <1>7, <1>8 DEF SInv
-----------------------------------------------------------------------------
(* What has been written when a call commits is what LocalFileSystem says. *)

LEMMA CardinalityIs == ASSUME NEW disk, NEW S PROVE Im(disk)!Cardinality(S) = Cardinality(S)
  BY DEF Im!Cardinality, Cardinality

LEMMA MaxIs == ASSUME NEW disk, NEW S PROVE Im(disk)!Max(S) = Max(S)
  BY DEF Im!Max, Max

LEMMA MinIs == ASSUME NEW disk, NEW S PROVE Im(disk)!Min(S) = Min(S)
  BY DEF Im!Min, Min

LEMMA FreeIs == ASSUME NEW disk PROVE Im(disk)!FreeBlocks = Now!DataBlock \ disk[data_bitmap_addr]
  BY DEF Im!FreeBlocks, Im!DataBlock, Now!DataBlock

\* Blocks found one after the other are different: there are as many of them.
LEMMA FreeEnough ==
  ASSUME NEW disk, NEW k \in Nat, NEW f \in [0 .. k - 1 -> Im(disk)!FreeBlocks],
         \A x, y \in 0 .. k - 1 : f[x] = f[y] => x = y
  PROVE  Cardinality(Im(disk)!FreeBlocks) \in Nat /\ k <= Cardinality(Im(disk)!FreeBlocks)
<1>1. IsFiniteSet(Im(disk)!FreeBlocks)
  <2>1. NumData - 1 \in Int
    BY SizesAssumption
  <2>2. IsFiniteSet(0 .. NumData - 1)
    BY <2>1, FS_Interval
  <2>3. Im(disk)!FreeBlocks \in SUBSET (0 .. NumData - 1)
    BY DEF Im!FreeBlocks, Im!DataBlock
  <2> QED BY <2>2, <2>3, FS_Subset
<1>2. f \in Injection(0 .. k - 1, Im(disk)!FreeBlocks)
  BY DEF Injection, IsInjective
<1>3. Cardinality(0 .. k - 1) <= Cardinality(Im(disk)!FreeBlocks)
  BY <1>1, <1>2, FS_Injection
<1>4. Cardinality(0 .. k - 1) = k
  <2>1. Cardinality(0 .. k - 1) = IF 0 > k - 1 THEN 0 ELSE (k - 1) - 0 + 1
    <3>1. k - 1 \in Int
      OBVIOUS
    <3> QED BY <3>1, FS_Interval
  <2> QED BY <2>1
<1>5. Cardinality(Im(disk)!FreeBlocks) \in Nat
  BY <1>1, FS_CardinalityType
<1> QED BY <1>3, <1>4, <1>5

LEMMA NoneLower ==
  ASSUME NEW S, S \subseteq Int, NEW m \in S, \A b \in S : m <= b
  PROVE  \A b \in S : ~(b < m)
  OBVIOUS

\* The blocks a create has taken, in this order.
TakenBlocks(c, k) ==
  [x \in 0 .. k - 1 |-> IF c.type = Now!UFS_DIRECTORY /\ x = 0 THEN c.block ELSE c.more]

Own(c) == IF c.type = Now!UFS_DIRECTORY THEN 1 ELSE 0

LEMMA CreateTakes ==
  ASSUME NEW disk, Sound(disk), NEW c \in CreateCall, c.at = "commit", CreateTook(disk, c),
         NEW k, k = Im(disk)!CreateBlocks(c.inum, c.type),
         NEW f, f = TakenBlocks(c, k)
  PROVE  /\ k \in Nat
         /\ f \in Im(disk)!LowestFree(k)
         /\ \A x, y \in 0 .. k - 1 : f[x] = f[y] => x = y
         /\ Im(disk)!NeedsBlock(c.inum) => f[Own(c)] = c.more
         /\ c.type = Now!UFS_DIRECTORY => f[0] = c.block
         /\ {f[x] : x \in DOMAIN f} = {c.block, c.more} \ {None}
<1> DEFINE Free == Now!DataBlock \ disk[data_bitmap_addr]
<1>1. k = Own(c) + (IF Im(disk)!NeedsBlock(c.inum) THEN 1 ELSE 0)
  BY ImConstants DEF Im!CreateBlocks, Own
<1>2. c.type = Now!UFS_DIRECTORY => c.block \in Free /\ \A b \in Free : c.block <= b
  BY DEF CreateTook, View, Lowest
<1>3. Im(disk)!NeedsBlock(c.inum) =>
        /\ c.more \in Free /\ c.more # c.block
        /\ \A b \in Free : b # c.block => c.more <= b
  BY DEF CreateTook, View, Lowest
<1>4. /\ c.type # Now!UFS_DIRECTORY => c.block = None
      /\ ~Im(disk)!NeedsBlock(c.inum) => c.more = None
  BY DEF CreateTook
<1>5. Free \subseteq Int /\ None \notin Free
  BY NoneIsNone DEF Now!DataBlock
<1> HIDE DEF Free
<1>6. Im(disk)!LowestFree(k) =
        {g \in [0 .. k - 1 -> Free] :
           \A x \in 0 .. k - 1, b \in Free : b < g[x] <=> \E y \in 0 .. x - 1 : g[y] = b}
  BY FreeIs DEF Im!LowestFree, Free
<1>7. CASE c.type = Now!UFS_DIRECTORY /\ Im(disk)!NeedsBlock(c.inum)
  <2>1. k = 2 /\ Own(c) = 1 /\ 0 .. k - 1 = {0, 1}
    BY <1>1, <1>7 DEF Own
  <2>2. f = [x \in {0, 1} |-> IF x = 0 THEN c.block ELSE c.more]
    BY <1>7, <2>1 DEF TakenBlocks
  <2>3. f[0] = c.block /\ f[1] = c.more /\ DOMAIN f = {0, 1}
    BY <2>2
  <2>4. f \in [0 .. k - 1 -> Free]
    BY <1>2, <1>3, <1>7, <2>1, <2>2
  <2>5. \A b \in Free : b < c.block <=> \E y \in 0 .. 0 - 1 : f[y] = b
    <3>1. c.block \in Free /\ \A b \in Free : c.block <= b
      BY <1>2, <1>7
    <3>2. \A b \in Free : ~(b < c.block)
      BY <1>5, <3>1, NoneLower
    <3>3. 0 .. 0 - 1 = {}
      OBVIOUS
    <3> QED BY <3>2, <3>3
  <2>6. \A b \in Free : b < c.more <=> b = c.block
    <3>1. c.more \in Free /\ c.block \in Free /\ c.more # c.block
      BY <1>2, <1>3, <1>7
    <3> SUFFICES ASSUME NEW b \in Free PROVE b < c.more <=> b = c.block
      OBVIOUS
    <3>2. b \in Int /\ c.more \in Int /\ c.block \in Int
      BY <1>5, <3>1
    <3>3. c.block <= c.more /\ (b # c.block => c.more <= b)
      BY <1>2, <1>3, <1>7, <3>1
    <3> QED BY <3>1, <3>2, <3>3
  <2>7. 0 .. 1 - 1 = {0}
    OBVIOUS
  <2>8. \A x \in 0 .. k - 1, b \in Free : b < f[x] <=> \E y \in 0 .. x - 1 : f[y] = b
    BY <2>1, <2>3, <2>5, <2>6, <2>7
  <2>9. f \in Im(disk)!LowestFree(k)
    BY <1>6, <2>4, <2>8
  <2>10. {f[x] : x \in DOMAIN f} = {c.block, c.more} \ {None}
    BY <1>2, <1>3, <1>5, <1>7, <2>3
  <2> QED BY <1>3, <1>7, <2>1, <2>3, <2>9, <2>10
<1>8. CASE ~(c.type = Now!UFS_DIRECTORY) /\ Im(disk)!NeedsBlock(c.inum)
  <2>1. k = 1 /\ Own(c) = 0 /\ 0 .. k - 1 = {0}
    BY <1>1, <1>8 DEF Own
  <2>2. f = [x \in {0} |-> c.more]
    BY <1>8, <2>1 DEF TakenBlocks
  <2>3. f[0] = c.more /\ DOMAIN f = {0}
    BY <2>2
  <2>4. f \in [0 .. k - 1 -> Free]
    BY <1>3, <1>8, <2>1, <2>2
  <2>5. \A b \in Free : b < c.more <=> \E y \in 0 .. 0 - 1 : f[y] = b
    <3>1. c.more \in Free /\ \A b \in Free : c.more <= b
      BY <1>3, <1>4, <1>5, <1>8
    <3>2. \A b \in Free : ~(b < c.more)
      BY <1>5, <3>1, NoneLower
    <3>3. 0 .. 0 - 1 = {}
      OBVIOUS
    <3> QED BY <3>2, <3>3
  <2>6. \A x \in 0 .. k - 1, b \in Free : b < f[x] <=> \E y \in 0 .. x - 1 : f[y] = b
    BY <2>1, <2>3, <2>5
  <2>7. f \in Im(disk)!LowestFree(k)
    BY <1>6, <2>4, <2>6
  <2>8. {f[x] : x \in DOMAIN f} = {c.block, c.more} \ {None}
    BY <1>3, <1>4, <1>5, <1>8, <2>3
  <2> QED BY <1>8, <2>1, <2>3, <2>7, <2>8
<1>9. CASE c.type = Now!UFS_DIRECTORY /\ ~Im(disk)!NeedsBlock(c.inum)
  <2>1. k = 1 /\ Own(c) = 1 /\ 0 .. k - 1 = {0}
    BY <1>1, <1>9 DEF Own
  <2>2. f = [x \in {0} |-> c.block]
    BY <1>9, <2>1 DEF TakenBlocks
  <2>3. f[0] = c.block /\ DOMAIN f = {0}
    BY <2>2
  <2>4. f \in [0 .. k - 1 -> Free]
    BY <1>2, <1>9, <2>1, <2>2
  <2>5. \A b \in Free : b < c.block <=> \E y \in 0 .. 0 - 1 : f[y] = b
    <3>1. c.block \in Free /\ \A b \in Free : c.block <= b
      BY <1>2, <1>9
    <3>2. \A b \in Free : ~(b < c.block)
      BY <1>5, <3>1, NoneLower
    <3>3. 0 .. 0 - 1 = {}
      OBVIOUS
    <3> QED BY <3>2, <3>3
  <2>6. \A x \in 0 .. k - 1, b \in Free : b < f[x] <=> \E y \in 0 .. x - 1 : f[y] = b
    BY <2>1, <2>3, <2>5
  <2>7. f \in Im(disk)!LowestFree(k)
    BY <1>6, <2>4, <2>6
  <2>8. {f[x] : x \in DOMAIN f} = {c.block, c.more} \ {None}
    BY <1>2, <1>4, <1>5, <1>9, <2>3
  <2> QED BY <1>9, <2>1, <2>3, <2>7, <2>8
<1>10. CASE ~(c.type = Now!UFS_DIRECTORY) /\ ~Im(disk)!NeedsBlock(c.inum)
  <2>1. k = 0 /\ 0 .. k - 1 = {}
    BY <1>1, <1>10 DEF Own
  <2>2. f = [x \in {} |-> c.more]
    BY <1>10, <2>1 DEF TakenBlocks
  <2>3. f \in [0 .. k - 1 -> Free]
    BY <2>1, <2>2
  <2>4. f \in Im(disk)!LowestFree(k)
    BY <1>6, <2>1, <2>3
  <2>5. {f[x] : x \in DOMAIN f} = {c.block, c.more} \ {None}
    BY <1>4, <1>10, <2>2
  <2> QED BY <1>10, <2>1, <2>4, <2>5
<1> QED BY <1>7, <1>8, <1>9, <1>10

LEMMA CreateAnswers ==
  ASSUME NEW disk, Sound(disk), NEW c \in CreateCall, c.at = "commit",
         CreateChecked(disk, c), CreateTook(disk, c)
  PROVE  /\ Im(disk)!CreateReturn(c.inum, c.type, c.name) = c.new
         /\ c.new \in Nat /\ c.new \in Now!Inode
<1>1. c.new \in Now!Inode \ disk[inode_bitmap_addr] /\ \A i \in Now!Inode \ disk[inode_bitmap_addr] : c.new <= i
  BY DEF CreateTook, View, Lowest
<1>2. Min(Now!Inode \ disk[inode_bitmap_addr]) = c.new /\ c.new \in Nat
  <2>1. PICK S : S = Now!Inode \ disk[inode_bitmap_addr]
    OBVIOUS
  <2>2. S \subseteq Nat /\ c.new \in S
    BY <1>1, <2>1, SizesAssumption DEF Now!Inode
  <2>3. Min(S) \in S /\ \A y \in S : Min(S) <= y
    BY <2>2, MinOfNaturals
  <2>4. c.new <= Min(S) /\ Min(S) <= c.new /\ c.new \in Nat /\ Min(S) \in Nat
    BY <1>1, <2>1, <2>2, <2>3
  <2> QED BY <2>1, <2>4
<1>3. c.name \in Names /\ c.name \notin {"", LongName, ".", ".."}
  BY NamesAssumption DEF CreateCall
<1>4. Im(disk)!IsDirectory(c.inum)
  BY DEF CreateChecked
<1>5. ~(Im(disk)!lookup(c.inum, c.name) >= 0)
  BY DEF CreateChecked, Now!ENOTFOUND
<1>6. Im(disk)!CreateHasRoom(c.inum, c.type)
  <2>1. disk[inode_bitmap_addr] # Im(disk)!Inode
    BY <1>1, ImConstants
  <2>2. PICK k : k = Im(disk)!CreateBlocks(c.inum, c.type)
    OBVIOUS
  <2>3. PICK f : f = TakenBlocks(c, k)
    OBVIOUS
  <2>4. /\ k \in Nat /\ f \in Im(disk)!LowestFree(k)
        /\ \A x, y \in 0 .. k - 1 : f[x] = f[y] => x = y
    BY <2>2, <2>3, CreateTakes
  <2>5. f \in [0 .. k - 1 -> Im(disk)!FreeBlocks]
    BY <2>4 DEF Im!LowestFree
  <2>6. Cardinality(Im(disk)!FreeBlocks) \in Nat /\ k <= Cardinality(Im(disk)!FreeBlocks)
    BY <2>4, <2>5, FreeEnough
  <2>7. Im(disk)!NeedsBlock(c.inum) => Im(disk)!Blocks(InodesOf(disk)[c.inum].size) < DIRECT_PTRS
    <3>1. Im(disk)!NeedsBlock(c.inum) => HomeIndex(disk, c.inum) < DIRECT_PTRS
      BY DEF CreateTook
    <3>2. Im(disk)!NeedsBlock(c.inum) =>
            HomeIndex(disk, c.inum) = Now!Blocks(InodesOf(disk)[c.inum].size)
      BY ParentOfCreate DEF Sound, PlacesFit, HomeIndex
    <3> QED BY <3>1, <3>2, ImConstants
  <2>8. Im(disk)!Cardinality(Im(disk)!FreeBlocks) >= k
    <3>1. Im(disk)!Cardinality(Im(disk)!FreeBlocks) = Cardinality(Im(disk)!FreeBlocks)
      BY CardinalityIs
    <3> QED BY <2>4, <2>6, <3>1
  <2> QED BY <2>1, <2>2, <2>7, <2>8 DEF Im!CreateHasRoom
<1>7. Im(disk)!CreateReturn(c.inum, c.type, c.name) = Im(disk)!Min(Im(disk)!Inode \ disk[inode_bitmap_addr])
  BY <1>3, <1>4, <1>5, <1>6, Zenon DEF Im!CreateReturn
<1>8. Im(disk)!Min(Im(disk)!Inode \ disk[inode_bitmap_addr]) = c.new
  BY <1>2, MinIs, ImConstants
<1> QED BY <1>1, <1>2, <1>7, <1>8

\* The image after a call.
AfterCreate(disk, p, t, n, i, own, f, home) ==
  [ib |-> disk[inode_bitmap_addr] \cup {i},
   db |-> disk[data_bitmap_addr] \cup {f[x] : x \in DOMAIN f},
   nodes |-> [InodesOf(disk) EXCEPT ![p] = Im(disk)!Extended(p, f[own]),
                                    ![i] = Im(disk)!Created(i, t, f[0])],
   data |-> [b \in Now!DataBlock |->
               IF b = home THEN Im(disk)!WithEntry(p, home, n, i)
               ELSE IF own = 1 /\ b = f[0] THEN Now!NewDirBlock(i, p)
               ELSE DataOf(disk)[b]]]

AfterWrite(disk, c, f, q) ==
  [ib |-> disk[inode_bitmap_addr],
   db |-> (disk[data_bitmap_addr] \cup {f[x] : x \in DOMAIN f})
            \ Im(disk)!WriteFrees(c.inum, c.size),
   nodes |-> [InodesOf(disk) EXCEPT
     ![c.inum] = [type |-> InodesOf(disk)[c.inum].type, size |-> c.size, direct |-> q]],
   data |-> [b \in Now!DataBlock |->
     IF {x \in 0 .. Now!Blocks(c.size) - 1 : q[x] = b} # {}
     THEN Now!FileBlock(c.value, c.size, Max({x \in 0 .. Now!Blocks(c.size) - 1 : q[x] = b}))
     ELSE DataOf(disk)[b]]]

AfterUnlink(disk, c, e, after, q) ==
  [ib |-> disk[inode_bitmap_addr] \ {c.new},
   db |-> disk[data_bitmap_addr] \ Im(disk)!UnlinkFrees(c.inum, c.new),
   nodes |-> [InodesOf(disk) EXCEPT ![c.inum] = Im(disk)!Shortened(c.inum)],
   data |-> [b \in Now!DataBlock |->
     IF {x \in 0 .. after - 1 : q[x] = b} # {}
     THEN Im(disk)!CompactedBlock(c.inum, e, Max({x \in 0 .. after - 1 : q[x] = b}))
     ELSE DataOf(disk)[b]]]

LEMMA CreateCommits ==
  ASSUME NEW disk, Sound(disk), NEW c \in CreateCall, c.at = "commit",
         NEW v, CreateFits(disk, c, v),
         NEW k, k = Im(disk)!CreateBlocks(c.inum, c.type),
         NEW f, f = TakenBlocks(c, k),
         NEW home, home = Im(disk)!Extended(c.inum, f[Own(c)]).direct[
                            Im(disk)!CreatePosition(c.inum) \div UFS_BLOCK_SIZE]
  PROVE  v = AfterCreate(disk, c.inum, c.type, c.name, c.new, Own(c), f, home)
<1>1. /\ CreateTook(disk, c)
      /\ v = [ib |-> disk[inode_bitmap_addr] \cup ({c.new} \ {None}),
              db |-> disk[data_bitmap_addr] \cup ({c.block, c.more} \ {None}),
              nodes |-> CreateNodes(disk, c),
              data |-> CreateData(disk, c)]
  BY DEF CreateFits
<1>2. /\ Im(disk)!NeedsBlock(c.inum) => f[Own(c)] = c.more
      /\ c.type = Now!UFS_DIRECTORY => f[0] = c.block
      /\ {f[x] : x \in DOMAIN f} = {c.block, c.more} \ {None}
  BY <1>1, CreateTakes
<1>3. c.new # None
  BY <1>1, NoneIsNone DEF CreateTook, Lowest
<1>4. Im(disk)!Extended(c.inum, c.more) = Im(disk)!Extended(c.inum, f[Own(c)])
  BY <1>2 DEF Im!Extended
<1>5. Im(disk)!Created(c.new, c.type, c.block) = Im(disk)!Created(c.new, c.type, f[0])
  BY <1>2, ImConstants DEF Im!Created
<1>6. home = HomeBlock(disk, c)
  <2>1. CASE Im(disk)!NeedsBlock(c.inum)
    <3>1. PICK q : q = InodesOf(disk)[c.inum].direct
      OBVIOUS
    <3>2. DOMAIN q = Now!Index
      BY <1>1, <3>1, ParentOfCreate DEF CreateFits, Now!InodeRecord
    <3>3. HomeIndex(disk, c.inum) \in Now!Index
      <4>1. HomeIndex(disk, c.inum) \in Nat
        BY ParentOfCreate DEF CreateFits, Sound, PlacesFit, HomeIndex
      <4>2. HomeIndex(disk, c.inum) < DIRECT_PTRS
        BY <1>1, <2>1 DEF CreateTook
      <4> QED BY <4>1, <4>2, SizesAssumption DEF Now!Index
    <3>4. Im(disk)!Extended(c.inum, f[Own(c)]).direct = [q EXCEPT ![HomeIndex(disk, c.inum)] = c.more]
      BY <1>2, <2>1, <3>1 DEF Im!Extended, HomeIndex
    <3>5. home = [q EXCEPT ![HomeIndex(disk, c.inum)] = c.more][HomeIndex(disk, c.inum)]
      BY <3>4 DEF HomeIndex
    <3>6. home = c.more
      BY <3>2, <3>3, <3>5
    <3> QED BY <2>1, <3>6 DEF HomeBlock
  <2>2. CASE ~Im(disk)!NeedsBlock(c.inum)
    <3>1. Im(disk)!Extended(c.inum, f[Own(c)]).direct = InodesOf(disk)[c.inum].direct
      BY <2>2 DEF Im!Extended
    <3> QED BY <2>2, <3>1 DEF HomeBlock, HomeIndex
  <2> QED BY <2>1, <2>2
<1>7. ASSUME NEW b \in Now!DataBlock
      PROVE  CreateData(disk, c)[b] =
               IF b = home THEN Im(disk)!WithEntry(c.inum, home, c.name, c.new)
               ELSE IF Own(c) = 1 /\ b = f[0] THEN Now!NewDirBlock(c.new, c.inum)
               ELSE DataOf(disk)[b]
  <2>1. b # None
    BY NoneIsNone
  <2>2. Own(c) = 1 <=> c.type = Now!UFS_DIRECTORY
    BY DEF Own
  <2>3. c.type # Now!UFS_DIRECTORY => c.block = None
    BY <1>1 DEF CreateTook
  <2>4. b = c.block <=> Own(c) = 1 /\ b = f[0]
    BY <1>2, <2>1, <2>2, <2>3
  <2>5. CreateData(disk, c)[b] =
          IF b = home THEN Im(disk)!WithEntry(c.inum, b, c.name, c.new)
          ELSE IF b = c.block THEN Now!NewDirBlock(c.new, c.inum)
          ELSE DataOf(disk)[b]
    BY <1>6 DEF CreateData
  <2> QED BY <2>4, <2>5
<1>8. CreateData(disk, c) = [b \in Now!DataBlock |-> CreateData(disk, c)[b]]
  BY DEF CreateData
<1>9. v.nodes = [InodesOf(disk) EXCEPT ![c.inum] = Im(disk)!Extended(c.inum, f[Own(c)]),
                                       ![c.new] = Im(disk)!Created(c.new, c.type, f[0])]
  BY <1>1, <1>4, <1>5 DEF CreateNodes
<1>10. v.data = [b \in Now!DataBlock |->
                        IF b = home THEN Im(disk)!WithEntry(c.inum, home, c.name, c.new)
                        ELSE IF Own(c) = 1 /\ b = f[0] THEN Now!NewDirBlock(c.new, c.inum)
                        ELSE DataOf(disk)[b]]
  BY <1>1, <1>7, <1>8
<1> QED BY <1>1, <1>2, <1>3, <1>9, <1>10, ZenonT(60) DEF AfterCreate

\* The blocks a write has taken, in this order.
PointersAt(q, S) == {q[x] : x \in S}
NewBlocks(c, now, k) == [x \in 0 .. k - 1 |-> c.inode.direct[now + x]]

LEMMA WriteTakes ==
  ASSUME NEW disk, Sound(disk), NEW c \in WriteCall, c.at = "commit",
         WriteChecked(disk, c), WriteTook(disk, c),
         NEW now, now = Now!Blocks(InodesOf(disk)[c.inum].size),
         NEW cnt, cnt = Now!Blocks(c.size),
         NEW k, k = Now!Larger(0, cnt - now),
         NEW f, f = NewBlocks(c, now, k)
  PROVE  /\ k \in Nat /\ cnt - now <= k
         /\ k = 0 \/ k = cnt - now
         /\ f \in Im(disk)!LowestFree(k)
         /\ \A x, y \in 0 .. k - 1 : f[x] = f[y] => x = y
         /\ PointersAt(f, DOMAIN f) = PointersAt(c.inode.direct, WriteTaken(disk, c))
<1>1. now \in Nat /\ now <= DIRECT_PTRS /\ cnt \in Nat /\ 0 < cnt /\ cnt <= DIRECT_PTRS
  BY FileOfWrite
<1>2. /\ k \in Nat /\ cnt - now <= k /\ (k = 0 \/ k = cnt - now)
      /\ (k = 0 => cnt - now <= 0)
  BY <1>1 DEF Now!Larger
<1>3. WriteTaken(disk, c) = now .. cnt - 1
  BY DEF WriteTaken
<1> DEFINE Free == Now!DataBlock \ disk[data_bitmap_addr]
           q == c.inode.direct
<1>4. \A y \in now .. cnt - 1 :
        /\ q[y] \in Free
        /\ \A b \in Free : b < q[y] <=> \E z \in now .. cnt - 1 : z < y /\ q[z] = b
  BY <1>3 DEF WriteTook
<1>5. Im(disk)!LowestFree(k) =
        {g \in [0 .. k - 1 -> Free] :
           \A x \in 0 .. k - 1, b \in Free : b < g[x] <=> \E y \in 0 .. x - 1 : g[y] = b}
  BY FreeIs DEF Im!LowestFree
<1>6. f = [x \in 0 .. k - 1 |-> q[now + x]]
  BY DEF NewBlocks
<1>7. \A y, z \in 0 .. cnt - 1 : q[z] = q[y] => z = y
  BY NewPointers
<1> HIDE DEF Free, q
<1>8. \A x \in 0 .. k - 1 :
        now + x \in now .. cnt - 1 /\ now + x \in 0 .. cnt - 1 /\ f[x] = q[now + x]
  <2>1. \A x \in 0 .. k - 1 : now + x \in now .. cnt - 1 /\ now + x \in 0 .. cnt - 1
    BY <1>1, <1>2
  <2>2. \A x \in 0 .. k - 1 : f[x] = q[now + x]
    BY <1>6
  <2> QED BY <2>1, <2>2
<1>9. \A y \in now .. cnt - 1 : y - now \in 0 .. k - 1 /\ now + (y - now) = y
  BY <1>1, <1>2
<1>10. f \in [0 .. k - 1 -> Free]
  <2>1. \A x \in 0 .. k - 1 : q[now + x] \in Free
    BY <1>4, <1>8
  <2> QED BY <1>6, <2>1
<1>11. ASSUME NEW x \in 0 .. k - 1, NEW b \in Free
       PROVE  b < f[x] <=> \E y \in 0 .. x - 1 : f[y] = b
  <2>1. b < f[x] <=> \E z \in now .. cnt - 1 : z < now + x /\ q[z] = b
    BY <1>4, <1>8
  <2>2. ASSUME NEW z \in now .. cnt - 1, z < now + x, q[z] = b
        PROVE  \E y \in 0 .. x - 1 : f[y] = b
    <3>1. z - now \in 0 .. x - 1 /\ z - now \in 0 .. k - 1 /\ now + (z - now) = z
      BY <1>1, <1>2, <2>2
    <3>2. f[z - now] = b
      BY <1>8, <2>2, <3>1
    <3> QED BY <3>1, <3>2
  <2>3. ASSUME NEW y \in 0 .. x - 1, f[y] = b
        PROVE  \E z \in now .. cnt - 1 : z < now + x /\ q[z] = b
    <3>1. y \in 0 .. k - 1 /\ now + y < now + x
      BY <1>1, <1>2
    <3>2. now + y \in now .. cnt - 1 /\ q[now + y] = b
      BY <1>8, <2>3, <3>1
    <3> QED BY <3>1, <3>2
  <2> QED BY <2>1, <2>2, <2>3
<1>12. f \in Im(disk)!LowestFree(k)
  BY <1>5, <1>10, <1>11, SMTT(60)
<1>13. \A x, y \in 0 .. k - 1 : f[x] = f[y] => x = y
  <2>1. \A x, y \in 0 .. k - 1 : now + x = now + y => x = y
    BY <1>1, <1>2
  <2> QED BY <1>7, <1>8, <2>1, SMTT(60)
<1>14. {f[x] : x \in DOMAIN f} = {q[y] : y \in now .. cnt - 1}
  <2>1. DOMAIN f = 0 .. k - 1
    BY <1>6
  <2>2. \A x \in 0 .. k - 1 : \E y \in now .. cnt - 1 : f[x] = q[y]
    BY <1>8
  <2>3. \A y \in now .. cnt - 1 : \E x \in 0 .. k - 1 : f[x] = q[y]
    BY <1>8, <1>9
  <2>4. {f[x] : x \in DOMAIN f} = {f[x] : x \in 0 .. k - 1}
    BY <2>1, Zenon
  <2>5. {f[x] : x \in 0 .. k - 1} \subseteq {q[y] : y \in now .. cnt - 1}
    <3> SUFFICES ASSUME NEW x \in 0 .. k - 1 PROVE f[x] \in {q[y] : y \in now .. cnt - 1}
      OBVIOUS
    <3>1. PICK y \in now .. cnt - 1 : f[x] = q[y]
      BY <2>2
    <3> QED BY <3>1
  <2>6. {q[y] : y \in now .. cnt - 1} \subseteq {f[x] : x \in 0 .. k - 1}
    <3> SUFFICES ASSUME NEW y \in now .. cnt - 1 PROVE q[y] \in {f[x] : x \in 0 .. k - 1}
      OBVIOUS
    <3>1. PICK x \in 0 .. k - 1 : f[x] = q[y]
      BY <2>3
    <3> QED BY <3>1
  <2> QED BY <2>4, <2>5, <2>6
<1>15. PointersAt(f, DOMAIN f) = PointersAt(c.inode.direct, WriteTaken(disk, c))
  BY <1>3, <1>14 DEF q, PointersAt
<1> QED BY <1>2, <1>12, <1>13, <1>15

LEMMA WriteAnswers ==
  ASSUME NEW disk, Sound(disk), NEW c \in WriteCall, c.at = "commit",
         WriteChecked(disk, c), WriteTook(disk, c)
  PROVE  Im(disk)!WriteReturn(c.inum, c.size) = c.size /\ c.size > 0
<1>1. PICK now, cnt, k : /\ now = Now!Blocks(InodesOf(disk)[c.inum].size)
                         /\ cnt = Now!Blocks(c.size) /\ k = Now!Larger(0, cnt - now)
  OBVIOUS
<1>2. PICK f : f = NewBlocks(c, now, k)
  OBVIOUS
<1>3. /\ k \in Nat /\ cnt - now <= k
      /\ f \in Im(disk)!LowestFree(k)
      /\ \A x, y \in 0 .. k - 1 : f[x] = f[y] => x = y
  BY <1>1, <1>2, WriteTakes
<1>4. f \in [0 .. k - 1 -> Im(disk)!FreeBlocks]
  BY <1>3 DEF Im!LowestFree
<1>5. Cardinality(Im(disk)!FreeBlocks) \in Nat /\ k <= Cardinality(Im(disk)!FreeBlocks)
  BY <1>3, <1>4, FreeEnough
<1>6. now \in Nat /\ cnt \in Nat /\ cnt <= DIRECT_PTRS /\ c.size \in Nat /\ c.size > 0
  BY <1>1, FileOfWrite DEF WriteChecked
<1>7. ~(cnt - now > Im(disk)!Cardinality(Im(disk)!FreeBlocks))
  BY <1>3, <1>5, <1>6, CardinalityIs
<1>8. Im(disk)!Blocks(c.size) = cnt /\ Im(disk)!Blocks(InodesOf(disk)[c.inum].size) = now
  BY <1>1, ImConstants
<1>9. ~(c.size <= 0) /\ ~(cnt > DIRECT_PTRS)
  BY <1>6, SizesAssumption
<1>10. Im(disk)!IsFile(c.inum) /\ Im(disk)!Allocated(c.inum)
  BY DEF WriteChecked, Im!IsFile
<1>11. Im(disk)!WriteReturn(c.inum, c.size) = c.size
  BY <1>7, <1>8, <1>9, <1>10, Zenon DEF Im!WriteReturn
<1> QED BY <1>6, <1>11

\* The blocks filled one after the other, as a function of the block.
FilledBy(data, old, B, cnt, q, F) ==
  /\ data = [b \in B |-> data[b]]
  /\ \A y \in 0 .. cnt - 1 : q[y] \in B /\ data[q[y]] = F[y]
  /\ \A y, z \in 0 .. cnt - 1 : q[z] = q[y] => z = y
  /\ \A b \in B : (\A y \in 0 .. cnt - 1 : q[y] # b) => data[b] = old[b]

Filled(old, B, cnt, q, F) ==
  [b \in B |-> IF {x \in 0 .. cnt - 1 : q[x] = b} # {}
               THEN F[Max({x \in 0 .. cnt - 1 : q[x] = b})] ELSE old[b]]

LEMMA FilledBlocks ==
  ASSUME NEW data, NEW old, NEW B, NEW cnt \in Nat, NEW q, NEW F, FilledBy(data, old, B, cnt, q, F)
  PROVE  data = Filled(old, B, cnt, q, F)
<1>1. ASSUME NEW b \in B
      PROVE  data[b] = IF {x \in 0 .. cnt - 1 : q[x] = b} # {}
                       THEN F[Max({x \in 0 .. cnt - 1 : q[x] = b})] ELSE old[b]
  <2>1. CASE \E y \in 0 .. cnt - 1 : q[y] = b
    <3>1. PICK y \in 0 .. cnt - 1 : q[y] = b
      BY <2>1
    <3>2. {x \in 0 .. cnt - 1 : q[x] = b} = {y}
      BY <3>1 DEF FilledBy
    <3>3. Max({y}) = y
      BY DEF Max
    <3>4. data[b] = F[y]
      BY <3>1 DEF FilledBy
    <3> QED BY <3>2, <3>3, <3>4
  <2>2. CASE ~(\E y \in 0 .. cnt - 1 : q[y] = b)
    <3>1. {x \in 0 .. cnt - 1 : q[x] = b} = {}
      BY <2>2
    <3>2. data[b] = old[b]
      BY <2>2 DEF FilledBy
    <3> QED BY <3>1, <3>2
  <2> QED BY <2>1, <2>2
<1> QED BY <1>1 DEF FilledBy, Filled

LEMMA PointersOfWrite ==
  ASSUME NEW disk, Sound(disk), NEW c \in WriteCall, c.at = "commit",
         WriteChecked(disk, c), WriteTook(disk, c),
         NEW now, now = Now!Blocks(InodesOf(disk)[c.inum].size),
         NEW cnt, cnt = Now!Blocks(c.size),
         NEW k, k = Now!Larger(0, cnt - now),
         NEW f, f = NewBlocks(c, now, k)
  PROVE  Im(disk)!Repointed(c.inum, c.size, f) = c.inode.direct
<1>1. now \in Nat /\ now <= DIRECT_PTRS /\ cnt \in Nat /\ 0 < cnt /\ cnt <= DIRECT_PTRS
  BY FileOfWrite
<1>2. WriteTaken(disk, c) = now .. cnt - 1 /\ WriteGiven(disk, c) = cnt .. now - 1
  BY DEF WriteTaken, WriteGiven
<1>3. PICK q, old : q = c.inode.direct /\ old = InodesOf(disk)[c.inum].direct
  OBVIOUS
<1>4. q = [x \in Now!Index |-> q[x]]
  BY <1>3 DEF WriteCall, Now!InodeRecord
<1>5. \A x \in Now!Index \ (now .. cnt - 1) :
        q[x] = IF x \in cnt .. now - 1 THEN Now!Unset ELSE old[x]
  BY <1>2, <1>3 DEF WriteTook
<1>6. Im(disk)!Repointed(c.inum, c.size, f) =
        [x \in Now!Index |-> IF x \in now .. cnt - 1 THEN f[x - now]
                             ELSE IF x \in cnt .. now - 1 THEN Now!Unset ELSE old[x]]
  BY <1>3, ImConstants DEF Im!Repointed
<1>7. ASSUME NEW x \in now .. cnt - 1 PROVE f[x - now] = q[x]
  <2>1. x - now \in 0 .. k - 1 /\ now + (x - now) = x
    BY <1>1 DEF Now!Larger
  <2>2. f[x - now] = q[now + (x - now)]
    BY <1>3, <2>1 DEF NewBlocks
  <2> QED BY <2>1, <2>2
<1>8. \A x \in Now!Index :
        (IF x \in now .. cnt - 1 THEN f[x - now]
         ELSE IF x \in cnt .. now - 1 THEN Now!Unset ELSE old[x]) = q[x]
  BY <1>5, <1>7
<1> QED BY <1>3, <1>4, <1>6, <1>8

LEMMA WriteCommits ==
  ASSUME NEW disk, Sound(disk), NEW c \in WriteCall, c.at = "commit",
         NEW v, IsView(v), WriteFits(disk, c, v),
         NEW k, k = Now!Larger(0, Now!Blocks(c.size) - Now!Blocks(InodesOf(disk)[c.inum].size)),
         NEW f, f = NewBlocks(c, Now!Blocks(InodesOf(disk)[c.inum].size), k),
         NEW q, q = Im(disk)!Repointed(c.inum, c.size, f)
  PROVE  v = AfterWrite(disk, c, f, q)
<1>1. PICK now, cnt : now = Now!Blocks(InodesOf(disk)[c.inum].size) /\ cnt = Now!Blocks(c.size)
  OBVIOUS
<1>2. WriteChecked(disk, c) /\ WriteTook(disk, c)
  BY DEF WriteFits
<1>3. q = c.inode.direct
  BY <1>1, <1>2, PointersOfWrite
<1>4. /\ now \in Nat /\ cnt \in Nat /\ InodesOf(disk)[c.inum].type = Now!UFS_REGULAR_FILE
  BY <1>1, <1>2, FileOfWrite
<1>5. {f[x] : x \in DOMAIN f} = {c.inode.direct[y] : y \in WriteTaken(disk, c)}
  <2>1. k = Now!Larger(0, cnt - now) /\ f = NewBlocks(c, now, k)
    BY <1>1
  <2>2. PointersAt(f, DOMAIN f) = PointersAt(c.inode.direct, WriteTaken(disk, c))
    BY <1>1, <1>2, <2>1, WriteTakes
  <2> QED BY <2>2 DEF PointersAt
<1>6. Im(disk)!WriteFrees(c.inum, c.size) =
        {InodesOf(disk)[c.inum].direct[y] : y \in WriteGiven(disk, c)}
  BY <1>1, ImConstants DEF Im!WriteFrees, WriteGiven
<1>7. v.db = (disk[data_bitmap_addr] \cup {f[x] : x \in DOMAIN f})
                     \ Im(disk)!WriteFrees(c.inum, c.size)
  BY <1>5, <1>6, Zenon DEF WriteFits
<1>8. [c.inode EXCEPT !.size = c.size] =
        [type |-> InodesOf(disk)[c.inum].type, size |-> c.size, direct |-> q]
  BY <1>2, <1>3, <1>4 DEF WriteCall, Now!InodeRecord, WriteTook
<1>9. v.nodes = [InodesOf(disk) EXCEPT
              ![c.inum] = [type |-> InodesOf(disk)[c.inum].type, size |-> c.size, direct |-> q]]
  <2>1. WriteNodes(disk, c) = [InodesOf(disk) EXCEPT ![c.inum] = [c.inode EXCEPT !.size = c.size]]
    BY DEF WriteNodes
  <2> QED BY <1>8, <2>1 DEF WriteFits
<1>10. WriteFilled(disk, c) = 0 .. cnt - 1
  BY <1>1 DEF WriteFilled
<1>11. PICK F : F = [y \in 0 .. cnt - 1 |-> Now!FileBlock(c.value, c.size, y)]
  OBVIOUS
<1>12. PICK data, old : data = v.data /\ old = DataOf(disk)
  OBVIOUS
<1>13. data = [b \in Now!DataBlock |-> data[b]]
  BY <1>12 DEF IsView
<1>14. /\ \A y \in 0 .. cnt - 1 : data[q[y]] = F[y]
       /\ \A b \in Now!DataBlock : (\A y \in 0 .. cnt - 1 : q[y] # b) => data[b] = old[b]
  BY <1>3, <1>10, <1>11, <1>12 DEF WriteFits, WriteData1
<1>15. /\ \A y \in 0 .. cnt - 1 : q[y] \in Now!DataBlock
       /\ \A y, z \in 0 .. cnt - 1 : q[z] = q[y] => z = y
  BY <1>1, <1>2, <1>3, NewPointers
<1>16. data = [b \in Now!DataBlock |->
                 IF {x \in 0 .. cnt - 1 : q[x] = b} # {}
                 THEN F[Max({x \in 0 .. cnt - 1 : q[x] = b})] ELSE old[b]]
  <2>1. FilledBy(data, old, Now!DataBlock, cnt, q, F)
    BY <1>13, <1>14, <1>15 DEF FilledBy
  <2>2. data = Filled(old, Now!DataBlock, cnt, q, F)
    BY <1>4, <2>1, FilledBlocks
  <2> QED BY <2>2 DEF Filled
<1>17. ASSUME NEW b \in Now!DataBlock, {x \in 0 .. cnt - 1 : q[x] = b} # {}
       PROVE  F[Max({x \in 0 .. cnt - 1 : q[x] = b})] =
                Now!FileBlock(c.value, c.size, Max({x \in 0 .. cnt - 1 : q[x] = b}))
  <2>1. PICK S : S = {x \in 0 .. cnt - 1 : q[x] = b}
    OBVIOUS
  <2>2. PICK y \in 0 .. cnt - 1 : q[y] = b
    BY <1>17
  <2>3. S = {y}
    BY <1>15, <2>1, <2>2
  <2>4. Max(S) \in 0 .. cnt - 1
    BY <2>3 DEF Max
  <2>5. F[Max(S)] = Now!FileBlock(c.value, c.size, Max(S))
    BY <1>11, <2>4
  <2> QED BY <2>1, <2>5
<1>18. v.data = [b \in Now!DataBlock |->
                 IF {x \in 0 .. cnt - 1 : q[x] = b} # {}
                 THEN Now!FileBlock(c.value, c.size, Max({x \in 0 .. cnt - 1 : q[x] = b}))
                 ELSE DataOf(disk)[b]]
  BY <1>12, <1>16, <1>17, ZenonT(60)
<1>19. v = [ib |-> v.ib, db |-> v.db, nodes |-> v.nodes, data |-> v.data]
  BY DEF IsView
<1>20. v.ib = disk[inode_bitmap_addr]
  BY DEF WriteFits
<1> QED BY <1>1, <1>7, <1>9, <1>18, <1>19, <1>20, Zenon DEF AfterWrite

LEMMA UnlinkCommits ==
  ASSUME NEW disk, Sound(disk), NEW c \in UnlinkCall, c.at = "commit",
         NEW v, IsView(v), UnlinkFits(disk, c, v),
         NEW e, e = Min(Im(disk)!UnlinkHits(c.inum, c.name)),
         NEW after, after = Now!Blocks(InodesOf(disk)[c.inum].size - 1),
         NEW q, q = InodesOf(disk)[c.inum].direct
  PROVE  /\ Im(disk)!UnlinkReturn(c.inum, c.name) = 0
         /\ c.new = Im(disk)!EntryAt(c.inum, e).inum
         /\ v = AfterUnlink(disk, c, e, after, q)
<1>1. UnlinkChecked(disk, c)
  BY DEF UnlinkFits
<1>2. /\ c.inum \in disk[inode_bitmap_addr]
      /\ after \in Nat /\ after <= Now!Blocks(InodesOf(disk)[c.inum].size)
      /\ Now!Blocks(InodesOf(disk)[c.inum].size) \in Nat
  BY <1>1, TargetOfUnlink DEF Shorter
<1>3. UnlinkMoved(disk, c) = 0 .. after - 1
  BY DEF UnlinkMoved, Shorter
<1>4. PICK F : F = [y \in 0 .. after - 1 |-> Im(disk)!CompactedBlock(c.inum, e, y)]
  OBVIOUS
<1>5. PICK data, old : data = v.data /\ old = DataOf(disk)
  OBVIOUS
<1>6. data = [b \in Now!DataBlock |-> data[b]]
  BY <1>5 DEF IsView
<1>7. /\ \A y \in 0 .. after - 1 : data[q[y]] = F[y]
      /\ \A b \in Now!DataBlock : (\A y \in 0 .. after - 1 : q[y] # b) => data[b] = old[b]
  BY <1>3, <1>4, <1>5 DEF UnlinkFits, UnlinkData
<1>8. /\ \A y \in 0 .. after - 1 : q[y] \in Now!DataBlock
      /\ \A y, z \in 0 .. after - 1 : q[z] = q[y] => z = y
  <2>1. PICK before : before = Now!Blocks(InodesOf(disk)[c.inum].size)
    OBVIOUS
  <2>2. \A y \in 0 .. before - 1 :
           /\ q[y] \in Now!DataBlock
           /\ \A z \in 0 .. before - 1 : q[y] = q[z] => y = z
    BY <1>2, <2>1, BlocksOfInode
  <2>3. \A y \in 0 .. after - 1 : y \in 0 .. before - 1
    BY <1>2, <2>1
  <2> QED BY <2>2, <2>3
<1>9. data = [b \in Now!DataBlock |->
                 IF {x \in 0 .. after - 1 : q[x] = b} # {}
                 THEN F[Max({x \in 0 .. after - 1 : q[x] = b})] ELSE old[b]]
  <2>1. FilledBy(data, old, Now!DataBlock, after, q, F)
    BY <1>6, <1>7, <1>8 DEF FilledBy
  <2>2. data = Filled(old, Now!DataBlock, after, q, F)
    BY <1>2, <2>1, FilledBlocks
  <2> QED BY <2>2 DEF Filled
<1>10. ASSUME NEW b \in Now!DataBlock, {x \in 0 .. after - 1 : q[x] = b} # {}
       PROVE  F[Max({x \in 0 .. after - 1 : q[x] = b})] =
                Im(disk)!CompactedBlock(c.inum, e, Max({x \in 0 .. after - 1 : q[x] = b}))
  <2>1. PICK S : S = {x \in 0 .. after - 1 : q[x] = b}
    OBVIOUS
  <2>2. PICK y \in 0 .. after - 1 : q[y] = b
    BY <1>10
  <2>3. S = {y}
    BY <1>8, <2>1, <2>2
  <2>4. Max(S) \in 0 .. after - 1
    BY <2>3 DEF Max
  <2>5. F[Max(S)] = Im(disk)!CompactedBlock(c.inum, e, Max(S))
    BY <1>4, <2>4
  <2> QED BY <2>1, <2>5
<1>11. v.data = [b \in Now!DataBlock |->
              IF {x \in 0 .. after - 1 : q[x] = b} # {}
              THEN Im(disk)!CompactedBlock(c.inum, e, Max({x \in 0 .. after - 1 : q[x] = b}))
              ELSE DataOf(disk)[b]]
  BY <1>5, <1>9, <1>10, Zenon
<1>12. Im(disk)!UnlinkFrees(c.inum, c.new) = UnlinkCut(disk, c) \cup UnlinkGone(disk, c)
  BY ImConstants DEF Im!UnlinkFrees, UnlinkCut, UnlinkGone, Shorter
<1>13. v = [ib |-> v.ib, db |-> v.db, nodes |-> v.nodes, data |-> v.data]
  BY DEF IsView
<1>14. /\ v.ib = disk[inode_bitmap_addr] \ {c.new}
       /\ v.db = disk[data_bitmap_addr] \ Im(disk)!UnlinkFrees(c.inum, c.new)
       /\ v.nodes = [InodesOf(disk) EXCEPT ![c.inum] = Im(disk)!Shortened(c.inum)]
  BY <1>12 DEF UnlinkFits
<1>15. v = AfterUnlink(disk, c, e, after, q)
  BY <1>11, <1>13, <1>14, Zenon DEF AfterUnlink
<1> QED BY <1>1, <1>15 DEF UnlinkChecked

LEMMA StableCalls ==
  /\ \A p, t, n : L!Create(p, t, n) <=> Stable!Create(p, t, n)
  /\ \A i, v, n : L!Write(i, v, n) <=> Stable!Write(i, v, n)
  /\ \A p, n : L!Unlink(p, n) <=> Stable!Unlink(p, n)
<1>1. ASSUME NEW p, NEW t, NEW n PROVE L!Create(p, t, n) <=> Stable!Create(p, t, n)
  BY DEF L!Create, Stable!Create, L!CreateReturn, Stable!CreateReturn, L!CreateBlocks,
     Stable!CreateBlocks, L!CreateHasRoom, Stable!CreateHasRoom, L!CreatePosition,
     Stable!CreatePosition, L!NeedsBlock, Stable!NeedsBlock, L!Extended, Stable!Extended,
     L!Created, Stable!Created, L!WithEntry, Stable!WithEntry, L!LowestFree, Stable!LowestFree,
     L!FreeBlocks, Stable!FreeBlocks, L!lookup, Stable!lookup, L!Positions, Stable!Positions,
     L!UnusedBlock, Stable!UnusedBlock, L!NewDirBlock, Stable!NewDirBlock, L!Larger,
     Stable!Larger, L!Cardinality, Stable!Cardinality, L!Index, Stable!Index, L!Unset,
     Stable!Unset, L!ENOTFOUND, Stable!ENOTFOUND, L!EINVALIDNAME, Stable!EINVALIDNAME,
     L!EINVALIDTYPE, Stable!EINVALIDTYPE, L!ENOTENOUGHSPACE, Stable!ENOTENOUGHSPACE,
     L!Allocated, Stable!Allocated, L!IsDirectory, Stable!IsDirectory, L!IsFile, Stable!IsFile,
     L!EntryAt, Stable!EntryAt, L!Inode, Stable!Inode, L!DataBlock, Stable!DataBlock, L!Slot,
     Stable!Slot, L!Blocks, Stable!Blocks, L!Min, Stable!Min, L!Entry, Stable!Entry,
     L!UFS_DIRECTORY, Stable!UFS_DIRECTORY, L!UFS_REGULAR_FILE, Stable!UFS_REGULAR_FILE,
     L!EINVALIDINODE, Stable!EINVALIDINODE
<1>2. ASSUME NEW i, NEW v, NEW n PROVE L!Write(i, v, n) <=> Stable!Write(i, v, n)
  BY ZenonT(60) DEF L!Write, Stable!Write, L!WriteReturn, Stable!WriteReturn, L!WriteFrees,
     Stable!WriteFrees, L!Repointed, Stable!Repointed, L!LowestFree, Stable!LowestFree,
     L!FreeBlocks, Stable!FreeBlocks, L!FileBlock, Stable!FileBlock, L!Larger, Stable!Larger,
     L!Cardinality, Stable!Cardinality, L!Max, Stable!Max, L!Index, Stable!Index, L!Unset,
     Stable!Unset, L!EINVALIDSIZE, Stable!EINVALIDSIZE, L!ENOTENOUGHSPACE,
     Stable!ENOTENOUGHSPACE, L!EWRITETODIR, Stable!EWRITETODIR, L!Allocated, Stable!Allocated,
     L!IsDirectory, Stable!IsDirectory, L!IsFile, Stable!IsFile, L!EntryAt, Stable!EntryAt,
     L!Inode, Stable!Inode, L!DataBlock, Stable!DataBlock, L!Slot, Stable!Slot, L!Blocks,
     Stable!Blocks, L!Min, Stable!Min, L!Entry, Stable!Entry, L!UFS_DIRECTORY,
     Stable!UFS_DIRECTORY, L!UFS_REGULAR_FILE, Stable!UFS_REGULAR_FILE, L!EINVALIDINODE,
     Stable!EINVALIDINODE
<1>3. ASSUME NEW p, NEW n PROVE L!Unlink(p, n) <=> Stable!Unlink(p, n)
  BY DEF L!Unlink, Stable!Unlink, L!UnlinkReturn, Stable!UnlinkReturn, L!UnlinkHits,
     Stable!UnlinkHits, L!UnlinkFrees, Stable!UnlinkFrees, L!IsEmptyDirectory,
     Stable!IsEmptyDirectory, L!Compacted, Stable!Compacted, L!CompactedBlock,
     Stable!CompactedBlock, L!Shortened, Stable!Shortened, L!Used, Stable!Used, L!Max,
     Stable!Max, L!Unset, Stable!Unset, L!EUNLINKNOTALLOWED, Stable!EUNLINKNOTALLOWED,
     L!EINVALIDNAME, Stable!EINVALIDNAME, L!EDIRNOTEMPTY, Stable!EDIRNOTEMPTY, L!Allocated,
     Stable!Allocated, L!IsDirectory, Stable!IsDirectory, L!IsFile, Stable!IsFile, L!EntryAt,
     Stable!EntryAt, L!Inode, Stable!Inode, L!DataBlock, Stable!DataBlock, L!Slot, Stable!Slot,
     L!Blocks, Stable!Blocks, L!Min, Stable!Min, L!Entry, Stable!Entry, L!UFS_DIRECTORY,
     Stable!UFS_DIRECTORY, L!UFS_REGULAR_FILE, Stable!UFS_REGULAR_FILE, L!EINVALIDINODE,
     Stable!EINVALIDINODE
<1> QED BY <1>1, <1>2, <1>3

\* The changes of each call, as functions of what the call looks up.
CreatesStable(p, t, n, i, own, f, home) ==
  /\ stable[inode_bitmap_addr]' = stable[inode_bitmap_addr] \cup {i}
  /\ stable[data_bitmap_addr]' = stable[data_bitmap_addr] \cup {f[x] : x \in DOMAIN f}
  /\ InodesOf(stable)' = [InodesOf(stable) EXCEPT ![p] = Stable!Extended(p, f[own]),
                                                  ![i] = Stable!Created(i, t, f[0])]
  /\ DataOf(stable)' = [b \in Stable!DataBlock |->
       IF b = home THEN Stable!WithEntry(p, home, n, i)
       ELSE IF own = 1 /\ b = f[0] THEN Stable!NewDirBlock(i, p)
       ELSE DataOf(stable)[b]]

LEMMA CommitCreate ==
  ASSUME Sound(stable), call \in CreateCall, call.at = "commit",
         CreateFits(stable, call, View(image)), stable' = image,
         NEW p, NEW t, NEW n, p = call.inum, t = call.type, n = call.name
  PROVE  Stable!Create(p, t, n)
<1>1. PICK k : k = Im(stable)!CreateBlocks(p, t)
  OBVIOUS
<1>2. PICK f : f = TakenBlocks(call, k)
  OBVIOUS
<1>3. PICK home : home = Im(stable)!Extended(p, f[Own(call)]).direct[
                            Im(stable)!CreatePosition(p) \div UFS_BLOCK_SIZE]
  OBVIOUS
<1>4. CreateChecked(stable, call) /\ CreateTook(stable, call)
  BY DEF CreateFits
<1>5. f \in Im(stable)!LowestFree(k)
  BY <1>1, <1>2, <1>4, CreateTakes
<1>6. Im(stable)!CreateReturn(p, t, n) = call.new /\ call.new \in Nat
  BY <1>4, CreateAnswers
<1>7. View(image) = AfterCreate(stable, p, t, n, call.new, Own(call), f, home)
  BY <1>1, <1>2, <1>3, CreateCommits
<1>8. Stable!IsDirectory(p) /\ Stable!lookup(p, n) = -Stable!ENOTFOUND
  BY <1>4, StableReads DEF CreateChecked, Now!ENOTFOUND, Stable!ENOTFOUND
<1>9. Stable!CreateReturn(p, t, n) = call.new /\ call.new >= 0
  BY <1>6, StableCreates
<1>10. f \in Stable!LowestFree(Stable!CreateBlocks(p, t))
  BY <1>1, <1>5, StableCreates
<1>11. Own(call) = IF t = Stable!UFS_DIRECTORY THEN 1 ELSE 0
  BY StableConstants DEF Own
<1>12. home = Stable!Extended(p, f[Own(call)]).direct[Stable!CreatePosition(p) \div UFS_BLOCK_SIZE]
  BY <1>3, StableCreates, StableReads
<1>13. View(image) = AfterCreate(stable, p, t, n, Stable!CreateReturn(p, t, n),
          IF t = Stable!UFS_DIRECTORY THEN 1 ELSE 0, f,
          Stable!Extended(p, f[IF t = Stable!UFS_DIRECTORY THEN 1 ELSE 0]).direct[
            Stable!CreatePosition(p) \div UFS_BLOCK_SIZE])
  BY <1>7, <1>9, <1>11, <1>12
<1>14. PICK i, own, h :
         /\ i = Stable!CreateReturn(p, t, n)
         /\ own = IF t = Stable!UFS_DIRECTORY THEN 1 ELSE 0
         /\ h = Stable!Extended(p, f[own]).direct[Stable!CreatePosition(p) \div UFS_BLOCK_SIZE]
  OBVIOUS
<1>15. View(image) = AfterCreate(stable, p, t, n, i, own, f, h)
  BY <1>13, <1>14
<1>16. CreatesStable(p, t, n, i, own, f, h)
  <2>1. /\ stable'[inode_bitmap_addr] = stable[inode_bitmap_addr] \cup {i}
        /\ stable'[data_bitmap_addr] = stable[data_bitmap_addr] \cup {f[x] : x \in DOMAIN f}
        /\ InodesOf(stable') = [InodesOf(stable) EXCEPT ![p] = Im(stable)!Extended(p, f[own]),
                                                        ![i] = Im(stable)!Created(i, t, f[0])]
        /\ DataOf(stable') = [b \in Now!DataBlock |->
             IF b = h THEN Im(stable)!WithEntry(p, h, n, i)
             ELSE IF own = 1 /\ b = f[0] THEN Now!NewDirBlock(i, p)
             ELSE DataOf(stable)[b]]
    BY <1>15 DEF View, AfterCreate
  <2> QED BY <2>1, StableCreates, StableConstants DEF CreatesStable
<1>17. CreatesStable(p, t, n, Stable!CreateReturn(p, t, n),
          IF t = Stable!UFS_DIRECTORY THEN 1 ELSE 0, f,
          Stable!Extended(p, f[IF t = Stable!UFS_DIRECTORY THEN 1 ELSE 0]).direct[
            Stable!CreatePosition(p) \div UFS_BLOCK_SIZE])
  BY <1>14, <1>16
<1>18. Stable!CreateReturn(p, t, n) >= 0
  BY <1>9
<1> QED BY <1>8, <1>10, <1>17, <1>18, Zenon DEF Stable!Create, CreatesStable

WritesStable(i, v, n, f, q) ==
  /\ stable[data_bitmap_addr]' = (stable[data_bitmap_addr] \cup {f[x] : x \in DOMAIN f})
                                   \ Stable!WriteFrees(i, n)
  /\ InodesOf(stable)' = [InodesOf(stable) EXCEPT
       ![i] = [type |-> InodesOf(stable)[i].type, size |-> n, direct |-> q]]
  /\ DataOf(stable)' = [b \in Stable!DataBlock |->
       IF {x \in 0 .. Stable!Blocks(n) - 1 : q[x] = b} # {}
       THEN Stable!FileBlock(v, n, Stable!Max({x \in 0 .. Stable!Blocks(n) - 1 : q[x] = b}))
       ELSE DataOf(stable)[b]]

LEMMA CommitWrite ==
  ASSUME Sound(stable), call \in WriteCall, call.at = "commit",
         WriteFits(stable, call, View(image)), stable' = image,
         NEW i, NEW v, NEW n, i = call.inum, v = call.value, n = call.size
  PROVE  Stable!Write(i, v, n)
<1>1. PICK k : k = Now!Larger(0, Now!Blocks(n) - Now!Blocks(InodesOf(stable)[i].size))
  OBVIOUS
<1>2. PICK f : f = NewBlocks(call, Now!Blocks(InodesOf(stable)[i].size), k)
  OBVIOUS
<1>3. PICK q : q = Stable!Repointed(i, n, f)
  OBVIOUS
<1>4. WriteChecked(stable, call) /\ WriteTook(stable, call)
  BY DEF WriteFits
<1>5. f \in Im(stable)!LowestFree(k)
  BY <1>1, <1>2, <1>4, WriteTakes
<1>6. Stable!WriteReturn(i, n) > 0
  BY <1>4, WriteAnswers, StableCreates
<1>7. f \in Stable!LowestFree(Stable!Larger(0, Stable!Blocks(n)
                                   - Stable!Blocks(InodesOf(stable)[i].size)))
  BY <1>1, <1>5, StableCreates, StableConstants
<1>8. q = Im(stable)!Repointed(i, n, f)
  BY <1>3, StableCreates
<1>9. View(image) = AfterWrite(stable, call, f, q)
  BY <1>1, <1>2, <1>8, ViewIsView, WriteCommits
<1>10. /\ stable'[inode_bitmap_addr] = stable[inode_bitmap_addr]
       /\ stable'[data_bitmap_addr] = (stable[data_bitmap_addr] \cup {f[x] : x \in DOMAIN f})
                                        \ Im(stable)!WriteFrees(i, n)
       /\ InodesOf(stable') = [InodesOf(stable) EXCEPT
            ![i] = [type |-> InodesOf(stable)[i].type, size |-> n, direct |-> q]]
       /\ DataOf(stable') = [b \in Now!DataBlock |->
            IF {x \in 0 .. Now!Blocks(n) - 1 : q[x] = b} # {}
            THEN Now!FileBlock(v, n, Max({x \in 0 .. Now!Blocks(n) - 1 : q[x] = b}))
            ELSE DataOf(stable)[b]]
  BY <1>9 DEF View, AfterWrite
<1>11. WritesStable(i, v, n, f, q)
  <2>1. \A S : Stable!Max(S) = Max(S)
    BY DEF Stable!Max, Max
  <2> QED BY <1>10, <2>1, StableCreates, StableConstants DEF WritesStable
<1>12. WritesStable(i, v, n, f, Stable!Repointed(i, n, f))
  BY <1>3, <1>11
<1> QED BY <1>6, <1>7, <1>10, <1>12, Zenon DEF Stable!Write, WritesStable

UnlinksStable(p, e, t) ==
  /\ DataOf(stable)' = [b \in Stable!DataBlock |->
       IF {x \in 0 .. Stable!Blocks(InodesOf(stable)[p].size - 1) - 1 :
             InodesOf(stable)[p].direct[x] = b} # {}
       THEN Stable!CompactedBlock(p, e, Stable!Max(
              {x \in 0 .. Stable!Blocks(InodesOf(stable)[p].size - 1) - 1 :
                 InodesOf(stable)[p].direct[x] = b}))
       ELSE DataOf(stable)[b]]
  /\ InodesOf(stable)' = [InodesOf(stable) EXCEPT ![p] = Stable!Shortened(p)]
  /\ stable[data_bitmap_addr]' = stable[data_bitmap_addr] \ Stable!UnlinkFrees(p, t)
  /\ stable[inode_bitmap_addr]' = stable[inode_bitmap_addr] \ {t}

LEMMA CommitUnlink ==
  ASSUME Sound(stable), call \in UnlinkCall, call.at = "commit",
         UnlinkFits(stable, call, View(image)), stable' = image,
         NEW p, NEW n, p = call.inum, n = call.name
  PROVE  Stable!Unlink(p, n)
<1>1. PICK e, t : /\ e = Stable!Min(Stable!UnlinkHits(p, n))
                  /\ t = Stable!EntryAt(p, e).inum
  OBVIOUS
<1>2. PICK after, q : /\ after = Now!Blocks(InodesOf(stable)[p].size - 1)
                      /\ q = InodesOf(stable)[p].direct
  OBVIOUS
<1>3. /\ e = Min(Im(stable)!UnlinkHits(p, n))
      /\ t = Im(stable)!EntryAt(p, e).inum
  BY <1>1, StableUnlinks, StableReads, MinIsMin
<1>4. /\ Im(stable)!UnlinkReturn(p, n) = 0
      /\ call.new = t
      /\ View(image) = AfterUnlink(stable, call, e, after, q)
  BY <1>2, <1>3, ViewIsView, UnlinkCommits
<1>5. View(image) = AfterUnlink(stable, call, e, Now!Blocks(InodesOf(stable)[p].size - 1),
                                InodesOf(stable)[p].direct)
  BY <1>2, <1>4
<1>6. /\ stable'[inode_bitmap_addr] = stable[inode_bitmap_addr] \ {t}
      /\ stable'[data_bitmap_addr] = stable[data_bitmap_addr] \ Im(stable)!UnlinkFrees(p, t)
      /\ InodesOf(stable') = [InodesOf(stable) EXCEPT ![p] = Im(stable)!Shortened(p)]
      /\ DataOf(stable') = [b \in Now!DataBlock |->
           IF {x \in 0 .. Now!Blocks(InodesOf(stable)[p].size - 1) - 1 :
                 InodesOf(stable)[p].direct[x] = b} # {}
           THEN Im(stable)!CompactedBlock(p, e, Max(
                  {x \in 0 .. Now!Blocks(InodesOf(stable)[p].size - 1) - 1 :
                     InodesOf(stable)[p].direct[x] = b}))
           ELSE DataOf(stable)[b]]
  BY <1>4, <1>5 DEF View, AfterUnlink
<1>7. UnlinksStable(p, e, t)
  <2>1. \A S : Stable!Max(S) = Max(S)
    BY DEF Stable!Max, Max
  <2> QED BY <1>6, <2>1, StableUnlinks, StableConstants DEF UnlinksStable
<1>8. UnlinksStable(p, Stable!Min(Stable!UnlinkHits(p, n)),
                    Stable!EntryAt(p, Stable!Min(Stable!UnlinkHits(p, n))).inum)
  BY <1>1, <1>7
<1>9. Stable!UnlinkReturn(p, n) = 0
  BY <1>4, StableUnlinks
<1> QED BY <1>8, <1>9, Zenon DEF Stable!Unlink, UnlinksStable
-----------------------------------------------------------------------------
(* Commit is the step of LocalFileSystem.                                  *)

LEMMA CallsAreSteps ==
  ASSUME \/ \E p \in Now!Inode, t \in {Now!UFS_DIRECTORY, Now!UFS_REGULAR_FILE}, n \in Names :
              Stable!Create(p, t, n)
         \/ \E i \in Now!Inode, v \in Values, n \in Sizes : Stable!Write(i, v, n)
         \/ \E p \in Now!Inode, n \in Names \cup {LongName} : Stable!Unlink(p, n)
  PROVE  Stable!Next /\ L!Next
<1>1. /\ Now!Inode \subseteq Stable!InodeArg /\ Names \cup {LongName} \subseteq Stable!NameArg
      /\ Now!Inode \subseteq L!InodeArg /\ Names \cup {LongName} \subseteq L!NameArg
  <2>1. Now!Inode \subseteq -1 .. NumInodes
    BY SizesAssumption DEF Now!Inode
  <2>2. Names \cup {LongName} \subseteq Names \cup {".", "..", "", LongName}
    BY Zenon
  <2> QED BY <2>1, <2>2, Zenon DEF Stable!InodeArg, Stable!NameArg, L!InodeArg, L!NameArg
<1>2. CASE \E p \in Now!Inode, t \in {Now!UFS_DIRECTORY, Now!UFS_REGULAR_FILE}, n \in Names :
             Stable!Create(p, t, n)
  <2>1. PICK p \in Now!Inode, t \in {Now!UFS_DIRECTORY, Now!UFS_REGULAR_FILE}, n \in Names :
          Stable!Create(p, t, n)
    BY <1>2
  <2>2. L!Create(p, t, n)
    BY <2>1, StableCalls
  <2>3. Stable!Next
    BY <1>1, <2>1, StableConstants, Zenon DEF Stable!Next
  <2>4. L!Next
    BY <1>1, <2>1, <2>2, LConstants, Zenon DEF L!Next
  <2> QED BY <2>3, <2>4
<1>3. CASE \E i \in Now!Inode, v \in Values, n \in Sizes : Stable!Write(i, v, n)
  <2>1. PICK i \in Now!Inode, v \in Values, n \in Sizes : Stable!Write(i, v, n)
    BY <1>3
  <2>2. L!Write(i, v, n)
    BY <2>1, StableCalls
  <2>3. Stable!Next
    BY <1>1, <2>1, Zenon DEF Stable!Next
  <2>4. L!Next
    BY <1>1, <2>1, <2>2, Zenon DEF L!Next
  <2> QED BY <2>3, <2>4
<1>4. CASE \E p \in Now!Inode, n \in Names \cup {LongName} : Stable!Unlink(p, n)
  <2>1. PICK p \in Now!Inode, n \in Names \cup {LongName} : Stable!Unlink(p, n)
    BY <1>4
  <2>2. L!Unlink(p, n)
    BY <2>1, StableCalls
  <2>3. Stable!Next
    BY <1>1, <2>1, Zenon DEF Stable!Next
  <2>4. L!Next
    BY <1>1, <2>1, <2>2, Zenon DEF L!Next
  <2> QED BY <2>3, <2>4
<1> QED BY <1>2, <1>3, <1>4

LEMMA CommitStep == ASSUME SInv, Commit PROVE SInv' /\ Stable!Next /\ L!Next
<1>1. call.at = "commit" /\ D!Commit /\ call' = Idle
  BY DEF Commit, At
<1>2. Working /\ Shaped(image) /\ Sound(stable)
  BY <1>1, AtWork
<1>3. /\ image' = image /\ isInTransaction' = FALSE /\ iter' = 0
      /\ alive' = alive /\ atBegin' = atBegin
  BY <1>1, <1>2 DEF D!Commit, Working
<1>4. stable' = image
  BY <1>3 DEF stable, D!InFlight
<1>5. Stable!Next /\ L!Next
  <2>1. CASE call \in CreateCall /\ CreateFits(stable, call, View(image))
    <3>1. PICK p, t, n : p = call.inum /\ t = call.type /\ n = call.name
      OBVIOUS
    <3>2. /\ p \in Now!Inode /\ t \in {Now!UFS_DIRECTORY, Now!UFS_REGULAR_FILE} /\ n \in Names
      BY <2>1, <3>1 DEF CreateCall
    <3>3. Stable!Create(p, t, n)
      BY <1>1, <1>2, <1>4, <2>1, <3>1, CommitCreate
    <3> QED BY <3>2, <3>3, CallsAreSteps
  <2>2. CASE call \in WriteCall /\ WriteFits(stable, call, View(image))
    <3>1. PICK i, v, n : i = call.inum /\ v = call.value /\ n = call.size
      OBVIOUS
    <3>2. /\ i \in Now!Inode /\ v \in Values /\ n \in Sizes
      BY <2>2, <3>1 DEF WriteCall
    <3>3. Stable!Write(i, v, n)
      BY <1>1, <1>2, <1>4, <2>2, <3>1, CommitWrite
    <3> QED BY <3>2, <3>3, CallsAreSteps
  <2>3. CASE call \in UnlinkCall /\ UnlinkFits(stable, call, View(image))
    <3>1. PICK p, n : p = call.inum /\ n = call.name
      OBVIOUS
    <3>2. p \in Now!Inode /\ n \in Names \cup {LongName}
      BY <2>3, <3>1 DEF UnlinkCall
    <3>3. Stable!Unlink(p, n)
      BY <1>1, <1>2, <1>4, <2>3, <3>1, CommitUnlink
    <3> QED BY <3>2, <3>3, CallsAreSteps
  <2> QED BY <1>1, <1>2, <2>1, <2>2, <2>3 DEF Working, Fits
<1>6. DD!IInv'
  <2>1. DD!Next
    BY <1>1, DiskSteps DEF DD!Next, DD!Operation
  <2> QED BY <2>1, DeviceStep DEF SInv, Device
<1>7. L!IInv'
  BY <1>5, L!NextKeepsIInv, Assumptions DEF SInv, Device
<1>8. Device'
  BY <1>2, <1>3, <1>4, <1>6, <1>7 DEF SInv, Device
<1>9. Resting'
  BY <1>1, <1>3 DEF Resting, Idle
<1> QED BY <1>5, <1>8, <1>9 DEF SInv

\* No block write, and no walk of rollback(), changes what was committed.
LEMMA WritesKeepStable ==
  ASSUME SInv, call.at \notin {"idle", "rollback"},
         UNCHANGED diskVars \/ \E b, c : Put(b, c)
  PROVE  stable' = stable
<1>1. Working
  BY AtWork
<1>2. isInTransaction = TRUE
  BY <1>1 DEF Working, SInv, Device, DD!IInv, DD!TypeOK
<1>3. isInTransaction' = isInTransaction /\ atBegin' = atBegin
  <2>1. CASE UNCHANGED diskVars
    BY <2>1 DEF diskVars
  <2>2. CASE \E b, c : Put(b, c)
    BY <2>2 DEF Put, D!WriteBlock, D!ExitInvalidBlock, D!Exit
  <2> QED BY <2>1, <2>2
<1> QED BY <1>2, <1>3 DEF stable, D!InFlight
-----------------------------------------------------------------------------
(* An image of mkfs, before the first call.                                *)

LEMMA FirstPointersFit == FirstPointers \subseteq [Now!Index -> Now!Pointer]
<1>1. 0 \in Now!Pointer /\ Now!NullPtr \in Now!Pointer /\ Now!Unset \in Now!Pointer
  BY SizesAssumption DEF Now!Pointer, Now!DataBlock
<1> QED BY <1>1, GarbageAssumption DEF FirstPointers

LEMMA FirstInodeBlocks ==
  ASSUME Init, NEW b \in inode_region_addr .. data_region_addr - 1
  PROVE  image[b] \in InodeBlocks
<1>1. PICK inodes \in [Now!Inode -> [type : {Now!UFS_DIRECTORY}, size : {0, 2}, direct : FirstPointers]] :
        image = [x \in D!Block |->
          CASE x = SuperBlock -> None
            [] x \in {inode_bitmap_addr, data_bitmap_addr} -> {0}
            [] x \in inode_region_addr .. data_region_addr - 1 ->
                 [j \in 0 .. InodesPerBlock - 1 |->
                    LET i == (x - inode_region_addr) * InodesPerBlock + j
                    IN IF i \in Now!Inode THEN inodes[i] ELSE None]
            [] x = data_region_addr -> Now!NewDirBlock(Now!Root, Now!Root)
            [] OTHER -> Now!ZeroBlock]
  BY Zenon DEF Init
<1>2. b \in D!Block /\ b # SuperBlock /\ b \notin {inode_bitmap_addr, data_bitmap_addr}
  BY Layout DEF SuperBlock
<1>3. image[b] = [j \in 0 .. InodesPerBlock - 1 |->
                    IF (b - inode_region_addr) * InodesPerBlock + j \in Now!Inode
                    THEN inodes[(b - inode_region_addr) * InodesPerBlock + j] ELSE None]
  BY <1>1, <1>2
<1>4. [type : {Now!UFS_DIRECTORY}, size : {0, 2}, direct : FirstPointers] \subseteq Now!InodeRecord
  BY FirstPointersFit DEF Now!InodeRecord
<1>5. \A i \in Now!Inode : inodes[i] \in Now!InodeRecord
  BY <1>1, <1>4
<1> QED BY <1>3, <1>5 DEF InodeBlocks

LEMMA FirstImage ==
  ASSUME Init
  PROVE  /\ image \in [D!Block -> Content]
         /\ Shaped(image) /\ stable = image /\ L!IInv /\ L!TInv
<1>1. stable = image
  BY DEF Init, stable, D!InFlight
<1>2. L!Init
  <2>1. Now!Init
    BY DEF Init
  <2> QED BY <1>1, <2>1
     DEF Now!Init, L!Init, Now!Root, L!Root, Now!ZeroBlock, L!ZeroBlock, Now!NewDirBlock,
         L!NewDirBlock, Now!UnusedBlock, L!UnusedBlock, Now!Entry, L!Entry, Now!Inode, L!Inode,
         Now!DataBlock, L!DataBlock, Now!Index, L!Index, Now!Slot, L!Slot, Now!NullPtr, L!NullPtr,
         Now!Unset, L!Unset, Now!UFS_DIRECTORY, L!UFS_DIRECTORY
<1>3. L!IInv /\ L!TInv
  BY <1>2, L!InitGivesIInv, L!InitGivesTInv, Assumptions
<1>4. Typed(image)
  BY <1>1, <1>3, TypedFromL
<1>5. \A b \in inode_region_addr .. data_region_addr - 1 : image[b] \in InodeBlocks
  BY FirstInodeBlocks
<1>6. \A b \in Now!DataBlock : image[data_region_addr + b] \in DataBlocks
  BY <1>4 DEF Typed, DataOf, Now!DataBlock
<1>7. \A i \in Now!Inode : InodesOf(image)[i] \in Now!InodeRecord
  BY <1>4 DEF Typed
<1>8. image[inode_bitmap_addr] \subseteq Int /\ image[data_bitmap_addr] \subseteq Int
  BY <1>4, SizesAssumption DEF Typed, Now!Inode, Now!DataBlock
<1>9. image = [b \in D!Block |-> image[b]] /\ image[SuperBlock] = None
  <2>1. SuperBlock \in D!Block
    BY Layout, SizesAssumption DEF SuperBlock
  <2>2. \E inodes \in [Now!Inode -> [type : {Now!UFS_DIRECTORY}, size : {0, 2}, direct : FirstPointers]] :
          image = [b \in D!Block |->
            CASE b = SuperBlock -> None
              [] b \in {inode_bitmap_addr, data_bitmap_addr} -> {0}
              [] b \in inode_region_addr .. data_region_addr - 1 ->
                   [j \in 0 .. InodesPerBlock - 1 |->
                      LET i == (b - inode_region_addr) * InodesPerBlock + j
                      IN IF i \in Now!Inode THEN inodes[i] ELSE None]
              [] b = data_region_addr -> Now!NewDirBlock(Now!Root, Now!Root)
              [] OTHER -> Now!ZeroBlock]
    BY Zenon DEF Init
  <2>3. SuperBlock \notin {inode_bitmap_addr, data_bitmap_addr}
        /\ SuperBlock \notin inode_region_addr .. data_region_addr - 1 /\ SuperBlock # data_region_addr
    BY Layout DEF SuperBlock
  <2> QED BY <2>1, <2>2, <2>3
<1>10. ASSUME NEW b \in D!Block PROVE image[b] \in Content
  <2>1. CASE b = SuperBlock
    BY <1>9, <2>1 DEF Content
  <2>2. CASE b \in {inode_bitmap_addr, data_bitmap_addr}
    BY <1>8, <2>2 DEF Content
  <2>3. CASE b \in inode_region_addr .. data_region_addr - 1
    BY <1>5, <2>3 DEF Content
  <2>4. CASE b >= data_region_addr
    <3>1. b - data_region_addr \in Now!DataBlock
      BY <2>4, Layout, SizesAssumption DEF Now!DataBlock
    <3>2. data_region_addr + (b - data_region_addr) = b
      BY Layout
    <3> QED BY <1>6, <3>1, <3>2 DEF Content
  <2> QED BY <2>1, <2>2, <2>3, <2>4, Layout DEF SuperBlock
<1>11. image \in [D!Block -> Content]
  BY <1>9, <1>10
<1> QED BY <1>1, <1>3, <1>5, <1>6, <1>7, <1>8, <1>11 DEF Shaped

LEMMA InitRests == Init => SInv /\ Stable!Init
<1> SUFFICES ASSUME Init PROVE SInv /\ Stable!Init
  OBVIOUS
<1>1. image \in [D!Block -> Content] /\ Shaped(image) /\ stable = image /\ L!IInv
  BY FirstImage
<1>2. DD!Init
  BY <1>1, Layout DEF Init, DD!Init
<1>3. DD!IInv
  BY <1>2, DD!InitEstablishes, DiskAssumed
<1>4. SInv
  BY <1>1, <1>3 DEF SInv, Device, Resting, Init, Idle
<1>5. Stable!Init
  <2>1. Now!Init
    BY DEF Init
  <2> QED BY <1>1, <2>1
     DEF Now!Init, Stable!Init, Now!Root, Stable!Root, Now!ZeroBlock, Stable!ZeroBlock,
         Now!NewDirBlock, Stable!NewDirBlock, Now!UnusedBlock, Stable!UnusedBlock, Now!Entry,
         Stable!Entry, Now!Inode, Stable!Inode, Now!DataBlock, Stable!DataBlock, Now!Index,
         Stable!Index, Now!Slot, Stable!Slot, Now!NullPtr, Stable!NullPtr, Now!Unset,
         Stable!Unset, Now!UFS_DIRECTORY, Stable!UFS_DIRECTORY
<1> QED BY <1>4, <1>5
-----------------------------------------------------------------------------
(* All steps together.                                                     *)

LEMMA WriteSteps ==
  ASSUME SInv,
         \/ CreateBlock \/ CreateInum \/ CreateDots \/ CreateEntry \/ CreateGrow \/ CreateParent
         \/ CreateInit
         \/ WriteAlloc \/ WriteFree \/ WriteInode \/ WriteData
         \/ UnlinkFind \/ UnlinkCompact \/ UnlinkShrink \/ UnlinkParent \/ UnlinkBlocks
         \/ UnlinkInode
  PROVE  /\ SInv' /\ stable' = stable
         /\ call.at \notin {"idle", "rollback"}
         /\ UNCHANGED diskVars \/ \E b, c : Put(b, c)
<1>1. SInv'
  BY CreateBlockStep, CreateInumStep, CreateDotsStep, CreateEntryStep, CreateGrowStep,
     CreateParentStep, CreateInitStep, WriteAllocStep, WriteFreeStep, WriteInodeStep,
     WriteDataStep, UnlinkFindStep, UnlinkCompactStep, UnlinkShrinkStep, UnlinkParentStep,
     UnlinkBlocksStep, UnlinkInodeStep
<1>2. call.at \notin {"idle", "rollback"}
  BY DEF CreateBlock, CreateInum, CreateDots, CreateEntry, CreateGrow, CreateParent, CreateInit,
     WriteAlloc, WriteFree, WriteInode, WriteData, UnlinkFind, UnlinkCompact, UnlinkShrink,
     UnlinkParent, UnlinkBlocks, UnlinkInode, At
<1>3. \A addr, bits, next : TakeBit(addr, bits, next) => UNCHANGED diskVars \/ \E b, c : Put(b, c)
  BY Zenon DEF TakeBit
<1>4. UNCHANGED diskVars \/ \E b, c : Put(b, c)
  <2>1. CASE CreateBlock \/ CreateInum
    BY <1>3, <2>1, Zenon DEF CreateBlock, CreateInum
  <2>2. CASE CreateEntry
    BY <1>3, <2>2, Zenon DEF CreateEntry
  <2>3. CASE CreateDots \/ CreateGrow \/ CreateParent \/ CreateInit
    BY <2>3, Zenon DEF CreateDots, CreateGrow, CreateParent, CreateInit
  <2>4. CASE WriteAlloc \/ WriteFree \/ WriteInode \/ WriteData
    BY <1>3, <2>4, Zenon DEF WriteAlloc, WriteFree, WriteInode, WriteData, ClearBit
  <2>5. CASE UnlinkFind \/ UnlinkCompact
    BY <2>5, Zenon DEF UnlinkFind, UnlinkCompact
  <2>6. CASE UnlinkShrink \/ UnlinkParent \/ UnlinkBlocks \/ UnlinkInode
    BY <2>6, Zenon DEF UnlinkShrink, UnlinkParent, UnlinkBlocks, UnlinkInode, ClearBit
  <2> QED BY <2>1, <2>2, <2>3, <2>4, <2>5, <2>6
<1> QED BY <1>1, <1>2, <1>4, WritesKeepStable

LEMMA StartStep == ASSUME SInv, Start PROVE SInv' /\ stable' = stable
  BY StartCreateStep, StartWriteStep, StartUnlinkStep, Zenon DEF Start

LEMMA StableStutters == ASSUME stable' = stable PROVE UNCHANGED Stable!vars
  BY DEF Stable!vars

LEMMA StepsRefine == SInv /\ [Next]_vars => SInv' /\ [Stable!Next]_(Stable!vars)
<1> SUFFICES ASSUME SInv, [Next]_vars PROVE SInv' /\ [Stable!Next]_(Stable!vars)
  OBVIOUS
<1>1. CASE Start
  BY <1>1, StartStep, StableStutters
<1>2. CASE \/ CreateBlock \/ CreateInum \/ CreateDots \/ CreateEntry \/ CreateGrow
           \/ CreateParent \/ CreateInit
           \/ WriteAlloc \/ WriteFree \/ WriteInode \/ WriteData
           \/ UnlinkFind \/ UnlinkCompact \/ UnlinkShrink \/ UnlinkParent \/ UnlinkBlocks
           \/ UnlinkInode
  BY <1>2, WriteSteps, StableStutters
<1>3. CASE Commit
  BY <1>3, CommitStep
<1>4. CASE Fail \/ Undo \/ Return
  BY <1>4, FailStep, UndoStep, ReturnStep, StableStutters
<1>5. CASE UNCHANGED vars
  <2>1. UNCHANGED diskVars /\ call' = call
    BY <1>5 DEF vars
  <2>2. Device' /\ stable' = stable /\ UNCHANGED <<image, isInTransaction, iter>>
    BY <2>1, DeviceStays
  <2>3. (Resting \/ Working \/ Undoing)'
    BY <2>1, <2>2 DEF SInv, Resting, Working, Undoing, Calling
  <2> QED BY <2>2, <2>3, StableStutters DEF SInv
<1> QED BY <1>1, <1>2, <1>3, <1>4, <1>5 DEF Next

\* As long as a call has not failed, the image is that of the last commit with
\* exactly the block writes in it that come before the place of the call in the
\* code; when it has failed, the undo log leads back to that of the last commit.
THEOREM StepsInvariant == Spec => []SInv
<1>1. Init => SInv
  BY InitRests
<1>2. SInv /\ [Next]_vars => SInv'
  BY StepsRefine
<1> QED BY <1>1, <1>2, PTL DEF Spec

\* The Disk never ends the process: every transaction a call opens is closed by
\* commit() or rollback() before the next call begins, and every block number
\* create, write and unlink pass to writeBlock is one of the disk.
THEOREM CallsStayOnTheDisk == Spec => []DiskAcceptsAllCalls
<1>1. SInv => DiskAcceptsAllCalls
  BY DEF SInv, Device, DiskAcceptsAllCalls
<1> QED BY <1>1, StepsInvariant, PTL

\* The calls made of single block writes implement the calls of one step: what
\* commit() leaves is what LocalFileSystem says of create, write or unlink, and
\* a call that fails after some of its writes leaves what was there.
THEOREM StepsImplementCalls == Spec => ImplementsLocalFileSystem
<1>1. Init => SInv /\ Stable!Init
  BY InitRests
<1>2. SInv /\ [Next]_vars => SInv' /\ [Stable!Next]_(Stable!vars)
  BY StepsRefine
<1> QED BY <1>1, <1>2, PTL DEF Spec, ImplementsLocalFileSystem, Stable!Spec
=============================================================================
