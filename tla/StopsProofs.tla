---------------------------- MODULE StopsProofs -----------------------------
(***************************************************************************)
(* The proof of StopsHurtNobodyElse: what a process that stops in the      *)
(* middle of a call of LocalFileSystemSteps leaves, for all images.        *)
(*                                                                         *)
(* Fits of StepsProofs says what the image is at each place of a call, but *)
(* not what rollback() makes of it on its way back, which depends on where *)
(* the call was. So the argument is about a property of single images:     *)
(* Keeps(stable, call, disk), the image disk has all that the call is not  *)
(* about. The order of the module:                                         *)
(*   - Keeps, and why it says that nobody else is hurt, of a committed     *)
(*     image that is Tidy (which L!TInv says);                             *)
(*   - that each image which Fits a place of create, write or unlink keeps *)
(*     what it must;                                                       *)
(*   - that an image a call keeps is still kept at a later place of it;    *)
(*   - Trail: the undo log leads back over images that were there before,  *)
(*     so rollback() shows no other (StopInv).                             *)
(***************************************************************************)
EXTENDS StepsProofs
-----------------------------------------------------------------------------
(* What a call that stops leaves: StopsHurtNobodyElse.                     *)

\* Some entry of p that lookup looks at leads from the name n to inode i.
Leads(disk, p, n, i) ==
  \E k \in Im(disk)!Positions(p) :
    i # -1 /\ Im(disk)!EntryAt(p, k).inum = i /\ Im(disk)!EntryAt(p, k).name = n

\* The bits of the blocks of an inode are set.
BlocksInUse(disk, i) ==
  \A x \in 0 .. Now!Blocks(InodesOf(disk)[i].size) - 1 :
    InodesOf(disk)[i].direct[x] \in disk[data_bitmap_addr]

\* An inode, its blocks and their bits are as they were.
Untouched(old, disk, i) ==
  /\ InodesOf(disk)[i] = InodesOf(old)[i]
  /\ BlocksInUse(disk, i)
  /\ \A x \in 0 .. Now!Blocks(InodesOf(old)[i].size) - 1 :
       DataOf(disk)[InodesOf(old)[i].direct[x]] = DataOf(old)[InodesOf(old)[i].direct[x]]

\* The inode a call is about to free.
Target(c) == IF c.op = "unlink" THEN {c.new} ELSE {}

\* What is known of a call wherever it is, and when it has failed.
Known(old, c) ==
  \/ c \in CreateCall /\ Im(old)!IsDirectory(c.inum)
  \/ c \in WriteCall /\ Im(old)!IsFile(c.inum)
  \/ /\ c \in UnlinkCall
     /\ Im(old)!IsDirectory(c.inum)
     /\ c.new # None =>
          /\ Im(old)!UnlinkReturn(c.inum, c.name) = 0
          /\ c.new = Im(old)!EntryAt(c.inum, Min(Im(old)!UnlinkHits(c.inum, c.name))).inum

\* An image that a call may leave to those that come after it. It says nothing
\* of how far the call has come, so that it holds of each image of a rollback().
Keeps(old, c, disk) ==
  /\ Known(old, c)
  /\ old[inode_bitmap_addr] \ Target(c) \subseteq disk[inode_bitmap_addr]
  /\ \A i \in old[inode_bitmap_addr] \ (Target(c) \cup {c.inum}) : Untouched(old, disk, i)
  /\ c.op # "write" =>
       /\ InodesOf(disk)[c.inum].type = Now!UFS_DIRECTORY
       /\ \A n \in Names \ {c.name} :
            \A i : Leads(disk, c.inum, n, i) <=> Leads(old, c.inum, n, i)
       /\ \A i : Leads(disk, c.inum, c.name, i) =>
            /\ i \in Now!Inode \cap disk[inode_bitmap_addr]
            /\ i \in old[inode_bitmap_addr] \ {c.inum} => BlocksInUse(disk, i)

\* What L!TInv says of the directories of the committed image.
Tidy(disk) ==
  /\ \A p : Im(disk)!IsDirectory(p) =>
       /\ p \in disk[inode_bitmap_addr] /\ InodesOf(disk)[p].size \in Nat
       /\ \A k \in Nat : k < InodesOf(disk)[p].size => k \in Im(disk)!Positions(p)
       /\ \A k \in Im(disk)!Positions(p) :
            /\ k \in Nat
            /\ k < InodesOf(disk)[p].size => Im(disk)!EntryAt(p, k).inum \in disk[inode_bitmap_addr]
            /\ ~(k < InodesOf(disk)[p].size) => Im(disk)!EntryAt(p, k).inum = -1
            /\ Im(disk)!EntryAt(p, k).name \notin {".", ".."} => k >= 2
       /\ \A j, k \in Nat :
            /\ j < InodesOf(disk)[p].size /\ k < InodesOf(disk)[p].size
            /\ Im(disk)!EntryAt(p, j).name = Im(disk)!EntryAt(p, k).name
            => j = k
  /\ \A p, q, j, k :
       /\ Im(disk)!IsDirectory(p) /\ j \in Nat /\ j >= 2 /\ j < InodesOf(disk)[p].size
       /\ Im(disk)!IsDirectory(q) /\ k \in Nat /\ k >= 2 /\ k < InodesOf(disk)[q].size
       /\ Im(disk)!EntryAt(p, j).inum = Im(disk)!EntryAt(q, k).inum
       => p = q /\ j = k

LEMMA LookupLeads ==
  ASSUME NEW disk, NEW p, NEW n, Im(disk)!IsDirectory(p)
  PROVE  /\ \A i : i = Im(disk)!lookup(p, n) /\ i >= 0 => Leads(disk, p, n, i)
         /\ \A i : /\ Leads(disk, p, n, i)
                   /\ \A j : Leads(disk, p, n, j) => j = i
                   => Im(disk)!lookup(p, n) = i
         /\ (\A i : ~Leads(disk, p, n, i)) => Im(disk)!lookup(p, n) = -Now!ENOTFOUND
<1> DEFINE hits == {k \in Im(disk)!Positions(p) :
                      Im(disk)!EntryAt(p, k).inum # -1 /\ Im(disk)!EntryAt(p, k).name = n}
<1>1. Im(disk)!lookup(p, n) =
        IF hits = {} THEN -Now!ENOTFOUND ELSE Im(disk)!EntryAt(p, Min(hits)).inum
  <2>1. Im(disk)!lookup(p, n) =
          IF hits = {} THEN -Im(disk)!ENOTFOUND ELSE Im(disk)!EntryAt(p, Im(disk)!Min(hits)).inum
    BY DEF Im!lookup
  <2>2. Im(disk)!ENOTFOUND = Now!ENOTFOUND
    BY DEF Im!ENOTFOUND, Now!ENOTFOUND
  <2>3. Im(disk)!Min(hits) = Min(hits)
    BY MinIs
  <2> QED BY <2>1, <2>2, <2>3
<1>2. hits \subseteq Nat
  BY DEF Im!Positions
<1>3. \A i : Leads(disk, p, n, i) <=> \E k \in hits : Im(disk)!EntryAt(p, k).inum = i
  BY DEF Leads
<1> HIDE DEF hits
<1>4. hits # {} => Min(hits) \in hits
  BY <1>2, MinOfNaturals
<1>5. ASSUME hits # {} PROVE Leads(disk, p, n, Im(disk)!lookup(p, n))
  BY <1>1, <1>3, <1>4, <1>5
<1>6. ASSUME NEW i, i = Im(disk)!lookup(p, n), i >= 0 PROVE Leads(disk, p, n, i)
  <2>1. hits # {}
    BY <1>1, <1>6 DEF Now!ENOTFOUND
  <2> QED BY <1>5, <1>6, <2>1
<1>7. (\A i : ~Leads(disk, p, n, i)) => Im(disk)!lookup(p, n) = -Now!ENOTFOUND
  BY <1>1, <1>5
<1>8. ASSUME NEW i, Leads(disk, p, n, i), \A j : Leads(disk, p, n, j) => j = i
      PROVE  Im(disk)!lookup(p, n) = i
  <2>1. hits # {}
    BY <1>3, <1>8
  <2> QED BY <1>5, <1>8, <2>1
<1> QED BY <1>6, <1>7, <1>8

LEMMA TidyFromL == L!TInv => Tidy(stable)
<1> SUFFICES ASSUME L!TInv PROVE Tidy(stable)
  OBVIOUS
<1>1. ASSUME NEW p, Im(stable)!IsDirectory(p)
      PROVE  /\ p \in L!Directories
             /\ p \in Now!Inode
             /\ p \in stable[inode_bitmap_addr] /\ InodesOf(stable)[p].size \in Nat
             /\ \A k : k \in L!Used(p) <=> k \in Nat /\ k < InodesOf(stable)[p].size
             /\ L!Used(p) \subseteq Im(stable)!Positions(p)
             /\ \A k \in L!Used(p) : Im(stable)!EntryAt(p, k).inum \in stable[inode_bitmap_addr]
             /\ \A k \in Im(stable)!Positions(p) \ L!Used(p) : Im(stable)!EntryAt(p, k).inum = -1
             /\ \A j, k \in L!Used(p) :
                  Im(stable)!EntryAt(p, j).name = Im(stable)!EntryAt(p, k).name => j = k
             /\ Im(stable)!EntryAt(p, 0).name = "." /\ Im(stable)!EntryAt(p, 1).name = ".."
  <2>1. L!IsDirectory(p)
    BY <1>1, LReads
  <2>2. p \in L!Directories
    BY <2>1 DEF L!Directories, L!IsDirectory, L!Allocated
  <2>3. p \in Now!Inode
    BY <2>1, LConstants DEF L!IsDirectory, L!Allocated
  <2>4. L!EntryAt(p, 0).name = "."
    <3>1. L!EntryAt(p, 0) = L!Entry(".", p)
      BY <2>2, L!DenseDirectory, Assumptions
    <3> QED BY <3>1 DEF L!Entry
  <2>5. /\ p \in stable[inode_bitmap_addr] /\ InodesOf(stable)[p].size \in Nat
        /\ \A k : k \in L!Used(p) <=> k \in Nat /\ k < InodesOf(stable)[p].size
        /\ L!Used(p) \subseteq L!Positions(p)
        /\ L!EntryAt(p, 1).name = ".."
        /\ \A k \in L!Used(p) : L!EntryAt(p, k).inum \in stable[inode_bitmap_addr]
        /\ \A k \in L!Positions(p) \ L!Used(p) : L!EntryAt(p, k).inum = -1
        /\ \A j, k \in L!Used(p) : L!EntryAt(p, j).name = L!EntryAt(p, k).name => j = k
    BY <2>2, L!DenseDirectory, Assumptions
  <2> QED BY <2>2, <2>3, <2>4, <2>5, LReads
<1>2. ASSUME NEW p, Im(stable)!IsDirectory(p)
      PROVE  /\ p \in stable[inode_bitmap_addr] /\ InodesOf(stable)[p].size \in Nat
             /\ \A k \in Nat : k < InodesOf(stable)[p].size => k \in Im(stable)!Positions(p)
             /\ \A k \in Im(stable)!Positions(p) :
                  /\ k \in Nat
                  /\ k < InodesOf(stable)[p].size =>
                       Im(stable)!EntryAt(p, k).inum \in stable[inode_bitmap_addr]
                  /\ ~(k < InodesOf(stable)[p].size) => Im(stable)!EntryAt(p, k).inum = -1
                  /\ Im(stable)!EntryAt(p, k).name \notin {".", ".."} => k >= 2
             /\ \A j, k \in Nat :
                  /\ j < InodesOf(stable)[p].size /\ k < InodesOf(stable)[p].size
                  /\ Im(stable)!EntryAt(p, j).name = Im(stable)!EntryAt(p, k).name
                  => j = k
  <2>1. \A k \in Im(stable)!Positions(p) : k \in Nat
    BY DEF Im!Positions
  <2>2. \A k \in Nat : k = 0 \/ k = 1 \/ k >= 2
    OBVIOUS
  <2> QED BY <1>1, <1>2, <2>1, <2>2
<1>3. ASSUME NEW p, NEW q, NEW j, NEW k,
             Im(stable)!IsDirectory(p), j \in Nat, j >= 2, j < InodesOf(stable)[p].size,
             Im(stable)!IsDirectory(q), k \in Nat, k >= 2, k < InodesOf(stable)[q].size,
             Im(stable)!EntryAt(p, j).inum = Im(stable)!EntryAt(q, k).inum
      PROVE  p = q /\ j = k
  <2>1. PICK i : i = Im(stable)!EntryAt(p, j).inum
    OBVIOUS
  <2>2. L!Named(p, j, i) /\ L!Named(q, k, i)
    BY <1>1, <1>3, <2>1, LReads DEF L!Named
  <2>3. p \in L!Inode /\ q \in L!Inode /\ i \in L!Inode
    <3>1. i \in stable[inode_bitmap_addr]
      BY <1>1, <1>3, <2>1
    <3>2. L!IInv
      BY DEF L!TInv
    <3> QED BY <1>1, <1>3, <3>1, <3>2, TypedFromL, LConstants DEF Typed
  <2>4. L!NamedOnce
    BY DEF L!TInv
  <2> QED BY <1>3, <2>2, <2>3, <2>4 DEF L!NamedOnce
<1> QED BY <1>2, <1>3 DEF Tidy

LEMMA OneLead ==
  ASSUME NEW disk, Tidy(disk), NEW p, Im(disk)!IsDirectory(p), NEW n,
         NEW i, Leads(disk, p, n, i)
  PROVE  /\ i \in disk[inode_bitmap_addr]
         /\ \A j : Leads(disk, p, n, j) => j = i
         /\ \E k \in Nat : /\ k < InodesOf(disk)[p].size
                           /\ Im(disk)!EntryAt(p, k).inum = i /\ Im(disk)!EntryAt(p, k).name = n
                           /\ n \notin {".", ".."} => k >= 2
<1>1. ASSUME NEW j, Leads(disk, p, n, j)
      PROVE  \E k \in Nat : /\ k < InodesOf(disk)[p].size
                            /\ Im(disk)!EntryAt(p, k).inum = j /\ Im(disk)!EntryAt(p, k).name = n
                            /\ n \notin {".", ".."} => k >= 2
  BY <1>1 DEF Leads, Tidy
<1>2. PICK k \in Nat : /\ k < InodesOf(disk)[p].size
                       /\ Im(disk)!EntryAt(p, k).inum = i /\ Im(disk)!EntryAt(p, k).name = n
                       /\ n \notin {".", ".."} => k >= 2
  BY <1>1
<1>3. ASSUME NEW j, Leads(disk, p, n, j) PROVE j = i
  <2>1. PICK l \in Nat : /\ l < InodesOf(disk)[p].size
                         /\ Im(disk)!EntryAt(p, l).inum = j /\ Im(disk)!EntryAt(p, l).name = n
    BY <1>1, <1>3
  <2>2. l = k
    BY <1>2, <2>1 DEF Tidy
  <2> QED BY <1>2, <2>1, <2>2
<1>4. i \in disk[inode_bitmap_addr]
  BY <1>2 DEF Tidy
<1> QED BY <1>2, <1>3, <1>4

LEMMA SameLookup ==
  ASSUME NEW old, Tidy(old), NEW disk, NEW p, NEW n,
         Im(old)!IsDirectory(p), Im(disk)!IsDirectory(p),
         \A i : Leads(disk, p, n, i) <=> Leads(old, p, n, i)
  PROVE  Im(disk)!lookup(p, n) = Im(old)!lookup(p, n)
<1>1. CASE \A i : ~Leads(old, p, n, i)
  BY <1>1, LookupLeads
<1>2. CASE \E i : Leads(old, p, n, i)
  <2>1. PICK i : Leads(old, p, n, i)
    BY <1>2
  <2>2. \A j : Leads(old, p, n, j) => j = i
    BY <2>1, OneLead
  <2>3. Im(old)!lookup(p, n) = i
    BY <2>1, <2>2, LookupLeads
  <2>4. Leads(disk, p, n, i) /\ \A j : Leads(disk, p, n, j) => j = i
    BY <2>1, <2>2
  <2>5. Im(disk)!lookup(p, n) = i
    BY <2>4, LookupLeads
  <2> QED BY <2>3, <2>5
<1> QED BY <1>1, <1>2

LEMMA SizeIsNat ==
  ASSUME NEW disk, Typed(disk), NEW i \in disk[inode_bitmap_addr]
  PROVE  /\ i \in Now!Inode
         /\ InodesOf(disk)[i].size \in Nat
         /\ Now!Blocks(InodesOf(disk)[i].size) \in Nat
<1>1. i \in Now!Inode /\ InodesOf(disk)[i].size \in Nat
  BY DEF Typed, Now!InodeRecord
<1> QED BY <1>1, BlocksBound

LEMMA PositionInBlock ==
  ASSUME NEW q \in Nat, NEW k \in 0 .. q * UFS_BLOCK_SIZE - 1
  PROVE  k \in Nat /\ k \div UFS_BLOCK_SIZE \in 0 .. q - 1 /\ k % UFS_BLOCK_SIZE \in Now!Slot
<1>0. UFS_BLOCK_SIZE \in Nat \ {0} /\ q * UFS_BLOCK_SIZE \in Nat
  BY SizesAssumption
<1>1. k \in Nat /\ k < q * UFS_BLOCK_SIZE
  BY <1>0
<1>2. k \div UFS_BLOCK_SIZE < q
  BY <1>0, <1>1, Assumptions, L!DivBelow
<1>3. k \div UFS_BLOCK_SIZE \in Nat /\ k % UFS_BLOCK_SIZE \in 0 .. UFS_BLOCK_SIZE - 1
  BY <1>0, <1>1, Assumptions, L!Division
<1> QED BY <1>1, <1>2, <1>3 DEF Now!Slot

\* What a directory that is left alone shows.
LEMMA UntouchedLeads ==
  ASSUME NEW old, Typed(old), NEW disk, NEW p \in old[inode_bitmap_addr], Untouched(old, disk, p)
  PROVE  \A n, i : Leads(disk, p, n, i) <=> Leads(old, p, n, i)
<1>1. PICK q \in Nat : q = Now!Blocks(InodesOf(old)[p].size)
  BY SizeIsNat
<1>2. /\ Im(old)!Positions(p) = 0 .. q * UFS_BLOCK_SIZE - 1
      /\ Im(disk)!Positions(p) = 0 .. q * UFS_BLOCK_SIZE - 1
  BY <1>1, ImConstants DEF Im!Positions, Untouched
<1>3. ASSUME NEW k \in 0 .. q * UFS_BLOCK_SIZE - 1
      PROVE  Im(disk)!EntryAt(p, k) = Im(old)!EntryAt(p, k)
  <2>1. k \div UFS_BLOCK_SIZE \in 0 .. q - 1
    BY PositionInBlock
  <2>2. DataOf(disk)[InodesOf(old)[p].direct[k \div UFS_BLOCK_SIZE]]
          = DataOf(old)[InodesOf(old)[p].direct[k \div UFS_BLOCK_SIZE]]
    BY <1>1, <2>1 DEF Untouched
  <2> QED BY <2>2 DEF Im!EntryAt, Untouched
<1> QED BY <1>2, <1>3 DEF Leads

\* A file that is left alone is read as before.
LEMMA UntouchedReads ==
  ASSUME L!IInv, NEW disk, NEW i \in stable[inode_bitmap_addr], Untouched(stable, disk, i),
         NEW n, n = InodesOf(stable)[i].size, n > 0
  PROVE  Im(disk)!ReadCells(i, n) = Im(stable)!ReadCells(i, n)
<1>1. Typed(stable)
  BY TypedFromL
<1>2. n \in Nat /\ i \in Now!Inode
  BY <1>1, SizeIsNat
<1>3. PICK q \in Nat : q = Now!Blocks(n)
  BY <1>2, BlocksBound
<1>4. Im(disk)!Smaller(n, n) = n /\ Im(stable)!Smaller(n, n) = n
  BY DEF Im!Smaller
<1>5. /\ Im(disk)!ReadVisits(i, n) = L!ReadVisits(i, n)
      /\ Im(stable)!ReadVisits(i, n) = L!ReadVisits(i, n)
  <2>1. InodesOf(disk)[i] = InodesOf(stable)[i]
    BY DEF Untouched
  <2> QED BY <2>1 DEF Im!ReadVisits, L!ReadVisits, Im!Index, L!Index, Im!NullPtr, L!NullPtr,
        Im!Larger, L!Larger, Im!Blocks, L!Blocks, Im!Cardinality, L!Cardinality
<1>6. ASSUME NEW d, d \in {disk, stable}
      PROVE  Im(d)!ReadCells(i, n) = [k \in 0 .. n - 1 |->
               DataOf(d)[InodesOf(stable)[i].direct[L!NthVisit(i, n, k \div UFS_BLOCK_SIZE)]]
                        [k % UFS_BLOCK_SIZE]]
  <2> DEFINE R(m, r, V) == [k \in 0 .. m - 1 |->
               DataOf(d)[r.direct[CHOOSE x \in V : Im(d)!Cardinality({y \in V : y < x}) = k \div UFS_BLOCK_SIZE]]
                        [k % UFS_BLOCK_SIZE]]
  <2>1. Im(d)!ReadCells(i, n) =
          R(Im(d)!Smaller(n, InodesOf(d)[i].size), InodesOf(d)[i],
            Im(d)!ReadVisits(i, Im(d)!Smaller(n, InodesOf(d)[i].size)))
    BY Zenon DEF Im!ReadCells
  <2>2. InodesOf(d)[i] = InodesOf(stable)[i] /\ Im(d)!Smaller(n, InodesOf(d)[i].size) = n
    BY <1>4, <1>6 DEF Untouched
  <2>3. Im(d)!ReadVisits(i, n) = L!ReadVisits(i, n)
    BY <1>5, <1>6
  <2>4. Im(d)!ReadCells(i, n) = R(n, InodesOf(stable)[i], L!ReadVisits(i, n))
    <3> HIDE DEF R
    <3> QED BY <2>1, <2>2, <2>3
  <2>5. \A S : Im(d)!Cardinality(S) = L!Cardinality(S)
    BY DEF Im!Cardinality, L!Cardinality
  <2>6. ASSUME NEW k \in 0 .. n - 1
        PROVE  (CHOOSE x \in L!ReadVisits(i, n) :
                  Im(d)!Cardinality({y \in L!ReadVisits(i, n) : y < x}) = k \div UFS_BLOCK_SIZE)
               = L!NthVisit(i, n, k \div UFS_BLOCK_SIZE)
    BY <2>5 DEF L!NthVisit
  <2> QED BY <2>4, <2>6
<1>7. ASSUME NEW k \in 0 .. n - 1
      PROVE  DataOf(disk)[InodesOf(stable)[i].direct[L!NthVisit(i, n, k \div UFS_BLOCK_SIZE)]]
               = DataOf(stable)[InodesOf(stable)[i].direct[L!NthVisit(i, n, k \div UFS_BLOCK_SIZE)]]
  <2>1. n <= q * UFS_BLOCK_SIZE /\ q * UFS_BLOCK_SIZE \in Nat
    BY <1>2, <1>3, BlocksBound, SizesAssumption
  <2>2. k \in 0 .. q * UFS_BLOCK_SIZE - 1
    BY <1>2, <2>1
  <2>3. k \div UFS_BLOCK_SIZE \in 0 .. q - 1
    BY <2>2, PositionInBlock
  <2>4. L!NthVisit(i, n, k \div UFS_BLOCK_SIZE) = k \div UFS_BLOCK_SIZE
    <3>1. k \div UFS_BLOCK_SIZE \in 0 .. L!Blocks(n) - 1
      BY <1>3, <2>3, LConstants
    <3> QED BY <1>2, <3>1, L!VisitsInOrder, Assumptions
  <2> QED BY <1>3, <2>3, <2>4 DEF Untouched
<1> QED BY <1>6, <1>7

\* The entry unlink takes out is the only one with its name, and the only one
\* that leads to its inode.
LEMMA FoundEntry ==
  ASSUME NEW old, Sound(old), Tidy(old), NEW p \in Now!Inode, NEW n \in Names \cup {LongName},
         Im(old)!UnlinkReturn(p, n) = 0,
         NEW e, e = Min(Im(old)!UnlinkHits(p, n)),
         NEW t, t = Im(old)!EntryAt(p, e).inum
  PROVE  /\ Im(old)!IsDirectory(p)
         /\ n \notin {".", ".."}
         /\ e \in Nat /\ e >= 2 /\ e < InodesOf(old)[p].size
         /\ Im(old)!EntryAt(p, e).name = n
         /\ t \in old[inode_bitmap_addr] /\ t # p
         /\ \A k \in Nat : /\ k < InodesOf(old)[p].size /\ Im(old)!EntryAt(p, k).name = n
                           => k = e
         /\ \A q, m : Im(old)!IsDirectory(q) /\ m \in Names /\ Leads(old, q, m, t)
                      => q = p /\ m = n
<1>1. Im(old)!IsDirectory(p) /\ n \notin {".", ".."} /\ Im(old)!UnlinkHits(p, n) # {}
  <2>1. /\ -Im(old)!EINVALIDINODE # 0 /\ -Im(old)!EINVALIDNAME # 0 /\ -Im(old)!EUNLINKNOTALLOWED # 0
    BY DEF Im!EINVALIDINODE, Im!EINVALIDNAME, Im!EUNLINKNOTALLOWED
  <2> QED BY <2>1, Zenon DEF Im!UnlinkReturn
<1>2. Im(old)!UnlinkHits(p, n) \subseteq Nat
  BY DEF Im!UnlinkHits, Im!Used
<1>3. e \in Im(old)!UnlinkHits(p, n)
  BY <1>1, <1>2, MinOfNaturals
<1>4. InodesOf(old)[p].size \in Nat
  BY <1>1 DEF Tidy
<1>5. e \in Nat /\ e < InodesOf(old)[p].size /\ Im(old)!EntryAt(p, e).name = n
  BY <1>3, <1>4 DEF Im!UnlinkHits, Im!Used
<1>6. e >= 2
  BY <1>1, <1>5 DEF Tidy
<1>7. t \in old[inode_bitmap_addr] /\ t # p
  BY DEF Sound, TargetsFit
<1>8. ASSUME NEW k \in Nat, k < InodesOf(old)[p].size, Im(old)!EntryAt(p, k).name = n PROVE k = e
  BY <1>1, <1>5, <1>8 DEF Tidy
<1>9. ASSUME NEW q, NEW m, Im(old)!IsDirectory(q), m \in Names, Leads(old, q, m, t)
      PROVE  q = p /\ m = n
  <2>0. m \notin {".", ".."}
    BY <1>9, NamesAssumption
  <2>1. PICK k \in Nat : /\ k < InodesOf(old)[q].size /\ k >= 2
                         /\ Im(old)!EntryAt(q, k).inum = t /\ Im(old)!EntryAt(q, k).name = m
    BY <1>9, <2>0, OneLead
  <2>2. q = p /\ k = e
    BY <1>1, <1>5, <1>6, <1>9, <2>1 DEF Tidy
  <2> QED BY <1>5, <2>1, <2>2
<1> QED BY <1>1, <1>5, <1>6, <1>7, <1>8, <1>9

LEMMA NowIsImage ==
  /\ \A p, n : Now!lookup(p, n) = Im(image)!lookup(p, n)
  /\ \A i : Now!IsFile(i) = Im(image)!IsFile(i)
  /\ \A i : Now!Allocated(i) = Im(image)!Allocated(i)
  /\ \A i, n : Now!ReadCells(i, n) = Im(image)!ReadCells(i, n)
  /\ \A i, n : Stable!ReadCells(i, n) = Im(stable)!ReadCells(i, n)
<1>1. /\ \A p, n : Now!lookup(p, n) = Im(image)!lookup(p, n)
      /\ \A i : Now!IsFile(i) = Im(image)!IsFile(i)
  BY NowReads
<1>2. \A i : Now!Allocated(i) = Im(image)!Allocated(i)
  BY DEF Now!Allocated, Im!Allocated, Now!Inode, Im!Inode
<1>3. \A i, n : Now!ReadCells(i, n) = Im(image)!ReadCells(i, n)
  BY DEF Now!ReadCells, Im!ReadCells, Now!ReadVisits, Im!ReadVisits, Now!Smaller, Im!Smaller,
         Now!Larger, Im!Larger, Now!Blocks, Im!Blocks, Now!Index, Im!Index, Now!NullPtr,
         Im!NullPtr, Now!Cardinality, Im!Cardinality
<1>4. \A i, n : Stable!ReadCells(i, n) = Im(stable)!ReadCells(i, n)
  BY DEF Stable!ReadCells, Im!ReadCells, Stable!ReadVisits, Im!ReadVisits, Stable!Smaller,
         Im!Smaller, Stable!Larger, Im!Larger, Stable!Blocks, Im!Blocks, Stable!Index, Im!Index,
         Stable!NullPtr, Im!NullPtr, Stable!Cardinality, Im!Cardinality
<1> QED BY <1>1, <1>2, <1>3, <1>4

\* A directory a call that stops does not remove.
LEMMA KeptDirectories ==
  ASSUME NEW old, Sound(old), Tidy(old), NEW c, NEW disk, Keeps(old, c, disk),
         NEW p, Im(old)!IsDirectory(p), p \notin Target(c), NEW n \in Names
  PROVE  /\ ~(c.op # "write" /\ p = c.inum /\ n = c.name) =>
              Im(disk)!lookup(p, n) = Im(old)!lookup(p, n)
         /\ \A i : i = Im(disk)!lookup(p, n) /\ i >= 0 =>
              /\ i \in Now!Inode \cap disk[inode_bitmap_addr]
              /\ i \in old[inode_bitmap_addr] \ {c.inum} => BlocksInUse(disk, i)
<1>1. /\ p \in Now!Inode /\ p \in old[inode_bitmap_addr] /\ p \in disk[inode_bitmap_addr]
      /\ InodesOf(old)[p].type = Now!UFS_DIRECTORY
  BY ImConstants DEF Im!IsDirectory, Im!Allocated, Keeps
<1>2. c.op = "write" => p # c.inum
  <2>1. c.op = "write" => Im(old)!IsFile(c.inum)
    BY DEF Keeps, Known, CreateCall, WriteCall, UnlinkCall
  <2> QED BY <1>1, <2>1, ImConstants DEF Im!IsFile, Now!UFS_DIRECTORY, Now!UFS_REGULAR_FILE
<1>3. p # c.inum => Untouched(old, disk, p)
  BY <1>1 DEF Keeps
<1>4. Im(disk)!IsDirectory(p)
  BY <1>1, <1>2, <1>3, ImConstants DEF Im!IsDirectory, Im!Allocated, Keeps, Untouched
<1>5. ASSUME ~(c.op # "write" /\ p = c.inum /\ n = c.name)
      PROVE  \A i : Leads(disk, p, n, i) <=> Leads(old, p, n, i)
  <2>1. CASE p = c.inum
    BY <1>2, <1>5, <2>1 DEF Keeps
  <2>2. CASE p # c.inum
    BY <1>1, <1>3, <2>2, UntouchedLeads DEF Sound
  <2> QED BY <2>1, <2>2
<1>6. ~(c.op # "write" /\ p = c.inum /\ n = c.name) =>
        Im(disk)!lookup(p, n) = Im(old)!lookup(p, n)
  BY <1>4, <1>5, SameLookup
<1>7. ASSUME NEW i, i = Im(disk)!lookup(p, n), i >= 0
      PROVE  /\ i \in Now!Inode \cap disk[inode_bitmap_addr]
             /\ i \in old[inode_bitmap_addr] \ {c.inum} => BlocksInUse(disk, i)
  <2>1. Leads(disk, p, n, i)
    BY <1>4, <1>7, LookupLeads
  <2>2. CASE c.op # "write" /\ p = c.inum /\ n = c.name
    BY <2>1, <2>2 DEF Keeps
  <2>3. CASE ~(c.op # "write" /\ p = c.inum /\ n = c.name)
    <3>1. Leads(old, p, n, i)
      BY <1>5, <2>1, <2>3
    <3>2. i \in old[inode_bitmap_addr] /\ i \in Now!Inode
      BY <3>1, OneLead DEF Sound, Typed
    <3>3. ASSUME i \in Target(c) PROVE FALSE
      <4>1. c.op = "unlink" /\ i = c.new
        BY <3>3 DEF Target
      <4>2. c.new # None
        BY <3>2, <4>1, NoneIsNone
      <4>3. /\ c \in UnlinkCall /\ Im(old)!UnlinkReturn(c.inum, c.name) = 0
            /\ c.new = Im(old)!EntryAt(c.inum, Min(Im(old)!UnlinkHits(c.inum, c.name))).inum
        BY <4>1, <4>2 DEF Keeps, Known, CreateCall, WriteCall
      <4>4. c.inum \in Now!Inode /\ c.name \in Names \cup {LongName}
        BY <4>3 DEF UnlinkCall

      <4>6. PICK e : e = Min(Im(old)!UnlinkHits(c.inum, c.name))
        OBVIOUS
      <4>7. i = Im(old)!EntryAt(c.inum, e).inum
        BY <4>1, <4>3, <4>6
      <4>8. PICK q, m : q = c.inum /\ m = c.name
        OBVIOUS
      <4>9. \A r, l : Im(old)!IsDirectory(r) /\ l \in Names /\ Leads(old, r, l, i)
                      => r = q /\ l = m
        <5>1. /\ q \in Now!Inode /\ m \in Names \cup {LongName} /\ Im(old)!UnlinkReturn(q, m) = 0
              /\ e = Min(Im(old)!UnlinkHits(q, m)) /\ i = Im(old)!EntryAt(q, e).inum
          BY <4>3, <4>4, <4>6, <4>7, <4>8
        <5> QED BY <5>1, FoundEntry
      <4>10. p = c.inum /\ n = c.name
        BY <3>1, <4>8, <4>9
      <4> QED BY <2>3, <4>1, <4>10
    <3>4. i \in disk[inode_bitmap_addr]
      BY <3>2, <3>3 DEF Keeps
    <3>5. i # c.inum => BlocksInUse(disk, i)
      BY <3>2, <3>3 DEF Keeps, Untouched
    <3> QED BY <3>2, <3>4, <3>5
  <2> QED BY <2>2, <2>3
<1> QED BY <1>6, <1>7

LEMMA KeptIsHarmless ==
  ASSUME Sound(stable), L!IInv, Tidy(stable), Keeps(stable, call, image)
  PROVE  StopsHurtNobodyElse
<1> DEFINE others == Stable!Directories \ Target(call)
           named(p) == Names \ (IF call.op # "write" /\ p = call.inum THEN {call.name} ELSE {})
<1>1. ASSUME NEW p \in others
      PROVE  Im(stable)!IsDirectory(p) /\ p \notin Target(call)
  BY <1>1, StableReads DEF Stable!Directories
<1>2. ASSUME NEW p \in others, NEW n \in named(p) PROVE Now!lookup(p, n) = Stable!lookup(p, n)
  <2>1. n \in Names /\ ~(call.op # "write" /\ p = call.inum /\ n = call.name)
    OBVIOUS
  <2>2. Im(image)!lookup(p, n) = Im(stable)!lookup(p, n)
    BY <1>1, <2>1, KeptDirectories
  <2> QED BY <2>2, NowReads, StableReads
<1>3. ASSUME NEW p \in others, NEW n \in Names, NEW i, i = Now!lookup(p, n), i >= 0
      PROVE  /\ Now!Allocated(i)
             /\ i \in stable[inode_bitmap_addr] \ {call.inum} =>
                  \A x \in 0 .. Now!Blocks(InodesOf(image)[i].size) - 1 :
                    InodesOf(image)[i].direct[x] \in image[data_bitmap_addr]
  <2>1. i = Im(image)!lookup(p, n)
    BY <1>3, NowReads
  <2>2. /\ i \in Now!Inode \cap image[inode_bitmap_addr]
        /\ i \in stable[inode_bitmap_addr] \ {call.inum} => BlocksInUse(image, i)
    BY <1>1, <1>3, <2>1, KeptDirectories
  <2> QED BY <2>2 DEF Now!Allocated, BlocksInUse
<1>4. ASSUME NEW i \in Now!Inode \ (Target(call) \cup {call.inum}), Stable!IsFile(i),
             NEW n, n = InodesOf(stable)[i].size
      PROVE  Now!IsFile(i) /\ (n > 0 => Now!ReadCells(i, n) = Stable!ReadCells(i, n))
  <2>1. i \in stable[inode_bitmap_addr] /\ InodesOf(stable)[i].type = Now!UFS_REGULAR_FILE
    BY <1>4, StableConstants DEF Stable!IsFile, Stable!Allocated
  <2>2. i \in image[inode_bitmap_addr] /\ Untouched(stable, image, i)
    BY <2>1 DEF Keeps
  <2>3. Now!IsFile(i)
    BY <2>1, <2>2 DEF Untouched, Now!IsFile, Now!Allocated
  <2>4. n > 0 => Im(image)!ReadCells(i, n) = Im(stable)!ReadCells(i, n)
    BY <1>4, <2>1, <2>2, UntouchedReads
  <2> QED BY <2>3, <2>4, NowIsImage
<1>5. Target(call) = IF call.op = "unlink" THEN {call.new} ELSE {}
  BY DEF Target
<1>6. \A p \in others : \A n \in named(p) : Now!lookup(p, n) = Stable!lookup(p, n)
  BY <1>2
<1>7. \A p \in others : \A n \in Names :
        LET i == Now!lookup(p, n)
        IN i >= 0 =>
             /\ Now!Allocated(i)
             /\ i \in stable[inode_bitmap_addr] \ {call.inum} =>
                  \A x \in 0 .. Now!Blocks(InodesOf(image)[i].size) - 1 :
                    InodesOf(image)[i].direct[x] \in image[data_bitmap_addr]
  BY <1>3
<1>8. \A i \in Now!Inode \ (Target(call) \cup {call.inum}) : Stable!IsFile(i) =>
        LET n == InodesOf(stable)[i].size
        IN Now!IsFile(i) /\ (n > 0 => Now!ReadCells(i, n) = Stable!ReadCells(i, n))
  BY <1>4
<1> QED BY <1>5, <1>6, <1>7, <1>8, Zenon DEF StopsHurtNobodyElse
-----------------------------------------------------------------------------
(* What fits keeps all that the call is not about: create.                 *)

\* The place of a new entry holds none.
LEMMA PlaceIsFree ==
  ASSUME NEW old, Sound(old), Tidy(old), NEW p, Im(old)!IsDirectory(p),
         NEW q, q = Now!Blocks(InodesOf(old)[p].size),
         NEW k, k = Im(old)!CreatePosition(p)
  PROVE  /\ p \in old[inode_bitmap_addr] /\ q \in Nat /\ k \in Nat
         /\ q * UFS_BLOCK_SIZE \in Nat
         /\ Im(old)!Positions(p) = 0 .. q * UFS_BLOCK_SIZE - 1
         /\ Im(old)!NeedsBlock(p) => k = q * UFS_BLOCK_SIZE
         /\ ~Im(old)!NeedsBlock(p) => k < q * UFS_BLOCK_SIZE /\ Im(old)!EntryAt(p, k).inum = -1
<1>1. p \in old[inode_bitmap_addr] /\ q \in Nat /\ InodesOf(old)[p].size \in Nat
  BY SizeIsNat DEF Sound, Tidy
<1>2. q * UFS_BLOCK_SIZE \in Nat
  BY <1>1, SizesAssumption
<1>3. Im(old)!Positions(p) = 0 .. q * UFS_BLOCK_SIZE - 1
  BY ImConstants DEF Im!Positions
<1> DEFINE free == {x \in Im(old)!Positions(p) :
                      InodesOf(old)[p].size <= x \/ Im(old)!EntryAt(p, x).inum = -1}
<1>4. k = Min(free \cup {q * UFS_BLOCK_SIZE})
  BY MinIs, ImConstants DEF Im!CreatePosition
<1>5. free \cup {q * UFS_BLOCK_SIZE} \subseteq Nat
  BY <1>2 DEF Im!Positions
<1>6. k \in free \cup {q * UFS_BLOCK_SIZE}
  <2> HIDE DEF free
  <2> QED BY <1>4, <1>5, MinOfNaturals
<1>7. Im(old)!NeedsBlock(p) <=> k \notin Im(old)!Positions(p)
  BY DEF Im!NeedsBlock
<1>8. CASE Im(old)!NeedsBlock(p)
  BY <1>1, <1>2, <1>3, <1>6, <1>7, <1>8
<1>9. CASE ~Im(old)!NeedsBlock(p)
  <2>1. k \in 0 .. q * UFS_BLOCK_SIZE - 1
    BY <1>3, <1>7, <1>9
  <2>2. k \in Nat /\ k < q * UFS_BLOCK_SIZE
    BY <1>2, <2>1
  <2>3. k \in free
    BY <1>2, <1>6, <2>2
  <2>4. Im(old)!EntryAt(p, k).inum = -1
    <3>1. k \in Im(old)!Positions(p) /\ (InodesOf(old)[p].size <= k \/ Im(old)!EntryAt(p, k).inum = -1)
      BY <2>3
    <3>2. InodesOf(old)[p].size <= k => ~(k < InodesOf(old)[p].size)
      BY <1>1, <2>2
    <3> QED BY <3>1, <3>2 DEF Tidy
  <2> QED BY <1>1, <1>2, <1>3, <1>9, <2>2, <2>4
<1> QED BY <1>8, <1>9

\* The number of blocks of the parent with the new entry.
LEMMA LongerByOne ==
  ASSUME NEW n \in Nat, NEW q, q = Now!Blocks(n), NEW k \in Nat
  PROVE  /\ k < q * UFS_BLOCK_SIZE => Now!Blocks(Now!Larger(n, k + 1)) = q
         /\ k = q * UFS_BLOCK_SIZE => Now!Blocks(Now!Larger(n, k + 1)) = q + 1
<1>1. PICK m : m = Now!Larger(n, k + 1)
  OBVIOUS
<1>2. m \in Nat /\ n <= m /\ k + 1 <= m /\ (m = n \/ m = k + 1)
  BY <1>1 DEF Now!Larger
<1>3. PICK r \in Nat : r = Now!Blocks(m)
  BY <1>2, BlocksBound
<1>4. q \in Nat /\ n <= q * UFS_BLOCK_SIZE /\ q * UFS_BLOCK_SIZE \in Nat
      /\ r * UFS_BLOCK_SIZE \in Nat /\ m <= r * UFS_BLOCK_SIZE
  BY <1>2, <1>3, BlocksBound, SizesAssumption
<1>5. n <= r * UFS_BLOCK_SIZE
  BY <1>2, <1>4
<1>6. q <= r
  BY <1>3, <1>5, BlocksBound
<1>7. CASE k < q * UFS_BLOCK_SIZE
  <2>1. m <= q * UFS_BLOCK_SIZE
    BY <1>2, <1>4, <1>7
  <2>2. r <= q
    BY <1>2, <1>3, <1>4, <2>1, BlocksBound
  <2> QED BY <1>1, <1>3, <1>4, <1>6, <1>7, <2>2
<1>8. CASE k = q * UFS_BLOCK_SIZE
  <2>1. (q + 1) * UFS_BLOCK_SIZE = q * UFS_BLOCK_SIZE + UFS_BLOCK_SIZE
    BY <1>4, SizesAssumption
  <2>2. m <= (q + 1) * UFS_BLOCK_SIZE
    BY <1>2, <1>4, <1>8, <2>1, SizesAssumption
  <2>3. r <= q + 1
    BY <1>2, <1>3, <1>4, <2>2, BlocksBound
  <2>4. r # q
    BY <1>2, <1>4, <1>8
  <2> QED BY <1>1, <1>3, <1>4, <1>6, <1>8, <2>3, <2>4
<1> QED BY <1>7, <1>8

LEMMA CreateParts ==
  ASSUME NEW old, Sound(old), Tidy(old), NEW c \in CreateCall, NEW disk, CreateFits(old, c, View(disk))
  PROVE  /\ c.inum \in old[inode_bitmap_addr] /\ c.inum \in Now!Inode
         /\ Im(old)!IsDirectory(c.inum)
         /\ old[inode_bitmap_addr] \subseteq disk[inode_bitmap_addr]
         /\ old[data_bitmap_addr] \subseteq disk[data_bitmap_addr]
         /\ c.new # None => c.new \in Now!Inode \cap disk[inode_bitmap_addr]
         /\ c.new \notin old[inode_bitmap_addr]
         /\ c.block \notin old[data_bitmap_addr] /\ c.more \notin old[data_bitmap_addr]
         /\ InodesOf(disk) = CreateNodes(old, c)
         /\ DataOf(disk) = CreateData(old, c)
<1>1. c.inum \in old[inode_bitmap_addr] /\ c.inum \in Now!Inode /\ Im(old)!IsDirectory(c.inum)
  BY ParentOfCreate DEF CreateFits, CreateChecked
<1>2. PICK v : v = View(disk)
  OBVIOUS
<1>3. /\ v.ib = disk[inode_bitmap_addr] /\ v.db = disk[data_bitmap_addr]
      /\ v.nodes = InodesOf(disk) /\ v.data = DataOf(disk)
  BY <1>2 DEF View
<1>4. CreateFits(old, c, v)
  BY <1>2
<1>5. /\ v.ib = old[inode_bitmap_addr] \cup ({c.new} \ {None})
      /\ v.db = old[data_bitmap_addr] \cup ({c.block, c.more} \ {None})
      /\ v.nodes = CreateNodes(old, c)
      /\ v.data = CreateData(old, c)
  BY <1>4, Zenon DEF CreateFits
<1>6. CreateTook(old, c)
  BY <1>4 DEF CreateFits
<1>7. old[inode_bitmap_addr] \subseteq Now!Inode /\ old[data_bitmap_addr] \subseteq Now!DataBlock
  BY DEF Sound, Typed
<1>8. /\ c.new = None \/ c.new \in Now!Inode \ old[inode_bitmap_addr]
      /\ c.block = None \/ c.block \in Now!DataBlock \ old[data_bitmap_addr]
      /\ c.more = None \/ c.more \in Now!DataBlock \ old[data_bitmap_addr]
  BY <1>6 DEF CreateTook, Lowest, View
<1>9. /\ c.new \notin old[inode_bitmap_addr]
      /\ c.block \notin old[data_bitmap_addr] /\ c.more \notin old[data_bitmap_addr]
  BY <1>7, <1>8, NoneIsNone
<1> QED BY <1>1, <1>3, <1>5, <1>8, <1>9

\* An inode other than the parent, and the parent until its entry is there.
LEMMA CreateLeaves ==
  ASSUME NEW old, Sound(old), Tidy(old), NEW c \in CreateCall, NEW disk, CreateFits(old, c, View(disk)),
         NEW i \in old[inode_bitmap_addr],
         \/ i # c.inum
         \/ c.at \notin {"parent", "init", "commit"}
         \/ c.at = "parent" /\ Im(old)!NeedsBlock(c.inum)
  PROVE  Untouched(old, disk, i)
<1>1. /\ c.inum \in old[inode_bitmap_addr] /\ c.inum \in Now!Inode
      /\ old[data_bitmap_addr] \subseteq disk[data_bitmap_addr]
      /\ c.new \notin old[inode_bitmap_addr]
      /\ c.block \notin old[data_bitmap_addr] /\ c.more \notin old[data_bitmap_addr]
      /\ InodesOf(disk) = CreateNodes(old, c)
      /\ DataOf(disk) = CreateData(old, c)
  BY CreateParts
<1>2. i \in Now!Inode
  BY DEF Sound, Typed
<1>3. InodesOf(disk)[i] = InodesOf(old)[i]
  <2>1. CASE c.at \notin {"init", "commit"}
    BY <1>1, <2>1 DEF CreateNodes
  <2>2. CASE c.at \in {"init", "commit"}
    <3> DEFINE parent == [InodesOf(old) EXCEPT ![c.inum] = Im(old)!Extended(c.inum, c.more)]
    <3>1. i # c.inum /\ i # c.new
      BY <1>1, <2>2
    <3>2. InodesOf(disk) = parent
          \/ InodesOf(disk) = [parent EXCEPT ![c.new] = Im(old)!Created(c.new, c.type, c.block)]
      BY <1>1, <2>2 DEF CreateNodes
    <3>3. parent[i] = InodesOf(old)[i]
      BY <1>2, <3>1 DEF InodesOf, Now!Inode
    <3>4. i \in DOMAIN parent
      BY <1>2 DEF InodesOf, Now!Inode
    <3> HIDE DEF parent
    <3> QED BY <3>1, <3>2, <3>3, <3>4
  <2> QED BY <2>1, <2>2
<1>4. /\ Now!Blocks(InodesOf(old)[i].size) \in Nat
      /\ \A x \in 0 .. Now!Blocks(InodesOf(old)[i].size) - 1 :
           InodesOf(old)[i].direct[x] \in old[data_bitmap_addr] \cap Now!DataBlock
  BY BlocksOfInode
<1>5. ASSUME NEW x \in 0 .. Now!Blocks(InodesOf(old)[i].size) - 1,
             NEW b, b = InodesOf(old)[i].direct[x]
      PROVE  c.at \in {"parent", "init", "commit"} => b # HomeBlock(old, c)
  <2>1. CASE Im(old)!NeedsBlock(c.inum)
    BY <1>1, <1>4, <1>5, <2>1 DEF HomeBlock
  <2>2. CASE ~Im(old)!NeedsBlock(c.inum)
    <3>1. PICK y : y = HomeIndex(old, c.inum)
      OBVIOUS
    <3>2. y \in Nat /\ y < Now!Blocks(InodesOf(old)[c.inum].size)
      <4>1. PICK k : k = Im(old)!CreatePosition(c.inum)
        OBVIOUS
      <4>2. y = k \div UFS_BLOCK_SIZE
        BY <3>1, <4>1 DEF HomeIndex
      <4> QED BY <1>1, <2>2, <4>1, <4>2 DEF Sound, PlacesFit
    <3>3. x \in Nat /\ x < Now!Blocks(InodesOf(old)[i].size)
      BY <1>4
    <3>4. HomeBlock(old, c) = InodesOf(old)[c.inum].direct[y]
      BY <2>2, <3>1 DEF HomeBlock
    <3>5. ASSUME InodesOf(old)[i].direct[x] = InodesOf(old)[c.inum].direct[y] PROVE i = c.inum
      BY <1>1, <3>2, <3>3, <3>5 DEF Sound, Owned
    <3> QED BY <1>5, <2>2, <3>4, <3>5
  <2> QED BY <2>1, <2>2
<1>6. ASSUME NEW x \in 0 .. Now!Blocks(InodesOf(old)[i].size) - 1,
             NEW b, b = InodesOf(old)[i].direct[x]
      PROVE  DataOf(disk)[b] = DataOf(old)[b] /\ b \in disk[data_bitmap_addr]
  <2>1. b \in Now!DataBlock /\ b \in old[data_bitmap_addr] /\ b # c.block
    BY <1>1, <1>4, <1>6
  <2>2. c.at \in {"parent", "init", "commit"} => b # HomeBlock(old, c)
    BY <1>5, <1>6
  <2>3. CreateData(old, c)[b] = DataOf(old)[b]
    BY <2>1, <2>2 DEF CreateData
  <2> QED BY <1>1, <2>1, <2>3
<1> QED BY <1>3, <1>6 DEF Untouched, BlocksInUse

LEMMA SplitPosition ==
  ASSUME NEW j \in Nat, NEW k \in Nat, j # k, j \div UFS_BLOCK_SIZE = k \div UFS_BLOCK_SIZE
  PROVE  j % UFS_BLOCK_SIZE # k % UFS_BLOCK_SIZE
<1>1. /\ j = UFS_BLOCK_SIZE * (j \div UFS_BLOCK_SIZE) + (j % UFS_BLOCK_SIZE)
      /\ k = UFS_BLOCK_SIZE * (k \div UFS_BLOCK_SIZE) + (k % UFS_BLOCK_SIZE)
  <2>1. UFS_BLOCK_SIZE \in Nat \ {0}
    BY SizesAssumption
  <2> QED BY <2>1, Assumptions, L!Division
<1> QED BY <1>1

\* The blocks of the parent but the one at h are as before.
OthersStay(old, disk, p, q, h) ==
  \A x \in 0 .. q - 1 : x # h =>
    DataOf(disk)[InodesOf(disk)[p].direct[x]] = DataOf(old)[InodesOf(old)[p].direct[x]]

\* The one at h has got an entry in a slot, and is new if the parent needs one.
GotEntry(old, disk, p, h, slot, entry) ==
  /\ DataOf(disk)[InodesOf(disk)[p].direct[h]][slot] = entry
  /\ \A s \in Now!Slot : s # slot =>
       /\ Im(old)!NeedsBlock(p) => DataOf(disk)[InodesOf(disk)[p].direct[h]][s].inum = -1
       /\ ~Im(old)!NeedsBlock(p) =>
            DataOf(disk)[InodesOf(disk)[p].direct[h]][s] = DataOf(old)[InodesOf(old)[p].direct[h]][s]

\* The parent with the new entry: what its pointers and their blocks are.
LEMMA CreateHome ==
  ASSUME NEW old, Sound(old), Tidy(old), NEW c \in CreateCall, NEW disk, CreateFits(old, c, View(disk)),
         \/ c.at = "parent" /\ ~Im(old)!NeedsBlock(c.inum)
         \/ c.at \in {"init", "commit"},
         NEW p, p = c.inum,
         NEW k, k = Im(old)!CreatePosition(p),
         NEW h, h = k \div UFS_BLOCK_SIZE,
         NEW q, q = Now!Blocks(InodesOf(old)[p].size)
  PROVE  /\ Im(old)!NeedsBlock(p) => Im(disk)!Positions(p) = 0 .. (q + 1) * UFS_BLOCK_SIZE - 1
         /\ ~Im(old)!NeedsBlock(p) => Im(disk)!Positions(p) = 0 .. q * UFS_BLOCK_SIZE - 1
         /\ InodesOf(disk)[p].type = Now!UFS_DIRECTORY
         /\ OthersStay(old, disk, p, q, h)
         /\ GotEntry(old, disk, p, h, k % UFS_BLOCK_SIZE, Now!Entry(c.name, c.new))
         /\ h = q \/ (~Im(old)!NeedsBlock(p) /\ h \in 0 .. q - 1)
         /\ Im(old)!NeedsBlock(p) => h = q
         /\ k % UFS_BLOCK_SIZE \in Now!Slot
<1>1. /\ p \in old[inode_bitmap_addr] /\ p \in Now!Inode
      /\ c.new \notin old[inode_bitmap_addr]
      /\ c.block \notin old[data_bitmap_addr] /\ c.more \notin old[data_bitmap_addr]
      /\ InodesOf(disk) = CreateNodes(old, c)
      /\ DataOf(disk) = CreateData(old, c)
      /\ Im(old)!IsDirectory(p)
  BY CreateParts
<1>2. /\ q \in Nat /\ k \in Nat /\ InodesOf(old)[p].size \in Nat
      /\ Im(old)!NeedsBlock(p) => k = q * UFS_BLOCK_SIZE
      /\ ~Im(old)!NeedsBlock(p) => k < q * UFS_BLOCK_SIZE
      /\ Im(old)!Positions(p) = 0 .. q * UFS_BLOCK_SIZE - 1
  BY <1>1, PlaceIsFree DEF Tidy
<1>3. /\ h \in Nat /\ k % UFS_BLOCK_SIZE \in Now!Slot
      /\ Im(old)!NeedsBlock(p) => h = q
      /\ ~Im(old)!NeedsBlock(p) => h \in 0 .. q - 1
  <2>1. /\ h \in Nat /\ k % UFS_BLOCK_SIZE \in Now!Slot
        /\ Im(old)!NeedsBlock(p) => h = q
        /\ ~Im(old)!NeedsBlock(p) => h < q
    BY <1>1 DEF Sound, PlacesFit
  <2> QED BY <1>2, <2>1
<1>4. /\ InodesOf(old)[p] \in Now!InodeRecord /\ InodesOf(old)[p].type = Now!UFS_DIRECTORY
      /\ Now!Blocks(InodesOf(old)[p].size) \in Nat
      /\ \A x \in 0 .. q - 1 :
           /\ InodesOf(old)[p].direct[x] \in old[data_bitmap_addr] \cap Now!DataBlock
           /\ \A z \in 0 .. q - 1 : InodesOf(old)[p].direct[x] = InodesOf(old)[p].direct[z] => x = z
  <2>1. InodesOf(old)[p].type = Now!UFS_DIRECTORY
    BY <1>1, ImConstants DEF Im!IsDirectory
  <2> QED BY <1>1, <2>1, BlocksOfInode
<1>5. Im(old)!NeedsBlock(p) => c.more \in Now!DataBlock /\ h < DIRECT_PTRS
  BY DEF CreateFits, CreateTook, Lowest, HomeIndex
<1>6. HomeIndex(old, c.inum) = h
  BY DEF HomeIndex
<1>7. HomeBlock(old, c) = IF Im(old)!NeedsBlock(p) THEN c.more ELSE InodesOf(old)[p].direct[h]
  BY <1>6 DEF HomeBlock
<1>8. HomeBlock(old, c) \in Now!DataBlock
  BY <1>3, <1>4, <1>5, <1>7
<1>9. c.at # "parent" => InodesOf(disk)[p] = Im(old)!Extended(p, c.more)
  <2> DEFINE parent == [InodesOf(old) EXCEPT ![c.inum] = Im(old)!Extended(c.inum, c.more)]
  <2>1. c.at # "parent" =>
          \/ InodesOf(disk) = parent
          \/ InodesOf(disk) = [parent EXCEPT ![c.new] = Im(old)!Created(c.new, c.type, c.block)]
    BY <1>1 DEF CreateNodes
  <2>2. parent[p] = Im(old)!Extended(p, c.more) /\ p \in DOMAIN parent
    BY <1>1 DEF InodesOf, Now!Inode
  <2> HIDE DEF parent
  <2> QED BY <1>1, <2>1, <2>2
<1>10. c.at = "parent" => InodesOf(disk)[p] = InodesOf(old)[p]
  BY <1>1 DEF CreateNodes
<1>11. PICK longer : longer = Im(old)!Extended(p, c.more)
  OBVIOUS
<1>12. /\ longer.type = Now!UFS_DIRECTORY
       /\ longer.size = Now!Larger(InodesOf(old)[p].size, k + 1)
       /\ longer.direct = IF Im(old)!NeedsBlock(p) THEN [InodesOf(old)[p].direct EXCEPT ![h] = c.more]
                     ELSE InodesOf(old)[p].direct
  BY <1>4, <1>11, ImConstants DEF Im!Extended
<1>13. InodesOf(old)[p].direct \in [Now!Index -> Now!Pointer]
  BY <1>4 DEF Now!InodeRecord
<1>14. /\ \A x \in 0 .. q - 1 : x # h => InodesOf(disk)[p].direct[x] = InodesOf(old)[p].direct[x]
       /\ InodesOf(disk)[p].direct[h] = HomeBlock(old, c)
  <2>1. CASE Im(old)!NeedsBlock(p)
    <3>1. InodesOf(disk)[p].direct = [InodesOf(old)[p].direct EXCEPT ![h] = c.more]
      BY <1>9, <1>11, <1>12, <2>1
    <3>2. h \in Now!Index
      BY <1>3, <1>5, <2>1, SizesAssumption DEF Now!Index
    <3> QED BY <1>7, <1>13, <2>1, <3>1, <3>2
  <2>2. CASE ~Im(old)!NeedsBlock(p)
    BY <1>7, <1>9, <1>10, <1>11, <1>12, <2>2
  <2> QED BY <2>1, <2>2
<1>15. InodesOf(disk)[p].type = Now!UFS_DIRECTORY
  BY <1>4, <1>9, <1>10, <1>11, <1>12
<1>16. /\ Im(old)!NeedsBlock(p) => Im(disk)!Positions(p) = 0 .. (q + 1) * UFS_BLOCK_SIZE - 1
       /\ ~Im(old)!NeedsBlock(p) => Im(disk)!Positions(p) = 0 .. q * UFS_BLOCK_SIZE - 1
  <2>1. Im(disk)!Positions(p) = 0 .. Now!Blocks(InodesOf(disk)[p].size) * UFS_BLOCK_SIZE - 1
    BY ImConstants DEF Im!Positions
  <2>2. /\ Im(old)!NeedsBlock(p) => Now!Blocks(InodesOf(disk)[p].size) = q + 1
        /\ ~Im(old)!NeedsBlock(p) => Now!Blocks(InodesOf(disk)[p].size) = q
    BY <1>2, <1>9, <1>10, <1>11, <1>12, LongerByOne
  <2> QED BY <2>1, <2>2
<1>17. ASSUME NEW x \in 0 .. q - 1, x # h
       PROVE  DataOf(disk)[InodesOf(disk)[p].direct[x]] = DataOf(old)[InodesOf(old)[p].direct[x]]
  <2>1. PICK b : b = InodesOf(old)[p].direct[x]
    OBVIOUS
  <2>2. b \in Now!DataBlock /\ b # c.block /\ b # HomeBlock(old, c)
    BY <1>1, <1>3, <1>4, <1>7, <1>17, <2>1
  <2>3. CreateData(old, c)[b] = DataOf(old)[b]
    BY <2>2 DEF CreateData
  <2> QED BY <1>1, <1>14, <1>17, <2>1, <2>3
<1>18. ASSUME NEW s \in Now!Slot
       PROVE  DataOf(disk)[InodesOf(disk)[p].direct[h]][s] =
                IF s = k % UFS_BLOCK_SIZE THEN Now!Entry(c.name, c.new)
                ELSE IF Im(old)!NeedsBlock(p) THEN Now!Entry("", -1)
                ELSE DataOf(old)[InodesOf(old)[p].direct[h]][s]
  <2>1. PICK b : b = HomeBlock(old, c)
    OBVIOUS
  <2>2. CreateData(old, c)[b] = Im(old)!WithEntry(c.inum, b, c.name, c.new)
    BY <1>8, <2>1 DEF CreateData
  <2>3. PICK block : block = IF Im(old)!NeedsBlock(p) THEN Now!UnusedBlock ELSE DataOf(old)[b]
    OBVIOUS
  <2>4. block \in [Now!Slot -> Now!Cell]
    <3>1. Now!Entry("", -1) \in Now!Cell
      BY DEF Now!Cell, Now!Entry
    <3>2. Now!UnusedBlock \in [Now!Slot -> Now!Cell]
      BY <3>1 DEF Now!UnusedBlock
    <3>3. DataOf(old)[b] \in [Now!Slot -> Now!Cell]
      BY <1>8, <2>1 DEF Sound, Typed, DataBlocks
    <3> QED BY <2>3, <3>2, <3>3
  <2>5. Im(old)!WithEntry(c.inum, b, c.name, c.new)
          = [block EXCEPT ![k % UFS_BLOCK_SIZE] = Now!Entry(c.name, c.new)]
    BY <2>3, ImConstants DEF Im!WithEntry
  <2>6. DataOf(disk)[b][s] = IF s = k % UFS_BLOCK_SIZE THEN Now!Entry(c.name, c.new) ELSE block[s]
    BY <1>1, <2>2, <2>4, <2>5
  <2>7. Now!UnusedBlock[s] = Now!Entry("", -1)
    BY DEF Now!UnusedBlock
  <2> QED BY <1>7, <1>14, <2>1, <2>3, <2>6, <2>7
<1>19. Now!Entry("", -1).inum = -1
  BY DEF Now!Entry
<1>20. OthersStay(old, disk, p, q, h)
  BY <1>17 DEF OthersStay
<1>21. GotEntry(old, disk, p, h, k % UFS_BLOCK_SIZE, Now!Entry(c.name, c.new))
  BY <1>3, <1>18, <1>19 DEF GotEntry
<1> QED BY <1>3, <1>15, <1>16, <1>20, <1>21

\* Entry by entry.
LEMMA CreateEntries ==
  ASSUME NEW old, Sound(old), Tidy(old), NEW c \in CreateCall, NEW disk, CreateFits(old, c, View(disk)),
         \/ c.at = "parent" /\ ~Im(old)!NeedsBlock(c.inum)
         \/ c.at \in {"init", "commit"},
         NEW p, p = c.inum,
         NEW k, k = Im(old)!CreatePosition(p)
  PROVE  /\ k \in Im(disk)!Positions(p) /\ Im(disk)!EntryAt(p, k) = Now!Entry(c.name, c.new)
         /\ \A j \in Im(old)!Positions(p) : j # k =>
              j \in Im(disk)!Positions(p) /\ Im(disk)!EntryAt(p, j) = Im(old)!EntryAt(p, j)
         /\ \A j \in Im(disk)!Positions(p) :
              j = k \/ j \in Im(old)!Positions(p) \/ Im(disk)!EntryAt(p, j).inum = -1
         /\ k \in Im(old)!Positions(p) => Im(old)!EntryAt(p, k).inum = -1
         /\ InodesOf(disk)[p].type = Now!UFS_DIRECTORY
<1>1. PICK q : q = Now!Blocks(InodesOf(old)[p].size)
  OBVIOUS
<1>2. Im(old)!IsDirectory(p)
  BY CreateParts
<1>3. /\ q \in Nat /\ k \in Nat /\ q * UFS_BLOCK_SIZE \in Nat
      /\ Im(old)!Positions(p) = 0 .. q * UFS_BLOCK_SIZE - 1
      /\ Im(old)!NeedsBlock(p) => k = q * UFS_BLOCK_SIZE
      /\ ~Im(old)!NeedsBlock(p) => k < q * UFS_BLOCK_SIZE /\ Im(old)!EntryAt(p, k).inum = -1
  BY <1>1, <1>2, PlaceIsFree
<1>4. PICK h : h = k \div UFS_BLOCK_SIZE
  OBVIOUS
<1>5. PICK r : (Im(old)!NeedsBlock(p) => r = q + 1) /\ (~Im(old)!NeedsBlock(p) => r = q)
  OBVIOUS
<1>6. OthersStay(old, disk, p, q, h)
      /\ GotEntry(old, disk, p, h, k % UFS_BLOCK_SIZE, Now!Entry(c.name, c.new))
  BY <1>1, <1>4, CreateHome
<1>14. Im(disk)!Positions(p) = 0 .. r * UFS_BLOCK_SIZE - 1 /\ InodesOf(disk)[p].type = Now!UFS_DIRECTORY
  BY <1>1, <1>4, <1>5, CreateHome
<1>15. k % UFS_BLOCK_SIZE \in Now!Slot /\ (Im(old)!NeedsBlock(p) => h = q)
  BY <1>1, <1>4, CreateHome
<1>7. r \in Nat /\ r * UFS_BLOCK_SIZE \in Nat /\ q * UFS_BLOCK_SIZE <= r * UFS_BLOCK_SIZE
      /\ k < r * UFS_BLOCK_SIZE
  <2>1. (q + 1) * UFS_BLOCK_SIZE = q * UFS_BLOCK_SIZE + UFS_BLOCK_SIZE
    BY <1>3, SizesAssumption
  <2>2. UFS_BLOCK_SIZE \in Nat /\ UFS_BLOCK_SIZE >= 2
    BY SizesAssumption
  <2>3. CASE r = q
    BY <1>3, <1>5, <2>3
  <2>4. CASE r = q + 1
    BY <1>3, <2>1, <2>2, <2>4
  <2> QED BY <1>5, <2>3, <2>4
<1>8. k \in Im(disk)!Positions(p)
  BY <1>3, <1>7, <1>14
<1>9. Im(disk)!EntryAt(p, k) = Now!Entry(c.name, c.new)
  BY <1>4, <1>6 DEF Im!EntryAt, GotEntry
<1>10. ASSUME NEW j \in Im(old)!Positions(p), j # k
       PROVE  Im(disk)!EntryAt(p, j) = Im(old)!EntryAt(p, j)
  <2>1. /\ j \in Nat /\ j \div UFS_BLOCK_SIZE \in 0 .. q - 1 /\ j % UFS_BLOCK_SIZE \in Now!Slot
    BY <1>3, PositionInBlock
  <2>2. CASE j \div UFS_BLOCK_SIZE # h
    BY <1>6, <2>1, <2>2 DEF Im!EntryAt, OthersStay
  <2>3. CASE j \div UFS_BLOCK_SIZE = h
    <3>1. ~Im(old)!NeedsBlock(p)
      <4>1. h # q
        BY <1>3, <2>1, <2>3
      <4> QED BY <1>15, <4>1
    <3>2. j % UFS_BLOCK_SIZE # k % UFS_BLOCK_SIZE
      BY <1>3, <1>4, <1>10, <2>1, <2>3, SplitPosition
    <3> QED BY <1>6, <2>1, <2>3, <3>1, <3>2 DEF Im!EntryAt, GotEntry
  <2> QED BY <2>2, <2>3
<1>11. ASSUME NEW j \in Im(disk)!Positions(p), j # k, j \notin Im(old)!Positions(p)
       PROVE  Im(disk)!EntryAt(p, j).inum = -1
  <2>1. /\ j \in Nat /\ j \div UFS_BLOCK_SIZE \in 0 .. r - 1 /\ j % UFS_BLOCK_SIZE \in Now!Slot
    BY <1>7, <1>14, PositionInBlock
  <2>2. ~(j < q * UFS_BLOCK_SIZE)
    BY <1>3, <1>11, <2>1
  <2>3. ~(j \div UFS_BLOCK_SIZE < q)
    <3>1. UFS_BLOCK_SIZE \in Nat \ {0}
      BY SizesAssumption
    <3> QED BY <1>3, <2>1, <2>2, <3>1, Assumptions, L!DivBelow
  <2>4. Im(old)!NeedsBlock(p) /\ j \div UFS_BLOCK_SIZE = q
    BY <1>3, <1>5, <2>1, <2>3
  <2>5. j % UFS_BLOCK_SIZE # k % UFS_BLOCK_SIZE
    BY <1>3, <1>4, <1>11, <1>15, <2>1, <2>4, SplitPosition
  <2> QED BY <1>6, <1>15, <2>1, <2>4, <2>5 DEF Im!EntryAt, GotEntry
<1>12. ASSUME NEW j \in Im(old)!Positions(p) PROVE j \in Im(disk)!Positions(p)
  <2>1. j \in Nat /\ j < q * UFS_BLOCK_SIZE
    BY <1>3
  <2> QED BY <1>3, <1>7, <1>14, <2>1
<1>13. k \in Im(old)!Positions(p) => Im(old)!EntryAt(p, k).inum = -1
  BY <1>3
<1> QED BY <1>8, <1>9, <1>10, <1>11, <1>12, <1>13, <1>14

\* The name a call is to create leads nowhere before.
LEMMA NameIsNew ==
  ASSUME NEW old, Sound(old), Tidy(old), NEW c \in CreateCall, NEW disk, CreateFits(old, c, View(disk))
  PROVE  \A i : ~Leads(old, c.inum, c.name, i)
<1>1. Im(old)!IsDirectory(c.inum) /\ Im(old)!lookup(c.inum, c.name) = -Now!ENOTFOUND
  BY DEF CreateFits, CreateChecked
<1>2. ASSUME NEW i, Leads(old, c.inum, c.name, i) PROVE FALSE
  <2>1. i \in old[inode_bitmap_addr] /\ \A j : Leads(old, c.inum, c.name, j) => j = i
    BY <1>1, <1>2, OneLead
  <2>2. Im(old)!lookup(c.inum, c.name) = i
    BY <1>1, <1>2, <2>1, LookupLeads
  <2>3. i \in Nat
    BY <2>1 DEF Sound, Typed, Now!Inode
  <2> QED BY <1>1, <2>2, <2>3 DEF Now!ENOTFOUND
<1> QED BY <1>2

LEMMA CreateNames ==
  ASSUME NEW old, Sound(old), Tidy(old), NEW c \in CreateCall, NEW disk, CreateFits(old, c, View(disk))
  PROVE  /\ InodesOf(disk)[c.inum].type = Now!UFS_DIRECTORY
         /\ \A n \in Names \ {c.name} :
            \A i : Leads(disk, c.inum, n, i) <=> Leads(old, c.inum, n, i)
         /\ \A i : Leads(disk, c.inum, c.name, i) =>
              i \in Now!Inode \cap disk[inode_bitmap_addr] /\ i \notin old[inode_bitmap_addr]
<1>1. /\ c.inum \in old[inode_bitmap_addr] /\ Im(old)!IsDirectory(c.inum)
      /\ c.new # None => c.new \in Now!Inode \cap disk[inode_bitmap_addr]
      /\ c.new \notin old[inode_bitmap_addr]
  BY CreateParts
<1>2. CASE \/ c.at \notin {"parent", "init", "commit"}
           \/ c.at = "parent" /\ Im(old)!NeedsBlock(c.inum)
  <2>1. Untouched(old, disk, c.inum)
    BY <1>1, <1>2, CreateLeaves
  <2>2. \A n, i : Leads(disk, c.inum, n, i) <=> Leads(old, c.inum, n, i)
    BY <1>1, <2>1, UntouchedLeads DEF Sound
  <2>3. InodesOf(disk)[c.inum].type = Now!UFS_DIRECTORY
    BY <1>1, <2>1, ImConstants DEF Im!IsDirectory, Untouched
  <2> QED BY <2>2, <2>3, NameIsNew
<1>3. CASE \/ c.at = "parent" /\ ~Im(old)!NeedsBlock(c.inum)
           \/ c.at \in {"init", "commit"}
  <2>1. PICK p, k : p = c.inum /\ k = Im(old)!CreatePosition(p)
    OBVIOUS
  <2>2. /\ k \in Im(disk)!Positions(p) /\ Im(disk)!EntryAt(p, k) = Now!Entry(c.name, c.new)
        /\ \A j \in Im(old)!Positions(p) : j # k =>
             j \in Im(disk)!Positions(p) /\ Im(disk)!EntryAt(p, j) = Im(old)!EntryAt(p, j)
        /\ \A j \in Im(disk)!Positions(p) :
             j = k \/ j \in Im(old)!Positions(p) \/ Im(disk)!EntryAt(p, j).inum = -1
        /\ k \in Im(old)!Positions(p) => Im(old)!EntryAt(p, k).inum = -1
        /\ InodesOf(disk)[p].type = Now!UFS_DIRECTORY
    BY <1>3, <2>1, CreateEntries
  <2>3. Im(disk)!EntryAt(p, k).name = c.name /\ Im(disk)!EntryAt(p, k).inum = c.new
    BY <2>2 DEF Now!Entry
  <2>4. ASSUME NEW n \in Names \ {c.name}, NEW i, Leads(disk, p, n, i) PROVE Leads(old, p, n, i)
    BY <2>2, <2>3, <2>4 DEF Leads
  <2>5. ASSUME NEW n \in Names \ {c.name}, NEW i, Leads(old, p, n, i) PROVE Leads(disk, p, n, i)
    BY <2>2, <2>5 DEF Leads
  <2>6. ASSUME NEW i, Leads(disk, p, c.name, i) PROVE i = c.new
    <3>1. Leads(old, p, c.name, i) \/ i = c.new
      BY <2>2, <2>3, <2>6 DEF Leads
    <3> QED BY <2>1, <3>1, NameIsNew
  <2>7. c.new # None
    <3>1. CreateTook(old, c)
      BY DEF CreateFits
    <3>2. Lowest(c.new, Now!Inode \ View(old).ib)
      BY <1>3, <3>1 DEF CreateTook
    <3> QED BY <3>2, NoneIsNone DEF Lowest
  <2> QED BY <1>1, <2>1, <2>2, <2>4, <2>5, <2>6, <2>7
<1> QED BY <1>2, <1>3

LEMMA CreateKeeps ==
  ASSUME NEW old, Sound(old), Tidy(old), NEW c \in CreateCall, NEW disk, CreateFits(old, c, View(disk))
  PROVE  Keeps(old, c, disk)
<1>1. /\ c.inum \in old[inode_bitmap_addr] /\ Im(old)!IsDirectory(c.inum)
      /\ old[inode_bitmap_addr] \subseteq disk[inode_bitmap_addr]
  BY CreateParts
<1>2. Target(c) = {} /\ c.op = "create"
  BY DEF Target, CreateCall
<1>3. Known(old, c)
  BY <1>1 DEF Known
<1>4. \A i \in old[inode_bitmap_addr] \ {c.inum} : Untouched(old, disk, i)
  BY CreateLeaves
<1>5. /\ InodesOf(disk)[c.inum].type = Now!UFS_DIRECTORY
      /\ \A n \in Names \ {c.name} :
            \A i : Leads(disk, c.inum, n, i) <=> Leads(old, c.inum, n, i)
      /\ \A i : Leads(disk, c.inum, c.name, i) =>
           i \in Now!Inode \cap disk[inode_bitmap_addr] /\ i \notin old[inode_bitmap_addr]
  BY CreateNames
<1> QED BY <1>1, <1>2, <1>3, <1>4, <1>5 DEF Keeps
-----------------------------------------------------------------------------
(* write.                                                                  *)

\* The blocks write changes are its own or free.
LEMMA WriteTouches ==
  ASSUME NEW old, Sound(old), NEW c \in WriteCall, WriteChecked(old, c), WriteTook(old, c),
         NEW i \in old[inode_bitmap_addr] \ {c.inum},
         NEW x \in 0 .. Now!Blocks(InodesOf(old)[i].size) - 1,
         NEW b, b = InodesOf(old)[i].direct[x]
  PROVE  /\ b \in old[data_bitmap_addr] /\ b \in Now!DataBlock
         /\ \A y \in WriteGiven(old, c) : InodesOf(old)[c.inum].direct[y] # b
         /\ \A y \in WriteFilled(old, c) : c.inode.direct[y] # b
<1>1. PICK now, cnt : now = Now!Blocks(InodesOf(old)[c.inum].size) /\ cnt = Now!Blocks(c.size)
  OBVIOUS
<1>2. /\ c.inum \in old[inode_bitmap_addr]
      /\ now \in Nat /\ now <= DIRECT_PTRS /\ cnt \in Nat /\ 0 < cnt /\ cnt <= DIRECT_PTRS
  BY <1>1, FileOfWrite
<1>3. b \in old[data_bitmap_addr] /\ b \in Now!DataBlock
  BY BlocksOfInode
<1>4. ASSUME NEW y \in 0 .. now - 1 PROVE InodesOf(old)[c.inum].direct[y] # b
  <2>1. y \in Nat /\ y < now
    BY <1>2
  <2>2. x \in Nat /\ x < Now!Blocks(InodesOf(old)[i].size)
    BY BlocksOfInode
  <2> QED BY <1>1, <1>2, <2>1, <2>2 DEF Sound, Owned
<1>5. ASSUME NEW y \in WriteGiven(old, c) PROVE InodesOf(old)[c.inum].direct[y] # b
  <2>1. y \in cnt .. (IF c.at = "free" THEN c.x ELSE now) - 1
    BY <1>1 DEF WriteGiven
  <2>2. c.at = "free" => c.x < now
    BY <1>1 DEF WriteChecked
  <2>3. c.x \in Nat
    BY DEF WriteCall
  <2>4. y \in 0 .. now - 1
    BY <1>2, <2>1, <2>2, <2>3
  <2> QED BY <1>4, <2>4
<1>6. ASSUME NEW y \in WriteFilled(old, c) PROVE c.inode.direct[y] # b
  <2>1. c.at \in {"data", "commit"} /\ y \in 0 .. cnt - 1
    <3>1. CASE c.at = "data"
      <4>1. y \in 0 .. c.x - 1 /\ c.x < cnt /\ c.x \in Nat
        BY <1>1, <3>1 DEF WriteFilled, WriteChecked, WriteCall
      <4> QED BY <1>2, <3>1, <4>1
    <3>2. CASE c.at = "commit"
      BY <1>1, <3>2 DEF WriteFilled
    <3>3. CASE c.at \notin {"data", "commit"}
      BY <3>3 DEF WriteFilled
    <3> QED BY <3>1, <3>2, <3>3
  <2>2. /\ WriteTaken(old, c) = now .. cnt - 1
        /\ WriteGiven(old, c) = cnt .. now - 1
    BY <1>1, <2>1 DEF WriteTaken, WriteGiven
  <2>3. CASE y \in WriteTaken(old, c)
    BY <1>3, <2>3 DEF WriteTook
  <2>4. CASE y \notin WriteTaken(old, c)
    <3>1. y \in 0 .. now - 1 /\ y \notin WriteGiven(old, c)
      BY <1>2, <2>1, <2>2, <2>4
    <3>2. y \in Now!Index
      BY <1>2, <3>1, SizesAssumption DEF Now!Index
    <3>3. c.inode.direct[y] = InodesOf(old)[c.inum].direct[y]
      BY <2>4, <3>1, <3>2 DEF WriteTook
    <3> QED BY <1>4, <3>1, <3>3
  <2> QED BY <2>3, <2>4
<1> QED BY <1>3, <1>5, <1>6

LEMMA WriteKeeps ==
  ASSUME NEW old, Sound(old), NEW c \in WriteCall, NEW disk, WriteFits(old, c, View(disk))
  PROVE  Keeps(old, c, disk)
<1>1. PICK v : v = View(disk)
  OBVIOUS
<1>2. /\ v.ib = disk[inode_bitmap_addr] /\ v.db = disk[data_bitmap_addr]
      /\ v.nodes = InodesOf(disk) /\ v.data = DataOf(disk)
  BY <1>1 DEF View
<1>3. WriteFits(old, c, v)
  BY <1>1
<1>4. WriteChecked(old, c) /\ WriteTook(old, c)
  BY <1>3 DEF WriteFits
<1>5. /\ disk[inode_bitmap_addr] = old[inode_bitmap_addr]
      /\ disk[data_bitmap_addr] =
           (old[data_bitmap_addr] \cup {c.inode.direct[y] : y \in WriteTaken(old, c)})
             \ {InodesOf(old)[c.inum].direct[y] : y \in WriteGiven(old, c)}
      /\ InodesOf(disk) = WriteNodes(old, c)
      /\ WriteData1(old, c, DataOf(disk))
  BY <1>2, <1>3 DEF WriteFits
<1>6. Target(c) = {} /\ c.op = "write"
  BY DEF Target, WriteCall
<1>7. Known(old, c)
  BY <1>4 DEF Known, WriteChecked
<1>8. ASSUME NEW i \in old[inode_bitmap_addr] \ {c.inum} PROVE Untouched(old, disk, i)
  <2>1. i \in Now!Inode
    BY DEF Sound, Typed
  <2>2. InodesOf(disk)[i] = InodesOf(old)[i]
    BY <1>5, <2>1 DEF WriteNodes, InodesOf, Now!Inode
  <2>3. ASSUME NEW x \in 0 .. Now!Blocks(InodesOf(old)[i].size) - 1,
               NEW b, b = InodesOf(old)[i].direct[x]
        PROVE  DataOf(disk)[b] = DataOf(old)[b] /\ b \in disk[data_bitmap_addr]
    <3>1. /\ b \in old[data_bitmap_addr] /\ b \in Now!DataBlock
          /\ \A y \in WriteGiven(old, c) : InodesOf(old)[c.inum].direct[y] # b
          /\ \A y \in WriteFilled(old, c) : c.inode.direct[y] # b
      BY <1>4, <2>3, WriteTouches
    <3>2. DataOf(disk)[b] = DataOf(old)[b]
      BY <1>5, <3>1 DEF WriteData1
    <3>3. b \in disk[data_bitmap_addr]
      BY <1>5, <3>1
    <3> QED BY <3>2, <3>3
  <2> QED BY <2>2, <2>3 DEF Untouched, BlocksInUse
<1> QED BY <1>5, <1>6, <1>7, <1>8 DEF Keeps
-----------------------------------------------------------------------------
(* unlink.                                                                 *)

\* An entry of the parent after the compaction.
LEMMA CompactedIs ==
  ASSUME NEW old, NEW p, NEW e \in Nat, NEW k \in Nat, InodesOf(old)[p].size \in Nat
  PROVE  /\ InodesOf(old)[p].size <= k => Im(old)!Compacted(p, e, k) = Im(old)!EntryAt(p, k)
         /\ k < e /\ e < InodesOf(old)[p].size =>
              Im(old)!Compacted(p, e, k) = Im(old)!EntryAt(p, k)
         /\ e <= k /\ k + 1 < InodesOf(old)[p].size =>
              Im(old)!Compacted(p, e, k) = Im(old)!EntryAt(p, k + 1)
         /\ k + 1 = InodesOf(old)[p].size => Im(old)!Compacted(p, e, k).inum = -1
<1>1. PICK last : last = InodesOf(old)[p].size - 1
  OBVIOUS
<1>2. Im(old)!Compacted(p, e, k) =
        IF k \in e .. last - 1 THEN Im(old)!EntryAt(p, k + 1)
        ELSE IF k = last THEN Im(old)!Entry(Im(old)!EntryAt(p, k).name, -1)
        ELSE Im(old)!EntryAt(p, k)
  BY <1>1 DEF Im!Compacted
<1>3. Im(old)!Entry(Im(old)!EntryAt(p, k).name, -1).inum = -1
  BY DEF Im!Entry
<1>4. k \in e .. last - 1 <=> e <= k /\ k + 1 < InodesOf(old)[p].size
  BY <1>1
<1>5. k = last <=> k + 1 = InodesOf(old)[p].size
  BY <1>1
<1> QED BY <1>2, <1>3, <1>4, <1>5

\* The entries of the parent when its first m blocks are written.
LEMMA UnlinkEntries ==
  ASSUME NEW old, Sound(old), Tidy(old), NEW c \in UnlinkCall, c.at \notin {"find", "fail", "rollback"},
         NEW disk, UnlinkFits(old, c, View(disk)),
         NEW p, p = c.inum,
         NEW e, e = Min(Im(old)!UnlinkHits(p, c.name)),
         NEW before, before = Now!Blocks(InodesOf(old)[p].size),
         NEW after, after = Shorter(old, p)
  PROVE  \E m \in Nat, r \in Nat :
           /\ m <= after
           /\ Im(disk)!Positions(p) = 0 .. r * UFS_BLOCK_SIZE - 1
           /\ c.at \in {"compact", "shrink", "shorten"} => r = before
           /\ c.at \notin {"compact", "shrink", "shorten"} => r = after /\ m = after
           /\ \A k \in 0 .. r * UFS_BLOCK_SIZE - 1 :
                /\ k \div UFS_BLOCK_SIZE < m => Im(disk)!EntryAt(p, k) = Im(old)!Compacted(p, e, k)
                /\ ~(k \div UFS_BLOCK_SIZE < m) => Im(disk)!EntryAt(p, k) = Im(old)!EntryAt(p, k)
<1>1. PICK v : v = View(disk)
  OBVIOUS
<1>2. v.nodes = InodesOf(disk) /\ v.data = DataOf(disk)
  BY <1>1 DEF View
<1>3. UnlinkFits(old, c, v)
  BY <1>1
<1>4. /\ UnlinkChecked(old, c)
      /\ UnlinkData(old, c, DataOf(disk))
      /\ InodesOf(disk) = IF c.at \in {"bits", "bit", "commit"}
                          THEN [InodesOf(old) EXCEPT ![p] = Im(old)!Shortened(p)]
                          ELSE InodesOf(old)
  BY <1>2, <1>3 DEF UnlinkFits
<1>5. /\ p \in old[inode_bitmap_addr] /\ e \in Nat
      /\ InodesOf(old)[p].size \in Nat /\ InodesOf(old)[p].size >= 2
      /\ before \in Nat /\ after \in Nat /\ 0 < after /\ after <= before /\ before <= after + 1
      /\ before <= DIRECT_PTRS
  BY <1>4, TargetOfUnlink
<1>6. PICK m : m = IF c.at = "compact" THEN c.x ELSE after
  OBVIOUS
<1>7. m \in Nat /\ m <= after /\ UnlinkMoved(old, c) = 0 .. m - 1
  <2>1. c.x \in Nat
    BY DEF UnlinkCall
  <2>2. c.at = "compact" => c.x < after
    BY <1>4 DEF UnlinkChecked
  <2>3. UnlinkMoved(old, c) = 0 .. m - 1
    BY <1>6 DEF UnlinkMoved
  <2> QED BY <1>5, <1>6, <2>1, <2>2, <2>3
<1>8. /\ InodesOf(old)[p] \in Now!InodeRecord
      /\ \A y \in 0 .. before - 1 :
           /\ InodesOf(old)[p].direct[y] \in Now!DataBlock
           /\ \A z \in 0 .. before - 1 :
                InodesOf(old)[p].direct[y] = InodesOf(old)[p].direct[z] => y = z
  BY <1>5, BlocksOfInode
<1>9. c.at \in {"compact", "shrink", "shorten"} \/ c.at \in {"bits", "bit", "commit"}
  BY DEF UnlinkCall
<1>10. PICK r : r = IF c.at \in {"bits", "bit", "commit"} THEN after ELSE before
  OBVIOUS
<1>11. /\ r \in Nat /\ r <= before
       /\ Now!Blocks(InodesOf(disk)[p].size) = r
       /\ \A x \in 0 .. r - 1 : InodesOf(disk)[p].direct[x] = InodesOf(old)[p].direct[x]
  <2>1. CASE c.at \in {"bits", "bit", "commit"}
    <3>1. PICK s : s = Im(old)!Shortened(p)
      OBVIOUS
    <3>2. InodesOf(disk)[p] = s
      <4>1. p \in DOMAIN InodesOf(old)
        BY <1>5 DEF Sound, Typed
      <4> QED BY <1>4, <2>1, <3>1, <4>1
    <3>3. /\ s.size = InodesOf(old)[p].size - 1
          /\ s.direct = IF before # after THEN [InodesOf(old)[p].direct EXCEPT ![after] = Now!Unset]
                        ELSE InodesOf(old)[p].direct
      BY <3>1, ImConstants DEF Im!Shortened, Shorter
    <3>4. Now!Blocks(s.size) = after
      BY <3>3 DEF Shorter
    <3>5. InodesOf(old)[p].direct \in [Now!Index -> Now!Pointer]
      BY <1>8 DEF Now!InodeRecord
    <3>6. ASSUME NEW x \in 0 .. after - 1 PROVE s.direct[x] = InodesOf(old)[p].direct[x]
      <4>1. x # after /\ x \in Now!Index
        BY <1>5, SizesAssumption DEF Now!Index
      <4> QED BY <3>3, <3>5, <4>1
    <3> QED BY <1>5, <1>10, <2>1, <3>2, <3>4, <3>6
  <2>2. CASE c.at \notin {"bits", "bit", "commit"}
    BY <1>4, <1>5, <1>10, <2>2
  <2> QED BY <2>1, <2>2
<1>12. Im(disk)!Positions(p) = 0 .. r * UFS_BLOCK_SIZE - 1
  BY <1>11, ImConstants DEF Im!Positions
<1>13. ASSUME NEW k \in 0 .. r * UFS_BLOCK_SIZE - 1
       PROVE  /\ k \div UFS_BLOCK_SIZE < m => Im(disk)!EntryAt(p, k) = Im(old)!Compacted(p, e, k)
              /\ ~(k \div UFS_BLOCK_SIZE < m) => Im(disk)!EntryAt(p, k) = Im(old)!EntryAt(p, k)
  <2>1. PICK x, s : x = k \div UFS_BLOCK_SIZE /\ s = k % UFS_BLOCK_SIZE
    OBVIOUS
  <2>2. k \in Nat /\ x \in 0 .. r - 1 /\ s \in Now!Slot
    BY <1>11, <2>1, PositionInBlock
  <2>3. PICK b : b = InodesOf(old)[p].direct[x]
    OBVIOUS
  <2>4. /\ Im(disk)!EntryAt(p, k) = DataOf(disk)[b][s]
        /\ Im(old)!EntryAt(p, k) = DataOf(old)[b][s]
    BY <1>11, <2>1, <2>2, <2>3 DEF Im!EntryAt
  <2>5. x \in 0 .. before - 1 /\ b \in Now!DataBlock
    BY <1>5, <1>8, <1>11, <2>2, <2>3
  <2>6. CASE x < m
    <3>1. DataOf(disk)[b] = Im(old)!CompactedBlock(p, e, x)
      <4>1. x \in UnlinkMoved(old, c)
        BY <1>7, <2>2, <2>6
      <4> QED BY <1>4, <2>3, <4>1 DEF UnlinkData
    <3>2. Im(old)!CompactedBlock(p, e, x)[s] = Im(old)!Compacted(p, e, x * UFS_BLOCK_SIZE + s)
      BY <2>2, ImConstants DEF Im!CompactedBlock
    <3>3. x * UFS_BLOCK_SIZE + s = k
      <4>1. UFS_BLOCK_SIZE \in Nat \ {0}
        BY SizesAssumption
      <4>2. k = UFS_BLOCK_SIZE * x + s /\ x \in Nat
        BY <2>1, <2>2, <4>1, Assumptions, L!Division
      <4> QED BY <4>1, <4>2
    <3> QED BY <2>1, <2>4, <2>6, <3>1, <3>2, <3>3
  <2>7. CASE ~(x < m)
    <3>1. ASSUME NEW y \in UnlinkMoved(old, c) PROVE InodesOf(old)[p].direct[y] # b
      <4>1. y \in 0 .. m - 1 /\ y \in 0 .. before - 1 /\ y # x
        BY <1>5, <1>7, <2>2, <2>7
      <4> QED BY <1>8, <2>3, <2>5, <4>1
    <3>2. DataOf(disk)[b] = DataOf(old)[b]
      BY <1>4, <2>5, <3>1 DEF UnlinkData
    <3> QED BY <2>1, <2>4, <2>7, <3>2
  <2> QED BY <2>6, <2>7
<1>14. /\ c.at \in {"compact", "shrink", "shorten"} => r = before
       /\ c.at \in {"bits", "bit", "commit"} => r = after /\ m = after
  BY <1>6, <1>10
<1> QED BY <1>7, <1>9, <1>11, <1>12, <1>13, <1>14

\* Where the entries of a parent whose first m blocks are written come from.
LEMMA CompactedFrom ==
  ASSUME NEW old, Tidy(old), NEW p, Im(old)!IsDirectory(p),
         NEW e \in Nat, e < InodesOf(old)[p].size,
         NEW k \in Im(old)!Positions(p), NEW x, x = Im(old)!Compacted(p, e, k), x.inum # -1
  PROVE  \E j \in Nat : /\ j < InodesOf(old)[p].size /\ j # e
                        /\ j \in Im(old)!Positions(p) /\ x = Im(old)!EntryAt(p, j)
<1>1. /\ k \in Nat /\ InodesOf(old)[p].size \in Nat
      /\ \A j \in Nat : j < InodesOf(old)[p].size => j \in Im(old)!Positions(p)
  BY DEF Tidy
<1>2. k < InodesOf(old)[p].size
  <2> SUFFICES ASSUME ~(k < InodesOf(old)[p].size) PROVE FALSE
    OBVIOUS
  <2>1. InodesOf(old)[p].size <= k
    BY <1>1
  <2>2. x = Im(old)!EntryAt(p, k)
    BY <1>1, <2>1, CompactedIs
  <2> QED BY <2>2 DEF Tidy
<1>3. CASE k < e
  BY <1>1, <1>2, <1>3, CompactedIs
<1>4. CASE e <= k /\ k + 1 < InodesOf(old)[p].size
  <2>1. PICK j \in Nat : j = k + 1
    BY <1>1
  <2>2. j # e /\ j < InodesOf(old)[p].size
    BY <1>1, <1>4, <2>1
  <2>3. x = Im(old)!EntryAt(p, j)
    BY <1>1, <1>4, <2>1, CompactedIs
  <2> QED BY <1>1, <2>2, <2>3
<1>5. CASE k + 1 = InodesOf(old)[p].size
  BY <1>1, <1>5, CompactedIs
<1> QED BY <1>1, <1>2, <1>3, <1>4, <1>5

\* The names of the parent: all but the one to remove are kept throughout.
LEMMA UnlinkNames ==
  ASSUME NEW old, Sound(old), Tidy(old), NEW c \in UnlinkCall, c.at \notin {"find", "fail", "rollback"},
         NEW disk, UnlinkFits(old, c, View(disk))
  PROVE  /\ \A n \in Names \ {c.name} :
            \A i : Leads(disk, c.inum, n, i) <=> Leads(old, c.inum, n, i)
         /\ \A i : Leads(disk, c.inum, c.name, i) =>
              c.at \in {"compact", "shrink", "shorten"} /\ i = c.new
<1>1. PICK p, e, before, after :
        /\ p = c.inum /\ e = Min(Im(old)!UnlinkHits(p, c.name))
        /\ before = Now!Blocks(InodesOf(old)[p].size) /\ after = Shorter(old, p)
  OBVIOUS
<1>2. UnlinkChecked(old, c)
  BY DEF UnlinkFits
<1>3. /\ InodesOf(old)[p].size \in Nat /\ InodesOf(old)[p].size >= 2
      /\ before \in Nat /\ after \in Nat /\ after <= before
  BY <1>1, <1>2, TargetOfUnlink
<1>4. /\ Im(old)!IsDirectory(p)
      /\ e \in Nat /\ e < InodesOf(old)[p].size
      /\ Im(old)!EntryAt(p, e).name = c.name /\ Im(old)!EntryAt(p, e).inum = c.new
      /\ \A k \in Nat : /\ k < InodesOf(old)[p].size /\ Im(old)!EntryAt(p, k).name = c.name
                        => k = e
  <2>1. /\ Im(old)!UnlinkReturn(p, c.name) = 0
        /\ c.new = Im(old)!EntryAt(p, e).inum
        /\ p \in Now!Inode /\ c.name \in Names \cup {LongName}
    BY <1>1, <1>2 DEF UnlinkChecked, UnlinkCall
  <2>2. PICK n, t : n = c.name /\ t = c.new
    OBVIOUS
  <2>3. /\ Im(old)!UnlinkReturn(p, n) = 0 /\ e = Min(Im(old)!UnlinkHits(p, n))
        /\ t = Im(old)!EntryAt(p, e).inum /\ n \in Names \cup {LongName}
    BY <1>1, <2>1, <2>2
  <2>4. /\ Im(old)!IsDirectory(p)
        /\ e \in Nat /\ e < InodesOf(old)[p].size
        /\ Im(old)!EntryAt(p, e).name = n
        /\ \A k \in Nat : /\ k < InodesOf(old)[p].size /\ Im(old)!EntryAt(p, k).name = n
                          => k = e
    BY <2>1, <2>3, FoundEntry
  <2> QED BY <2>1, <2>2, <2>4
<1>5. PICK m \in Nat, r \in Nat :
        /\ m <= after
        /\ Im(disk)!Positions(p) = 0 .. r * UFS_BLOCK_SIZE - 1
        /\ c.at \in {"compact", "shrink", "shorten"} => r = before
        /\ c.at \notin {"compact", "shrink", "shorten"} => r = after /\ m = after
        /\ \A k \in 0 .. r * UFS_BLOCK_SIZE - 1 :
             /\ k \div UFS_BLOCK_SIZE < m => Im(disk)!EntryAt(p, k) = Im(old)!Compacted(p, e, k)
             /\ ~(k \div UFS_BLOCK_SIZE < m) => Im(disk)!EntryAt(p, k) = Im(old)!EntryAt(p, k)
  BY <1>1, UnlinkEntries
<1>6. /\ r * UFS_BLOCK_SIZE \in Nat /\ before * UFS_BLOCK_SIZE \in Nat /\ after * UFS_BLOCK_SIZE \in Nat
      /\ after * UFS_BLOCK_SIZE <= r * UFS_BLOCK_SIZE /\ r * UFS_BLOCK_SIZE <= before * UFS_BLOCK_SIZE
      /\ InodesOf(old)[p].size - 1 <= after * UFS_BLOCK_SIZE
      /\ InodesOf(old)[p].size <= before * UFS_BLOCK_SIZE
      /\ Im(old)!Positions(p) = 0 .. before * UFS_BLOCK_SIZE - 1
  <2>1. UFS_BLOCK_SIZE \in Nat /\ UFS_BLOCK_SIZE >= 2
    BY SizesAssumption
  <2>2. /\ r * UFS_BLOCK_SIZE \in Nat /\ before * UFS_BLOCK_SIZE \in Nat
        /\ after * UFS_BLOCK_SIZE \in Nat /\ after * UFS_BLOCK_SIZE <= before * UFS_BLOCK_SIZE
    BY <1>3, <2>1
  <2>3. r = after \/ r = before
    BY <1>5
  <2>4. InodesOf(old)[p].size - 1 \in Nat
    BY <1>3
  <2>5. InodesOf(old)[p].size - 1 <= after * UFS_BLOCK_SIZE
    BY <1>1, <1>3, <2>4, BlocksBound DEF Shorter
  <2>6. InodesOf(old)[p].size <= before * UFS_BLOCK_SIZE
    BY <1>1, <1>3, BlocksBound
  <2>7. Im(old)!Positions(p) = 0 .. before * UFS_BLOCK_SIZE - 1
    BY <1>1, ImConstants DEF Im!Positions
  <2> QED BY <2>2, <2>3, <2>5, <2>6, <2>7
<1>7. \A k \in Im(disk)!Positions(p) : k \in Nat /\ k \in Im(old)!Positions(p)
  BY <1>5, <1>6
\* Each entry comes from one below the size, and only while there are blocks to
\* write from the one to remove.
<1>8. ASSUME NEW n, NEW i, Leads(disk, p, n, i)
      PROVE  \E j \in Nat : /\ j < InodesOf(old)[p].size /\ j \in Im(old)!Positions(p)
                            /\ Im(old)!EntryAt(p, j).inum = i /\ Im(old)!EntryAt(p, j).name = n
                            /\ c.at \notin {"compact", "shrink", "shorten"} => j # e
  <2>1. PICK k \in Im(disk)!Positions(p) :
          i # -1 /\ Im(disk)!EntryAt(p, k).inum = i /\ Im(disk)!EntryAt(p, k).name = n
    BY <1>8 DEF Leads
  <2>2. k \in Nat /\ k \in Im(old)!Positions(p) /\ k \in 0 .. r * UFS_BLOCK_SIZE - 1
    BY <1>5, <1>7
  <2>3. CASE k \div UFS_BLOCK_SIZE < m
    <3>1. PICK x : x = Im(old)!Compacted(p, e, k)
      OBVIOUS
    <3>2. x.inum = i /\ x.name = n /\ x.inum # -1
      BY <1>5, <2>1, <2>2, <2>3, <3>1
    <3>3. PICK j \in Nat : /\ j < InodesOf(old)[p].size /\ j # e
                           /\ j \in Im(old)!Positions(p) /\ x = Im(old)!EntryAt(p, j)
      BY <1>4, <2>2, <3>1, <3>2, CompactedFrom
    <3> QED BY <3>2, <3>3
  <2>4. CASE ~(k \div UFS_BLOCK_SIZE < m)
    <3>1. Im(old)!EntryAt(p, k).inum = i /\ Im(old)!EntryAt(p, k).name = n
      BY <1>5, <2>1, <2>2, <2>4
    <3>2. k < InodesOf(old)[p].size
      BY <1>4, <2>1, <2>2, <3>1 DEF Tidy
    <3>3. c.at \in {"compact", "shrink", "shorten"}
      <4>1. ASSUME m = after /\ r = after PROVE FALSE
        <5>1. UFS_BLOCK_SIZE \in Nat \ {0} /\ k < after * UFS_BLOCK_SIZE
          BY <1>6, <2>2, <4>1, SizesAssumption
        <5>2. k \div UFS_BLOCK_SIZE < after
          BY <1>3, <2>2, <5>1, Assumptions, L!DivBelow
        <5> QED BY <2>4, <4>1, <5>2
      <4> QED BY <1>5, <4>1
    <3> QED BY <2>2, <3>1, <3>2, <3>3
  <2> QED BY <2>3, <2>4
<1>9. ASSUME NEW n \in Names \ {c.name}, NEW i, Leads(disk, p, n, i) PROVE Leads(old, p, n, i)
  <2>1. i # -1
    BY <1>9 DEF Leads
  <2> QED BY <1>8, <1>9, <2>1 DEF Leads
<1>10. ASSUME NEW i, Leads(disk, p, c.name, i)
       PROVE  c.at \in {"compact", "shrink", "shorten"} /\ i = c.new
  BY <1>4, <1>8, <1>10
<1>11. ASSUME NEW n \in Names \ {c.name}, NEW i, Leads(old, p, n, i) PROVE Leads(disk, p, n, i)
  <2>1. PICK j \in Nat : /\ j < InodesOf(old)[p].size
                         /\ Im(old)!EntryAt(p, j).inum = i /\ Im(old)!EntryAt(p, j).name = n
    BY <1>4, <1>11, OneLead
  <2>2. i # -1 /\ j # e
    BY <1>4, <1>11, <2>1 DEF Leads
  <2>3. CASE j < e
    <3>1. j \in 0 .. r * UFS_BLOCK_SIZE - 1
      BY <1>3, <1>4, <1>6, <2>1, <2>3
    <3>2. Im(old)!Compacted(p, e, j) = Im(old)!EntryAt(p, j)
      BY <1>3, <1>4, <2>3, CompactedIs
    <3>3. Im(disk)!EntryAt(p, j) = Im(old)!EntryAt(p, j)
      BY <1>5, <3>1, <3>2
    <3> QED BY <1>5, <2>1, <2>2, <3>1, <3>3 DEF Leads
  <2>4. CASE e < j
    <3>1. PICK k \in Nat : j = k + 1
      <4>1. j - 1 \in Nat /\ j = (j - 1) + 1
        BY <1>4, <2>1, <2>4
      <4> QED BY <4>1
    <3>2. k \in 0 .. r * UFS_BLOCK_SIZE - 1 /\ e <= k /\ k + 1 < InodesOf(old)[p].size
      BY <1>3, <1>4, <1>6, <2>1, <2>4, <3>1
    <3>3. CASE k \div UFS_BLOCK_SIZE < m
      <4>1. Im(disk)!EntryAt(p, k) = Im(old)!Compacted(p, e, k)
        BY <1>5, <3>2, <3>3
      <4>2. Im(old)!Compacted(p, e, k) = Im(old)!EntryAt(p, j)
        BY <1>3, <1>4, <3>1, <3>2, CompactedIs
      <4> QED BY <1>5, <2>1, <2>2, <3>2, <4>1, <4>2 DEF Leads
    <3>4. CASE ~(k \div UFS_BLOCK_SIZE < m)
      <4>1. UFS_BLOCK_SIZE \in Nat \ {0} /\ m * UFS_BLOCK_SIZE \in Nat
        BY SizesAssumption
      <4>2. ~(k < m * UFS_BLOCK_SIZE)
        BY <3>4, <4>1, Assumptions, L!DivBelow
      <4>3. ~(j < m * UFS_BLOCK_SIZE)
        BY <3>1, <4>1, <4>2
      <4>4. ~(j \div UFS_BLOCK_SIZE < m)
        BY <4>1, <4>3, Assumptions, L!DivBelow
      <4>5. c.at \in {"compact", "shrink", "shorten"}
        <5>1. ASSUME m = after /\ r = after PROVE FALSE
          BY <1>6, <3>2, <4>2, <5>1
        <5> QED BY <1>5, <5>1
      <4>6. j \in 0 .. r * UFS_BLOCK_SIZE - 1
        BY <1>3, <1>5, <1>6, <2>1, <4>5
      <4>7. Im(disk)!EntryAt(p, j) = Im(old)!EntryAt(p, j)
        BY <1>5, <4>4, <4>6
      <4> QED BY <1>5, <2>1, <2>2, <4>6, <4>7 DEF Leads
    <3> QED BY <3>3, <3>4
  <2> QED BY <1>4, <2>1, <2>2, <2>3, <2>4
<1> QED BY <1>1, <1>9, <1>10, <1>11

LEMMA UnlinkLeaves ==
  ASSUME NEW old, Sound(old), NEW c \in UnlinkCall, c.at \notin {"fail", "rollback"},
         c.at = "find" => c.new = None,
         NEW disk, UnlinkFits(old, c, View(disk)),
         NEW i \in old[inode_bitmap_addr], i # c.inum \/ c.at = "find",
         i # c.new \/ c.at \in {"compact", "shrink", "shorten"}
  PROVE  Untouched(old, disk, i)
<1>1. PICK v : v = View(disk)
  OBVIOUS
<1>2. /\ v.ib = disk[inode_bitmap_addr] /\ v.db = disk[data_bitmap_addr]
      /\ v.nodes = InodesOf(disk) /\ v.data = DataOf(disk)
  BY <1>1 DEF View
<1>3. UnlinkFits(old, c, v)
  BY <1>1
<1>4. /\ UnlinkChecked(old, c)
      /\ disk[data_bitmap_addr] = old[data_bitmap_addr] \ (UnlinkCut(old, c) \cup UnlinkGone(old, c))
      /\ UnlinkData(old, c, DataOf(disk))
      /\ InodesOf(disk) = IF c.at \in {"bits", "bit", "commit"}
                          THEN [InodesOf(old) EXCEPT ![c.inum] = Im(old)!Shortened(c.inum)]
                          ELSE InodesOf(old)
  BY <1>2, <1>3 DEF UnlinkFits
<1>5. i \in Now!Inode
  BY DEF Sound, Typed
<1>6. InodesOf(disk)[i] = InodesOf(old)[i]
  BY <1>4, <1>5 DEF InodesOf, Now!Inode
<1>7. /\ Now!Blocks(InodesOf(old)[i].size) \in Nat
      /\ \A x \in 0 .. Now!Blocks(InodesOf(old)[i].size) - 1 :
           InodesOf(old)[i].direct[x] \in old[data_bitmap_addr] \cap Now!DataBlock
  BY BlocksOfInode
<1>8. ASSUME NEW x \in 0 .. Now!Blocks(InodesOf(old)[i].size) - 1,
             NEW b, b = InodesOf(old)[i].direct[x],
             NEW j \in old[inode_bitmap_addr] \ {i}, NEW y \in Nat,
             y < Now!Blocks(InodesOf(old)[j].size)
      PROVE  InodesOf(old)[j].direct[y] # b
  <2>1. x \in Nat /\ x < Now!Blocks(InodesOf(old)[i].size)
    BY <1>7
  <2> QED BY <1>8, <2>1 DEF Sound, Owned
<1>9. ASSUME c.at # "find", NEW x \in 0 .. Now!Blocks(InodesOf(old)[i].size) - 1,
             NEW b, b = InodesOf(old)[i].direct[x]
      PROVE  /\ \A y \in UnlinkMoved(old, c) : InodesOf(old)[c.inum].direct[y] # b
             /\ b \notin UnlinkCut(old, c) /\ b \notin UnlinkGone(old, c)
  <2>1. PICK before, after : /\ before = Now!Blocks(InodesOf(old)[c.inum].size)
                             /\ after = Shorter(old, c.inum)
    OBVIOUS
  <2>2. /\ c.inum \in old[inode_bitmap_addr] /\ c.new \in old[inode_bitmap_addr]
        /\ before \in Nat /\ after \in Nat /\ after <= before
    <3>1. PICK e : e = Min(Im(old)!UnlinkHits(c.inum, c.name))
      OBVIOUS
    <3> QED BY <1>4, <1>9, <2>1, <3>1, TargetOfUnlink
  <2>3. \A y \in 0 .. before - 1 : InodesOf(old)[c.inum].direct[y] # b
    <3>1. ASSUME NEW y \in 0 .. before - 1 PROVE InodesOf(old)[c.inum].direct[y] # b
      <4>1. y \in Nat /\ y < Now!Blocks(InodesOf(old)[c.inum].size)
        BY <2>1, <2>2
      <4>2. c.inum \in old[inode_bitmap_addr] \ {i}
        BY <1>9, <2>2
      <4> QED BY <1>8, <1>9, <4>1, <4>2
    <3> QED BY <3>1
  <2>4. c.x \in Nat
    BY DEF UnlinkCall
  <2>5. ASSUME NEW y \in UnlinkMoved(old, c) PROVE y \in 0 .. before - 1
    <3>1. CASE c.at = "compact"
      <4>1. y \in 0 .. c.x - 1 /\ c.x < after
        BY <1>4, <2>1, <3>1 DEF UnlinkMoved, UnlinkChecked
      <4> QED BY <2>2, <2>4, <4>1
    <3>2. CASE c.at # "compact"
      <4>1. y \in 0 .. after - 1
        BY <1>9, <2>1, <3>2 DEF UnlinkMoved
      <4> QED BY <2>2, <4>1
    <3> QED BY <3>1, <3>2
  <2>6. b \notin UnlinkCut(old, c)
    <3>1. \A y \in after .. before - 1 : y \in 0 .. before - 1
      BY <2>2
    <3> QED BY <2>1, <2>3, <3>1 DEF UnlinkCut
  <2>7. b \notin UnlinkGone(old, c)
    <3>1. CASE c.at \in {"bits", "bit", "commit"}
      <4>1. PICK k : k = Now!Blocks(InodesOf(old)[c.new].size)
        OBVIOUS
      <4>2. k \in Nat
        BY <2>2, <4>1, BlocksOfInode
      <4>3. c.new \in old[inode_bitmap_addr] \ {i}
        BY <2>2, <3>1
      <4>4. ASSUME NEW y \in 0 .. k - 1 PROVE InodesOf(old)[c.new].direct[y] # b
        <5>1. y \in Nat /\ y < Now!Blocks(InodesOf(old)[c.new].size)
          BY <4>1, <4>2
        <5> QED BY <1>8, <1>9, <4>3, <5>1
      <4>5. c.at = "bits" => c.x < k
        BY <1>4, <4>1 DEF UnlinkChecked
      <4>6. \A y \in 0 .. c.x - 1 : c.at = "bits" => y \in 0 .. k - 1
        BY <2>4, <4>2, <4>5
      <4>7. CASE c.at = "bits"
        BY <4>4, <4>6, <4>7 DEF UnlinkGone
      <4>8. CASE c.at \in {"bit", "commit"}
        BY <4>1, <4>4, <4>8 DEF UnlinkGone
      <4> QED BY <3>1, <4>7, <4>8
    <3>2. CASE c.at \notin {"bits", "bit", "commit"}
      BY <3>2 DEF UnlinkGone
    <3> QED BY <3>1, <3>2
  <2> QED BY <2>3, <2>5, <2>6, <2>7
<1>10. ASSUME c.at = "find"
       PROVE  UnlinkMoved(old, c) = {} /\ UnlinkCut(old, c) = {} /\ UnlinkGone(old, c) = {}
  BY <1>10 DEF UnlinkMoved, UnlinkCut, UnlinkGone
<1>11. ASSUME NEW x \in 0 .. Now!Blocks(InodesOf(old)[i].size) - 1,
              NEW b, b = InodesOf(old)[i].direct[x]
       PROVE  DataOf(disk)[b] = DataOf(old)[b] /\ b \in disk[data_bitmap_addr]
  <2>1. b \in old[data_bitmap_addr] /\ b \in Now!DataBlock
    BY <1>7, <1>11
  <2>2. /\ \A y \in UnlinkMoved(old, c) : InodesOf(old)[c.inum].direct[y] # b
        /\ b \notin UnlinkCut(old, c) /\ b \notin UnlinkGone(old, c)
    BY <1>9, <1>10, <1>11
  <2>3. DataOf(disk)[b] = DataOf(old)[b]
    BY <1>4, <2>1, <2>2 DEF UnlinkData
  <2> QED BY <1>4, <2>1, <2>2, <2>3
<1> QED BY <1>6, <1>11 DEF Untouched, BlocksInUse

LEMMA UnlinkKeeps ==
  ASSUME NEW old, Sound(old), Tidy(old), NEW c \in UnlinkCall, c.at \notin {"fail", "rollback"},
         Known(old, c), c.at = "find" => c.new = None,
         NEW disk, UnlinkFits(old, c, View(disk))
  PROVE  Keeps(old, c, disk)
<1>1. PICK v : v = View(disk)
  OBVIOUS
<1>2. v.ib = disk[inode_bitmap_addr] /\ v.nodes = InodesOf(disk)
  BY <1>1 DEF View
<1>3. UnlinkFits(old, c, v)
  BY <1>1
<1>4. /\ UnlinkChecked(old, c)
      /\ disk[inode_bitmap_addr] = old[inode_bitmap_addr] \ (IF c.at = "commit" THEN {c.new} ELSE {})
      /\ InodesOf(disk) = IF c.at \in {"bits", "bit", "commit"}
                          THEN [InodesOf(old) EXCEPT ![c.inum] = Im(old)!Shortened(c.inum)]
                          ELSE InodesOf(old)
  BY <1>2, <1>3 DEF UnlinkFits
<1>5. Target(c) = {c.new} /\ c.op = "unlink"
  BY DEF Target, UnlinkCall
<1>6. Im(old)!IsDirectory(c.inum)
  BY <1>5 DEF Known, CreateCall, WriteCall
<1>7. /\ c.inum \in old[inode_bitmap_addr] /\ c.inum \in Now!Inode
      /\ InodesOf(old)[c.inum].type = Now!UFS_DIRECTORY
  BY <1>6, ImConstants DEF Im!IsDirectory, Im!Allocated
<1>8. old[inode_bitmap_addr] \ Target(c) \subseteq disk[inode_bitmap_addr]
  BY <1>4, <1>5
<1>9. \A i \in old[inode_bitmap_addr] \ (Target(c) \cup {c.inum}) : Untouched(old, disk, i)
  BY <1>5, UnlinkLeaves
<1>10. CASE c.at = "find"
  <2>1. c.new \notin old[inode_bitmap_addr]
    BY <1>10, NoneIsNone DEF Sound, Typed
  <2>2. \A i \in old[inode_bitmap_addr] : Untouched(old, disk, i)
    BY <1>10, <2>1, UnlinkLeaves
  <2>3. \A n, i : Leads(disk, c.inum, n, i) <=> Leads(old, c.inum, n, i)
    BY <1>7, <2>2, UntouchedLeads DEF Sound
  <2>4. InodesOf(disk)[c.inum].type = Now!UFS_DIRECTORY
    BY <1>7, <2>2 DEF Untouched
  <2>5. ASSUME NEW i, Leads(disk, c.inum, c.name, i)
        PROVE  i \in Now!Inode \cap disk[inode_bitmap_addr] /\ BlocksInUse(disk, i)
    <3>1. i \in old[inode_bitmap_addr]
      BY <1>6, <2>3, <2>5, OneLead
    <3>2. i \in Now!Inode /\ i \in disk[inode_bitmap_addr]
      BY <1>4, <1>10, <3>1 DEF Sound, Typed
    <3> QED BY <2>2, <3>1, <3>2 DEF Untouched
  <2> QED BY <1>8, <1>9, <2>3, <2>4, <2>5 DEF Keeps
<1>11. CASE c.at # "find"
  <2>1. /\ \A n \in Names \ {c.name} :
            \A i : Leads(disk, c.inum, n, i) <=> Leads(old, c.inum, n, i)
        /\ \A i : Leads(disk, c.inum, c.name, i) =>
             c.at \in {"compact", "shrink", "shorten"} /\ i = c.new
    BY <1>11, UnlinkNames
  <2>2. c.new \in old[inode_bitmap_addr] /\ c.new # c.inum
    <3>1. PICK e, before, after :
            /\ e = Min(Im(old)!UnlinkHits(c.inum, c.name))
            /\ before = Now!Blocks(InodesOf(old)[c.inum].size) /\ after = Shorter(old, c.inum)
      OBVIOUS
    <3> QED BY <1>4, <1>11, <3>1, TargetOfUnlink
  <2>3. InodesOf(disk)[c.inum].type = Now!UFS_DIRECTORY
    <3>1. Im(old)!Shortened(c.inum).type = Now!UFS_DIRECTORY
      BY <1>7 DEF Im!Shortened
    <3>2. c.inum \in DOMAIN InodesOf(old)
      BY <1>7 DEF Sound, Typed
    <3> QED BY <1>4, <1>7, <3>1, <3>2
  <2>4. ASSUME NEW i, Leads(disk, c.inum, c.name, i)
        PROVE  i \in Now!Inode \cap disk[inode_bitmap_addr] /\ BlocksInUse(disk, i)
    <3>1. c.at \in {"compact", "shrink", "shorten"} /\ i = c.new
      BY <2>1, <2>4
    <3>2. Untouched(old, disk, i)
      BY <2>2, <3>1, UnlinkLeaves
    <3>3. i \in Now!Inode /\ i \in disk[inode_bitmap_addr]
      BY <1>4, <2>2, <3>1 DEF Sound, Typed
    <3> QED BY <3>2, <3>3 DEF Untouched
  <2> QED BY <1>8, <1>9, <2>1, <2>3, <2>4 DEF Keeps
<1> QED BY <1>10, <1>11
-----------------------------------------------------------------------------
(* The images a call goes through, and those its rollback() goes back to.  *)

LEMMA FitKeeps ==
  ASSUME NEW old, Sound(old), Tidy(old), NEW c, c.at \notin {"fail", "rollback"},
         c.at = "find" => Known(old, c) /\ c.new = None,
         NEW disk, Fits(old, c, View(disk))
  PROVE  Keeps(old, c, disk)
<1>1. CASE c \in CreateCall /\ CreateFits(old, c, View(disk))
  BY <1>1, CreateKeeps
<1>2. CASE c \in WriteCall /\ WriteFits(old, c, View(disk))
  BY <1>2, WriteKeeps
<1>3. CASE c \in UnlinkCall /\ UnlinkFits(old, c, View(disk))
  <2>1. Known(old, c)
    <3>1. CASE c.at = "find"
      BY <3>1
    <3>2. CASE c.at # "find"
      <4>1. /\ Im(old)!UnlinkReturn(c.inum, c.name) = 0
            /\ c.new = Im(old)!EntryAt(c.inum, Min(Im(old)!UnlinkHits(c.inum, c.name))).inum
        BY <1>3, <3>2 DEF UnlinkFits, UnlinkChecked
      <4>2. c.inum \in Now!Inode /\ c.name \in Names \cup {LongName}
        BY <1>3 DEF UnlinkCall
      <4>3. Im(old)!IsDirectory(c.inum)
        BY <4>1, <4>2, FoundEntry
      <4> QED BY <1>3, <4>1, <4>3 DEF Known
    <3> QED BY <3>1, <3>2
  <2> QED BY <1>3, <2>1, UnlinkKeeps
<1> QED BY <1>1, <1>2, <1>3 DEF Fits

\* The same call, later.
Follows(c, d) ==
  /\ d.op = c.op /\ d.inum = c.inum
  /\ c.op # "write" => d.name = c.name
  /\ c.op = "unlink" => c.new = None \/ d.new = c.new

LEMMA KnownMoves ==
  ASSUME NEW old, NEW c, Known(old, c), NEW place \in {"fail", "rollback"}, NEW d, d = Moved(c, place)
  PROVE  Known(old, d) /\ Follows(c, d)
<1>1. CASE c \in CreateCall /\ Im(old)!IsDirectory(c.inum)
  <2>1. d \in CreateCall /\ d.op = c.op /\ d.inum = c.inum /\ d.name = c.name /\ c.op = "create"
    BY <1>1 DEF CreateCall, Moved
  <2> QED BY <1>1, <2>1 DEF Known, Follows
<1>2. CASE c \in WriteCall /\ Im(old)!IsFile(c.inum)
  <2>1. d \in WriteCall /\ d.op = c.op /\ d.inum = c.inum /\ c.op = "write"
    BY <1>2 DEF WriteCall, Moved
  <2> QED BY <1>2, <2>1 DEF Known, Follows
<1>3. CASE /\ c \in UnlinkCall
           /\ Im(old)!IsDirectory(c.inum)
           /\ c.new # None =>
                /\ Im(old)!UnlinkReturn(c.inum, c.name) = 0
                /\ c.new = Im(old)!EntryAt(c.inum, Min(Im(old)!UnlinkHits(c.inum, c.name))).inum
  <2>1. d \in UnlinkCall /\ d.op = c.op /\ d.inum = c.inum /\ d.name = c.name /\ d.new = c.new
    BY <1>3 DEF UnlinkCall, Moved
  <2> QED BY <1>3, <2>1 DEF Known, Follows
<1> QED BY <1>1, <1>2, <1>3 DEF Known

\* An earlier image of a call is one of the same call later on.
LEMMA KeepsOn ==
  ASSUME NEW old, Typed(old), NEW c, NEW d, Follows(c, d), Known(old, d), NEW disk, Keeps(old, c, disk)
  PROVE  Keeps(old, d, disk)
<1>1. old[inode_bitmap_addr] \ Target(d) \subseteq old[inode_bitmap_addr] \ Target(c)
  <2>1. None \notin old[inode_bitmap_addr]
    BY NoneIsNone DEF Typed
  <2>2. CASE c.op = "unlink"
    BY <2>1, <2>2 DEF Target, Follows
  <2>3. CASE c.op # "unlink"
    BY <2>3 DEF Target
  <2> QED BY <2>2, <2>3
<1>2. d.inum = c.inum /\ d.op = c.op /\ (d.op # "write" => d.name = c.name)
  BY DEF Follows
<1>3. old[inode_bitmap_addr] \ Target(d) \subseteq disk[inode_bitmap_addr]
  BY <1>1 DEF Keeps
<1>4. \A i \in old[inode_bitmap_addr] \ (Target(d) \cup {d.inum}) : Untouched(old, disk, i)
  BY <1>1, <1>2 DEF Keeps
<1>5. ASSUME d.op # "write"
      PROVE  /\ InodesOf(disk)[d.inum].type = Now!UFS_DIRECTORY
             /\ \A n \in Names \ {d.name} :
                  \A i : Leads(disk, d.inum, n, i) <=> Leads(old, d.inum, n, i)
             /\ \A i : Leads(disk, d.inum, d.name, i) =>
                  /\ i \in Now!Inode \cap disk[inode_bitmap_addr]
                  /\ i \in old[inode_bitmap_addr] \ {d.inum} => BlocksInUse(disk, i)
  BY <1>2, <1>5 DEF Keeps
<1> QED BY <1>3, <1>4, <1>5 DEF Keeps

\* More bits do no harm.
LEMMA BitsKeep ==
  ASSUME NEW old, NEW c, NEW disk, Keeps(old, c, disk),
         NEW new, InodesOf(new) = InodesOf(disk), DataOf(new) = DataOf(disk),
         disk[inode_bitmap_addr] \subseteq new[inode_bitmap_addr],
         disk[data_bitmap_addr] \subseteq new[data_bitmap_addr]
  PROVE  Keeps(old, c, new)
<1>1. ASSUME NEW i, BlocksInUse(disk, i) PROVE BlocksInUse(new, i)
  BY <1>1 DEF BlocksInUse
<1>2. ASSUME NEW i, Untouched(old, disk, i) PROVE Untouched(old, new, i)
  BY <1>1, <1>2 DEF Untouched
<1>3. ASSUME NEW p, NEW n, NEW i PROVE Leads(new, p, n, i) <=> Leads(disk, p, n, i)
  <2>1. Im(new)!Positions(p) = Im(disk)!Positions(p)
    BY DEF Im!Positions, Im!Blocks
  <2>2. \A k : Im(new)!EntryAt(p, k) = Im(disk)!EntryAt(p, k)
    BY DEF Im!EntryAt
  <2> QED BY <2>1, <2>2 DEF Leads
<1>4. old[inode_bitmap_addr] \ Target(c) \subseteq new[inode_bitmap_addr]
  BY DEF Keeps
<1>5. \A i \in old[inode_bitmap_addr] \ (Target(c) \cup {c.inum}) : Untouched(old, new, i)
  BY <1>2 DEF Keeps
<1>6. ASSUME c.op # "write"
      PROVE  /\ InodesOf(new)[c.inum].type = Now!UFS_DIRECTORY
             /\ \A n \in Names \ {c.name} :
                  \A i : Leads(new, c.inum, n, i) <=> Leads(old, c.inum, n, i)
             /\ \A i : Leads(new, c.inum, c.name, i) =>
                  /\ i \in Now!Inode \cap new[inode_bitmap_addr]
                  /\ i \in old[inode_bitmap_addr] \ {c.inum} => BlocksInUse(new, i)
  BY <1>1, <1>3, <1>6 DEF Keeps
<1> QED BY <1>4, <1>5, <1>6 DEF Keeps

\* From the image a call has left, the undo log leads over images that were
\* there before it, and may be left by it, to the one rollback() has come to.
Trail(old, c, log, at, disk) ==
  \E T : /\ at \in 1 .. Len(log) + 1 /\ T[at] = disk
         /\ \A j \in 1 .. Len(log) : T[j + 1] = Wrote(T[j], log[j].blockNumber, log[j].blockData)
         /\ \A j \in 1 .. Len(log) + 1 : Keeps(old, c, T[j])

LEMMA TrailKeeps ==
  ASSUME NEW old, NEW c, NEW log, NEW at, NEW disk, Trail(old, c, log, at, disk)
  PROVE  Keeps(old, c, disk)
  BY DEF Trail

LEMMA TrailBegins ==
  ASSUME NEW old, NEW c, NEW disk, Keeps(old, c, disk)
  PROVE  Trail(old, c, <<>>, 1, disk)
<1>1. PICK T : T = [j \in {1} |-> disk]
  OBVIOUS
<1>2. T[1] = disk
  BY <1>1
<1>3. Len(<<>>) = 0 /\ 1 .. 0 = {} /\ 1 .. 0 + 1 = {1}
  OBVIOUS
<1> QED BY <1>2, <1>3 DEF Trail

LEMMA TrailStays ==
  ASSUME NEW old, Typed(old), NEW c, NEW d, Follows(c, d), Known(old, d),
         NEW log, NEW at, NEW disk, Trail(old, c, log, at, disk)
  PROVE  Trail(old, d, log, at, disk)
<1>1. PICK T : /\ at \in 1 .. Len(log) + 1 /\ T[at] = disk
               /\ \A j \in 1 .. Len(log) : T[j + 1] = Wrote(T[j], log[j].blockNumber, log[j].blockData)
               /\ \A j \in 1 .. Len(log) + 1 : Keeps(old, c, T[j])
  BY DEF Trail
<1>2. \A j \in 1 .. Len(log) + 1 : Keeps(old, d, T[j])
  BY <1>1, KeepsOn
<1> QED BY <1>1, <1>2 DEF Trail

\* A write puts the image it replaces, and the record that leads to it, first.
LEMMA TrailGrows ==
  ASSUME NEW old, Typed(old), NEW c, NEW d, Follows(c, d), Known(old, d),
         NEW S, NEW log \in Seq(S), NEW disk, Trail(old, c, log, 1, disk),
         NEW B, NEW C, disk \in [B -> C], NEW b \in B, NEW x,
         NEW r \in S, r.blockNumber = b, r.blockData = disk[b],
         NEW longer, longer = <<r>> \o log,
         NEW new, new = Wrote(disk, b, x), Keeps(old, d, new)
  PROVE  Trail(old, d, longer, 1, new)
<1>1. PICK T : /\ T[1] = disk
               /\ \A j \in 1 .. Len(log) : T[j + 1] = Wrote(T[j], log[j].blockNumber, log[j].blockData)
               /\ \A j \in 1 .. Len(log) + 1 : Keeps(old, c, T[j])
  BY DEF Trail
<1>2. PICK n : n = Len(log)
  OBVIOUS
<1>3. /\ n \in Nat /\ Len(longer) = n + 1 /\ longer[1] = r
      /\ \A i \in 2 .. n + 1 : longer[i] = log[i - 1]
  BY <1>2, DD!PushFront
<1>4. PICK U : U = [j \in 1 .. n + 2 |-> IF j = 1 THEN new ELSE T[j - 1]]
  OBVIOUS
<1>5. U[1] = new /\ \A j \in 2 .. n + 2 : U[j] = T[j - 1]
  BY <1>3, <1>4
<1>6. Wrote(new, b, disk[b]) = disk
  BY DEF Wrote
<1>7. ASSUME NEW j \in 1 .. n + 1
      PROVE  U[j + 1] = Wrote(U[j], longer[j].blockNumber, longer[j].blockData)
  <2>1. U[j + 1] = T[j]
    <3>1. PICK k : k = j + 1
      OBVIOUS
    <3>2. k \in 2 .. n + 2 /\ k - 1 = j
      BY <1>3, <1>7, <3>1
    <3>3. U[k] = T[k - 1]
      BY <1>5, <3>2
    <3> QED BY <3>1, <3>2, <3>3
  <2>2. CASE j = 1
    BY <1>1, <1>3, <1>5, <1>6, <2>1, <2>2
  <2>3. CASE j # 1
    <3>1. PICK i : i = j - 1
      OBVIOUS
    <3>2. i \in 1 .. n /\ i + 1 = j /\ j \in 2 .. n + 1 /\ j \in 2 .. n + 2
      BY <1>3, <1>7, <2>3, <3>1
    <3>3. U[j] = T[i] /\ longer[j] = log[i]
      BY <1>3, <1>5, <3>1, <3>2
    <3>4. T[i + 1] = Wrote(T[i], log[i].blockNumber, log[i].blockData)
      BY <1>1, <1>2, <3>2
    <3> QED BY <2>1, <3>2, <3>3, <3>4
  <2> QED BY <2>2, <2>3
<1>8. ASSUME NEW j \in 1 .. n + 2 PROVE Keeps(old, d, U[j])
  <2>1. CASE j = 1
    BY <1>5, <2>1
  <2>2. CASE j # 1
    <3>1. PICK i : i = j - 1
      OBVIOUS
    <3>2. i \in 1 .. n + 1 /\ j \in 2 .. n + 2
      BY <1>3, <1>8, <2>2, <3>1
    <3>3. Keeps(old, c, T[i]) /\ U[j] = T[i]
      BY <1>1, <1>2, <1>5, <3>1, <3>2
    <3> QED BY <3>3, KeepsOn
  <2> QED BY <2>1, <2>2
<1>9. 1 \in 1 .. n + 2 /\ (n + 1) + 1 = n + 2
  BY <1>3
<1>10. PICK k : k = Len(longer)
  OBVIOUS
<1>11. /\ 1 \in 1 .. k + 1
       /\ \A j \in 1 .. k : U[j + 1] = Wrote(U[j], longer[j].blockNumber, longer[j].blockData)
       /\ \A j \in 1 .. k + 1 : Keeps(old, d, U[j])
  BY <1>3, <1>7, <1>8, <1>9, <1>10
<1> QED BY <1>5, <1>10, <1>11 DEF Trail

\* One iteration of rollback().
LEMMA TrailGoesBack ==
  ASSUME NEW old, NEW c, NEW log, NEW at, NEW disk, Trail(old, c, log, at, disk),
         Len(log) \in Nat, at \in 1 .. Len(log),
         NEW new, new = Wrote(disk, log[at].blockNumber, log[at].blockData)
  PROVE  Trail(old, c, log, at + 1, new)
<1>1. PICK T : /\ T[at] = disk
               /\ \A j \in 1 .. Len(log) : T[j + 1] = Wrote(T[j], log[j].blockNumber, log[j].blockData)
               /\ \A j \in 1 .. Len(log) + 1 : Keeps(old, c, T[j])
  BY DEF Trail
<1>2. T[at + 1] = new /\ at + 1 \in 1 .. Len(log) + 1
  BY <1>1
<1> QED BY <1>1, <1>2 DEF Trail

\* What a process that stops must never have left behind: the image of the last
\* commit is tidy, and each image the call or its rollback() has yet to show
\* keeps what the call is not about.
StopInv ==
  /\ L!TInv
  /\ call # Idle =>
       /\ Known(stable, call)
       /\ call.at = "find" => call.new = None
       /\ Trail(stable, call, undoLog, IF iter = 0 THEN 1 ELSE iter, image)

\* What the steps of a call have in common.
BitSet == \E addr \in {inode_bitmap_addr, data_bitmap_addr}, m \in Int : Put(addr, image[addr] \cup {m})

Works ==
  /\ Follows(call, call')
  /\ call'.at \notin {"idle", "find", "rollback"}
  /\ call'.at = "fail" => call' = Moved(call, "fail") /\ (UNCHANGED diskVars \/ BitSet)

LEMMA BitTried ==
  ASSUME NEW addr \in {inode_bitmap_addr, data_bitmap_addr}, NEW bits \in Nat, NEW next,
         TakeBit(addr, bits, next)
  PROVE  UNCHANGED diskVars \/ BitSet
<1> DEFINE clear == (0 .. bits - 1) \ image[addr]
<1>1. CASE clear = {}
  BY <1>1 DEF TakeBit
<1>2. CASE clear # {}
  <2>1. PICK m : m = Min(clear)
    OBVIOUS
  <2>2. Put(addr, image[addr] \cup {m})
    BY <1>2, <2>1 DEF TakeBit
  <2>3. clear \subseteq Nat
    OBVIOUS
  <2>4. m \in clear
    <3> HIDE DEF clear
    <3> QED BY <1>2, <2>1, <2>3, MinOfNaturals
  <2>5. m \in Int
    BY <2>3, <2>4
  <2> QED BY <2>2, <2>5 DEF BitSet
<1> QED BY <1>1, <1>2

LEMMA CreateWorks ==
  ASSUME SInv,
         \/ CreateBlock \/ CreateInum \/ CreateDots \/ CreateEntry \/ CreateGrow \/ CreateParent
         \/ CreateInit
  PROVE  Works
<1>1. call.at \in {"block", "inum", "dots", "entry", "grow", "parent", "init"}
  BY DEF CreateBlock, CreateInum, CreateDots, CreateEntry, CreateGrow, CreateParent, CreateInit, At
<1>2. Working /\ call \in CreateCall
  BY <1>1, CreateAt
<1>3. DataBits \in Nat /\ InodeBits \in Nat
  BY BitsAssumption
<1>4. ASSUME NEW place \in {"entry", "parent", "init", "commit", "fail"}, call' = Moved(call, place)
      PROVE  Follows(call, call') /\ call'.at = place
  BY <1>2, <1>4 DEF CreateCall, Moved, Follows
<1>5. ASSUME NEW m, call' = GotBlock(call, m) \/ call' = GotInum(call, m) \/ call' = GotMore(call, m)
      PROVE  Follows(call, call') /\ call'.at \in {"inum", "dots", "entry", "grow"}
  BY <1>2, <1>5 DEF CreateCall, GotBlock, GotInum, GotMore, Follows
<1>6. ASSUME NEW place \in {"entry", "parent", "init", "commit"}, call' = Moved(call, place)
      PROVE  Works
  BY <1>4, <1>6 DEF Works
<1>7. ASSUME NEW addr \in {inode_bitmap_addr, data_bitmap_addr}, NEW bits \in Nat, NEW next,
             TakeBit(addr, bits, next),
             \A m \in DOMAIN next :
               next[m] = GotBlock(call, m) \/ next[m] = GotInum(call, m) \/ next[m] = GotMore(call, m)
      PROVE  Works
  <2>1. call' = Moved(call, "fail") \/ \E m \in DOMAIN next : call' = next[m]
    BY <1>2, <1>7, BitTaken
  <2>2. CASE call' = Moved(call, "fail")
    BY <1>4, <1>7, <2>2, BitTried DEF Works
  <2>3. CASE \E m \in DOMAIN next : call' = next[m]
    BY <1>5, <1>7, <2>3 DEF Works
  <2> QED BY <2>1, <2>2, <2>3
<1>8. CASE CreateBlock
  <2>1. PICK next : next = [b \in Now!DataBlock |-> [call EXCEPT !.block = b, !.at = "inum"]]
    OBVIOUS
  <2>2. TakeBit(data_bitmap_addr, DataBits, next)
    BY <1>8, <2>1 DEF CreateBlock
  <2>3. \A m \in DOMAIN next : next[m] = GotBlock(call, m)
    BY <2>1 DEF GotBlock
  <2> QED BY <1>3, <1>7, <2>2, <2>3
<1>9. CASE CreateInum
  <2>1. PICK next : next = [i \in Now!Inode |-> GotInum(call, i)]
    OBVIOUS
  <2>2. TakeBit(inode_bitmap_addr, InodeBits, next)
    BY <1>9, <2>1 DEF CreateInum, GotInum
  <2>3. \A m \in DOMAIN next : next[m] = GotInum(call, m)
    BY <2>1
  <2> QED BY <1>3, <1>7, <2>2, <2>3
<1>10. CASE CreateDots \/ CreateGrow \/ CreateParent \/ CreateInit
  <2>1. \E place \in {"entry", "parent", "init", "commit"} : Goto(place)
    BY <1>10 DEF CreateDots, CreateGrow, CreateParent, CreateInit
  <2> QED BY <1>6, <2>1 DEF Goto, Moved
<1>11. CASE CreateEntry
  <2>1. CASE Goto("parent") \/ Goto("init")
    BY <1>6, <2>1 DEF Goto, Moved
  <2>2. CASE Goto("fail") /\ UNCHANGED diskVars
    <3>1. call' = Moved(call, "fail")
      BY <2>2 DEF Goto, Moved
    <3> QED BY <1>4, <2>2, <3>1 DEF Works
  <2>3. CASE TakeBit(data_bitmap_addr, DataBits,
                     [m \in Now!DataBlock |-> [call EXCEPT !.more = m, !.at = "grow"]])
    <3>1. PICK next : next = [m \in Now!DataBlock |-> [call EXCEPT !.more = m, !.at = "grow"]]
      OBVIOUS
    <3>2. TakeBit(data_bitmap_addr, DataBits, next)
      BY <2>3, <3>1
    <3>3. \A m \in DOMAIN next : next[m] = GotMore(call, m)
      BY <3>1 DEF GotMore
    <3> QED BY <1>3, <1>7, <3>2, <3>3
  <2>4. \/ Goto(IF InodesOf(stable)[call.inum].size < Place + 1 THEN "parent" ELSE "init")
        \/ Goto("fail") /\ UNCHANGED diskVars
        \/ TakeBit(data_bitmap_addr, DataBits,
                   [m \in Now!DataBlock |-> [call EXCEPT !.more = m, !.at = "grow"]])
    BY <1>11, Zenon DEF CreateEntry
  <2>5. \A cond : Goto(IF cond THEN "parent" ELSE "init") => Goto("parent") \/ Goto("init")
    OBVIOUS
  <2> QED BY <2>1, <2>2, <2>3, <2>4, <2>5
<1> QED BY <1>8, <1>9, <1>10, <1>11

LEMMA WriteWorks ==
  ASSUME SInv, WriteAlloc \/ WriteFree \/ WriteInode \/ WriteData
  PROVE  Works
<1>1. call.at \in {"alloc", "free", "inode", "data"}
  BY DEF WriteAlloc, WriteFree, WriteInode, WriteData, At
<1>2. Working /\ call \in WriteCall /\ WriteChecked(stable, call) /\ Sound(stable)
  BY <1>1, WriteAt DEF WriteFits
<1>3. ASSUME call' \in WriteCall, call'.inum = call.inum, call'.at \in {"alloc", "free", "inode", "data", "commit"}
      PROVE  Works
  BY <1>2, <1>3 DEF WriteCall, Works, Follows
<1>4. call.at \in {"alloc", "free"} => call.x \in Now!Index
  <2>1. PICK now, cnt : now = Now!Blocks(InodesOf(stable)[call.inum].size) /\ cnt = Now!Blocks(call.size)
    OBVIOUS
  <2>2. now \in Nat /\ now <= DIRECT_PTRS /\ cnt \in Nat /\ cnt <= DIRECT_PTRS
    BY <1>2, <2>1, FileOfWrite
  <2>3. call.x \in Nat
    BY <1>2 DEF WriteCall
  <2> QED BY <1>2, <2>1, <2>2, <2>3, SizesAssumption DEF WriteChecked, Now!Index
<1>5. CASE WriteAlloc
  <2>1. PICK next : next = [b \in Now!DataBlock |-> GotPointer(call, b)]
    OBVIOUS
  <2>2. TakeBit(data_bitmap_addr, DataBits, next) /\ call.at = "alloc"
    BY <1>5, <2>1 DEF WriteAlloc, GotPointer, At
  <2>3. DataBits \in Nat
    BY BitsAssumption
  <2>4. call' = Moved(call, "fail") \/ \E m \in DOMAIN next : call' = next[m]
    BY <1>2, <2>2, <2>3, BitTaken
  <2>5. CASE call' = Moved(call, "fail")
    <3>1. Follows(call, call') /\ call'.at = "fail"
      BY <1>2, <2>5 DEF WriteCall, Moved, Follows
    <3> QED BY <2>2, <2>3, <2>5, <3>1, BitTried DEF Works
  <2>6. ASSUME NEW m \in DOMAIN next, call' = next[m] PROVE Works
    <3>1. m \in Now!Pointer /\ call' = GotPointer(call, m)
      BY <2>1, <2>6 DEF Now!Pointer
    <3>2. /\ call' \in WriteCall /\ call'.inum = call.inum
          /\ call'.at = (IF call.x + 1 < Now!Blocks(call.size) THEN "alloc" ELSE "inode")
      BY <1>2, <1>4, <2>2, <3>1, PointerFields
    <3> QED BY <1>3, <3>2
  <2> QED BY <2>4, <2>5, <2>6
<1>6. CASE WriteFree
  <2>1. call' = LostPointer(call) /\ call.at = "free"
    BY <1>6 DEF WriteFree, LostPointer, At
  <2>2. /\ call' \in WriteCall /\ call'.inum = call.inum
        /\ call'.at = (IF call.x + 1 < call.last THEN "free" ELSE "inode")
    BY <1>2, <1>4, <2>1, LostFields
  <2> QED BY <1>3, <2>2
<1>7. CASE WriteInode
  <2>1. call' = ToData(call)
    BY <1>7 DEF WriteInode, ToData
  <2>2. call' \in WriteCall /\ call'.inum = call.inum /\ call'.at = "data"
    BY <1>2, <2>1 DEF ToData, WriteCall
  <2> QED BY <1>3, <2>2
<1>8. CASE WriteData
  <2>1. call' = Wrote1(call)
    BY <1>8 DEF WriteData, Wrote1
  <2>2. PICK place : place = IF call.x + 1 < Now!Blocks(call.size) THEN "data" ELSE "commit"
    OBVIOUS
  <2>3. place \in {"data", "commit"} /\ call' = [call EXCEPT !.x = @ + 1, !.at = place]
    BY <2>1, <2>2 DEF Wrote1
  <2>4. PICK y \in Nat : y = call.x + 1
    BY <1>2 DEF WriteCall
  <2>5. call' = [[call EXCEPT !.x = y] EXCEPT !.at = place]
    BY <2>3, <2>4
  <2>6. PICK d : d = [call EXCEPT !.x = y]
    OBVIOUS
  <2>7. d \in WriteCall /\ d.inum = call.inum
    BY <1>2, <2>6 DEF WriteCall
  <2>8. call' \in WriteCall /\ call'.inum = call.inum /\ call'.at \in {"data", "commit"}
    BY <2>3, <2>5, <2>6, <2>7 DEF WriteCall
  <2> QED BY <1>3, <2>8
<1> QED BY <1>5, <1>6, <1>7, <1>8

LEMMA UnlinkWorks ==
  ASSUME SInv, call.at = "find" => call.new = None,
         \/ UnlinkFind \/ UnlinkCompact \/ UnlinkShrink \/ UnlinkParent \/ UnlinkBlocks
         \/ UnlinkInode
  PROVE  Works
<1>1. call.at \in {"find", "compact", "shrink", "shorten", "bits", "bit"}
  BY DEF UnlinkFind, UnlinkCompact, UnlinkShrink, UnlinkParent, UnlinkBlocks, UnlinkInode, At
<1>2. call \in UnlinkCall
  BY <1>1, UnlinkAt
<1>3. CASE UnlinkFind
  <2>1. call.new = None /\ UNCHANGED diskVars
    BY <1>3 DEF UnlinkFind, At
  <2>2. call' = Moved(call, "fail") \/ \E t : call' = Found(call, t)
    BY <1>3, Zenon DEF UnlinkFind, Moved, Found
  <2>3. CASE call' = Moved(call, "fail")
    BY <1>2, <2>1, <2>3 DEF UnlinkCall, Moved, Follows, Works
  <2>4. CASE \E t : call' = Found(call, t)
    BY <1>2, <2>1, <2>4 DEF UnlinkCall, Found, Follows, Works
  <2> QED BY <2>2, <2>3, <2>4
<1>4. CASE UnlinkCompact
  <2>1. call' = NextMoved(stable, call)
    BY <1>4 DEF UnlinkCompact, NextMoved, Before, After, Shorter
  <2> QED BY <1>2, <2>1 DEF UnlinkCall, NextMoved, Follows, Works
<1>5. CASE UnlinkShrink \/ UnlinkInode
  <2>1. call' = Moved(call, "shorten") \/ call' = Moved(call, "commit")
    BY <1>5 DEF UnlinkShrink, UnlinkInode, Goto, Moved
  <2> QED BY <1>2, <2>1 DEF UnlinkCall, Moved, Follows, Works
<1>6. CASE UnlinkParent
  <2>1. call' = ToTarget(stable, call)
    BY <1>6 DEF UnlinkParent, ToTarget
  <2> QED BY <1>2, <2>1 DEF UnlinkCall, ToTarget, Follows, Works
<1>7. CASE UnlinkBlocks
  <2>1. call' = NextGone(stable, call)
    BY <1>7 DEF UnlinkBlocks, NextGone
  <2> QED BY <1>2, <2>1 DEF UnlinkCall, NextGone, Follows, Works
<1> QED BY <1>3, <1>4, <1>5, <1>6, <1>7

\* A step between beginTransaction and commit, or the one that finds that the
\* call has failed.
LEMMA WorkStops ==
  ASSUME SInv, StopInv, SInv', stable' = stable, Works, call.at \notin {"idle", "rollback"},
         UNCHANGED diskVars \/ \E b, x : Put(b, x)
  PROVE  /\ Known(stable, call')
         /\ Trail(stable, call', undoLog', IF iter' = 0 THEN 1 ELSE iter', image')
<1>1. /\ Working /\ Sound(stable) /\ Typed(stable) /\ Tidy(stable)
      /\ iter = 0 /\ isInTransaction
  BY AtWork, TidyFromL DEF StopInv, Sound, Working
<1>2. call # Idle /\ Known(stable, call) /\ Trail(stable, call, undoLog, 1, image)
  BY <1>1 DEF StopInv, Idle
<1>3. undoLog \in Seq(DD!UndoRecord) /\ image \in [D!Block -> Content]
  BY Layout DEF SInv, Device, DD!IInv, DD!TypeOK
<1>4. alive'
  BY DEF SInv, Device
<1>5. Working' \/ Undoing' \/ Resting'
  BY DEF SInv
<1>6. Working'
  BY <1>5 DEF Works, Undoing, Resting, Idle
<1>7. iter' = 0 /\ Follows(call, call')
  BY <1>6 DEF Working, Works
<1>8. CASE call'.at = "fail"
  <2>1. call' = Moved(call, "fail")
    BY <1>8 DEF Works
  <2>2. Known(stable, call')
    BY <1>2, <2>1, KnownMoves
  <2>3. Keeps(stable, call', image)
    BY <1>1, <1>2, <1>7, <2>2, TrailKeeps, KeepsOn
  <2>4. CASE UNCHANGED diskVars
    <3>1. undoLog' = undoLog /\ image' = image
      BY <2>4 DEF diskVars
    <3> QED BY <1>1, <1>2, <1>7, <2>2, <3>1, TrailStays
  <2>5. ASSUME NEW addr \in {inode_bitmap_addr, data_bitmap_addr}, NEW m \in Int,
               Put(addr, image[addr] \cup {m})
        PROVE  Trail(stable, call', undoLog', 1, image')
    <3>1. PICK X : X = image[addr] \cup {m}
      OBVIOUS
    <3>2. D!WriteBlock(addr, X)
      BY <1>4, <2>5, <3>1 DEF Put, D!ExitInvalidBlock, D!Exit
    <3>3. PICK r : r = [blockNumber |-> addr, blockData |-> image[addr]]
      OBVIOUS
    <3>4. addr \in D!Block /\ image' = Wrote(image, addr, X) /\ undoLog' = <<r>> \o undoLog
      BY <1>1, <3>2, <3>3 DEF D!WriteBlock, D!DoWrite, Wrote
    <3>5. r \in DD!UndoRecord /\ r.blockNumber = addr /\ r.blockData = image[addr]
      BY <1>3, <3>3, <3>4, Layout DEF DD!UndoRecord
    <3>6. X \subseteq Int /\ Shaped(image)
      BY <1>1, <2>5, <3>1 DEF Working, Shaped
    <3>7. /\ InodesOf(image') = InodesOf(image) /\ DataOf(image') = DataOf(image)
          /\ image[inode_bitmap_addr] \subseteq image'[inode_bitmap_addr]
          /\ image[data_bitmap_addr] \subseteq image'[data_bitmap_addr]
      <4>1. CASE addr = inode_bitmap_addr
        <5>1. View(image') = InodeBitsIn(View(image), X)
          BY <3>4, <3>6, <4>1, PutInodeBitmap
        <5>2. /\ View(image').ib = X /\ View(image').db = View(image).db
              /\ View(image').nodes = View(image).nodes /\ View(image').data = View(image).data
          BY <5>1, ViewIsView, InodeBitsParts
        <5> QED BY <3>1, <4>1, <5>2 DEF View
      <4>2. CASE addr = data_bitmap_addr
        <5>1. View(image') = DataBitsIn(View(image), X)
          BY <3>4, <3>6, <4>2, PutDataBitmap
        <5>2. /\ View(image').ib = View(image).ib /\ View(image').db = X
              /\ View(image').nodes = View(image).nodes /\ View(image').data = View(image).data
          BY <5>1, ViewIsView, DataBitsParts
        <5> QED BY <3>1, <4>2, <5>2 DEF View
      <4> QED BY <2>5, <4>1, <4>2
    <3>8. PICK new : new = image'
      OBVIOUS
    <3>9. Keeps(stable, call', new)
      BY <2>3, <3>7, <3>8, BitsKeep
    <3> QED BY <1>1, <1>2, <1>3, <1>7, <2>2, <3>4, <3>5, <3>8, <3>9, TrailGrows
  <2> QED BY <1>7, <1>8, <2>2, <2>4, <2>5 DEF Works, BitSet
<1>9. CASE call'.at # "fail"
  <2>0. PICK new : new = image'
    OBVIOUS
  <2>1. Fits(stable, call', View(image'))
    BY <1>6 DEF Working, Fits
  <2>2. Keeps(stable, call', new)
    BY <1>1, <1>9, <2>1, <2>0, FitKeeps DEF Works
  <2>3. Known(stable, call')
    BY <2>2 DEF Keeps
  <2>4. CASE UNCHANGED diskVars
    <3>1. undoLog' = undoLog /\ image' = image
      BY <2>4 DEF diskVars
    <3> QED BY <1>1, <1>2, <1>7, <2>3, <3>1, TrailStays
  <2>5. ASSUME NEW b, NEW x, Put(b, x)
        PROVE  Trail(stable, call', undoLog', 1, image')
    <3>1. D!WriteBlock(b, x)
      BY <1>4, <2>5 DEF Put, D!ExitInvalidBlock, D!Exit
    <3>2. PICK r : r = [blockNumber |-> b, blockData |-> image[b]]
      OBVIOUS
    <3>3. b \in D!Block /\ image' = Wrote(image, b, x) /\ undoLog' = <<r>> \o undoLog
      BY <1>1, <3>1, <3>2 DEF D!WriteBlock, D!DoWrite, Wrote
    <3>4. r \in DD!UndoRecord /\ r.blockNumber = b /\ r.blockData = image[b]
      BY <1>3, <3>2, <3>3, Layout DEF DD!UndoRecord
    <3> QED BY <1>1, <1>2, <1>3, <1>7, <2>2, <2>3, <2>0, <3>3, <3>4, TrailGrows
  <2> QED BY <1>7, <2>3, <2>4, <2>5
<1> QED BY <1>8, <1>9

LEMMA StartStops ==
  ASSUME SInv, StopInv, Start
  PROVE  /\ Known(stable, call')
         /\ call'.at = "find" => call'.new = None
         /\ Trail(stable, call', undoLog', IF iter' = 0 THEN 1 ELSE iter', image')
<1>1. SInv' /\ stable' = stable
  BY StartStep
<1>2. \E new : /\ Begin(new)
               /\ \/ \E p \in Now!Inode, t \in {Now!UFS_DIRECTORY, Now!UFS_REGULAR_FILE}, n \in Names :
                       new = NewCreate(p, t, n)
                  \/ \E i \in Now!Inode, v \in Values, n \in Sizes : new = NewWrite(image, i, v, n)
                  \/ \E p \in Now!Inode, n \in Names \cup {LongName} :
                       new = NewUnlink(p, n) /\ Now!IsDirectory(p)
  <2>1. CASE \E p \in Now!Inode, t \in {Now!UFS_DIRECTORY, Now!UFS_REGULAR_FILE}, n \in Names :
               StartCreate(p, t, n)
    BY <2>1, Zenon DEF StartCreate, NewCreate
  <2>2. CASE \E i \in Now!Inode, v \in Values, n \in Sizes : StartWrite(i, v, n)
    <3>1. PICK i \in Now!Inode, v \in Values, n \in Sizes : StartWrite(i, v, n)
      BY <2>2
    <3>2. Begin(NewWrite(image, i, v, n))
      BY <3>1 DEF StartWrite, NewWrite
    <3> QED BY <3>1, <3>2
  <2>3. CASE \E p \in Now!Inode, n \in Names \cup {LongName} : StartUnlink(p, n)
    BY <2>3, Zenon DEF StartUnlink, NewUnlink
  <2> QED BY <2>1, <2>2, <2>3, Zenon DEF Start
<1>3. PICK new : /\ Begin(new)
                 /\ \/ \E p \in Now!Inode, t \in {Now!UFS_DIRECTORY, Now!UFS_REGULAR_FILE}, n \in Names :
                         new = NewCreate(p, t, n)
                    \/ \E i \in Now!Inode, v \in Values, n \in Sizes : new = NewWrite(image, i, v, n)
                    \/ \E p \in Now!Inode, n \in Names \cup {LongName} :
                         new = NewUnlink(p, n) /\ Now!IsDirectory(p)
  BY <1>2
<1>4. ~isInTransaction /\ iter = 0 /\ stable = image /\ Sound(stable)
  BY <1>3, IdleRests DEF Begin
<1>5. D!BeginTransaction /\ call' = new
  BY <1>3, <1>4 DEF Begin, D!ExitNestedTransaction
<1>6. undoLog' = <<>> /\ iter' = 0 /\ image' = image
  <2>1. undoLog = <<>>
    BY <1>4 DEF SInv, Device, DD!IInv, DD!NoStaleUndo, DD!InFlight
  <2> QED BY <1>4, <1>5, <2>1 DEF D!BeginTransaction
<1>7. new.at \notin {"idle", "fail", "rollback"}
  <2>1. CASE \E p \in Now!Inode, t \in {Now!UFS_DIRECTORY, Now!UFS_REGULAR_FILE}, n \in Names :
               new = NewCreate(p, t, n)
    BY <2>1 DEF NewCreate
  <2>2. CASE \E i \in Now!Inode, v \in Values, n \in Sizes : new = NewWrite(image, i, v, n)
    <3>1. PICK i, v, n : new = NewWrite(image, i, v, n)
      BY <2>2
    <3>2. PICK now, cnt : now = Now!Blocks(InodesOf(image)[i].size) /\ cnt = Now!Blocks(n)
      OBVIOUS
    <3>3. new.at = CASE now < cnt -> "alloc" [] cnt < now -> "free" [] OTHER -> "inode"
      BY <3>1, <3>2 DEF NewWrite
    <3> QED BY <3>3
  <2>3. CASE \E p, n : new = NewUnlink(p, n)
    BY <2>3 DEF NewUnlink
  <2> QED BY <1>3, <2>1, <2>2, <2>3
<1>8. new.at = "find" => Known(stable, new) /\ new.new = None
  <2>1. CASE \E p \in Now!Inode, t \in {Now!UFS_DIRECTORY, Now!UFS_REGULAR_FILE}, n \in Names :
               new = NewCreate(p, t, n)
    BY <2>1 DEF NewCreate
  <2>2. CASE \E i \in Now!Inode, v \in Values, n \in Sizes : new = NewWrite(image, i, v, n)
    <3>1. PICK i, v, n : new = NewWrite(image, i, v, n)
      BY <2>2
    <3>2. PICK now, cnt : now = Now!Blocks(InodesOf(image)[i].size) /\ cnt = Now!Blocks(n)
      OBVIOUS
    <3>3. new.at = CASE now < cnt -> "alloc" [] cnt < now -> "free" [] OTHER -> "inode"
      BY <3>1, <3>2 DEF NewWrite
    <3> QED BY <3>3
  <2>3. ASSUME NEW p \in Now!Inode, NEW n \in Names \cup {LongName},
               new = NewUnlink(p, n), Now!IsDirectory(p)
        PROVE  Known(stable, new) /\ new.new = None
    <3>1. Im(stable)!IsDirectory(p)
      BY <1>4, <2>3, NowReads
    <3>2. new \in UnlinkCall /\ new.inum = p /\ new.new = None
      BY <2>3 DEF NewUnlink, UnlinkCall
    <3> QED BY <3>1, <3>2 DEF Known
  <2> QED BY <1>3, <2>1, <2>2, <2>3
<1>9. Fits(stable, new, View(image'))
  <2>1. Working' \/ Undoing' \/ Resting'
    BY <1>1 DEF SInv
  <2>2. Working'
    BY <1>5, <1>7, <2>1 DEF Undoing, Resting, Idle
  <2> QED BY <1>1, <1>5, <2>2 DEF Working, Fits
<1>10. PICK begun : begun = image'
  OBVIOUS
<1>11. Keeps(stable, new, begun)
  <2>1. Tidy(stable)
    BY TidyFromL DEF StopInv
  <2> QED BY <1>4, <1>7, <1>8, <1>9, <1>10, <2>1, FitKeeps
<1>12. Known(stable, new)
  BY <1>11 DEF Keeps
<1> QED BY <1>5, <1>6, <1>8, <1>10, <1>11, <1>12, TrailBegins

LEMMA FailStops ==
  ASSUME SInv, StopInv, Fail
  PROVE  /\ Known(stable, call') /\ call'.at # "find"
         /\ Trail(stable, call', undoLog', IF iter' = 0 THEN 1 ELSE iter', image')
<1>1. call.at = "fail" /\ D!Rollback /\ call' = Moved(call, "rollback")
  BY DEF Fail, At, Goto, Moved
<1>2. iter = 0 /\ Typed(stable)
  BY <1>1, AtWork DEF Working, Sound
<1>3. Known(stable, call) /\ Trail(stable, call, undoLog, 1, image)
  BY <1>1, <1>2 DEF StopInv, Idle
<1>4. Known(stable, call') /\ Follows(call, call')
  BY <1>1, <1>3, KnownMoves
<1>5. iter' = 1 /\ image' = image /\ undoLog' = undoLog
  BY <1>1 DEF D!Rollback
<1>6. call'.at = "rollback"
  <2>1. call \in CreateCall \cup WriteCall \cup UnlinkCall
    BY <1>3 DEF Known
  <2> QED BY <1>1, <2>1, CallsMove
<1> QED BY <1>2, <1>3, <1>4, <1>5, <1>6, TrailStays

LEMMA UndoStops ==
  ASSUME SInv, StopInv, Undo
  PROVE  Trail(stable, call, undoLog', IF iter' = 0 THEN 1 ELSE iter', image')
<1>1. call.at = "rollback" /\ D!UndoOne
  BY DEF Undo, At
<1>2. iter \in Nat \ {0} /\ isInTransaction = FALSE
  BY <1>1, AtUndo
<1>3. Trail(stable, call, undoLog, iter, image)
  BY <1>1, <1>2 DEF StopInv, Idle
<1>4. /\ iter \in 1 .. Len(undoLog) /\ iter' = iter + 1 /\ undoLog' = undoLog
      /\ image' = Wrote(image, undoLog[iter].blockNumber, undoLog[iter].blockData)
  BY <1>1, <1>2 DEF D!UndoOne, D!DoWrite, Wrote
<1>5. Len(undoLog) \in Nat
  BY DEF SInv, Device, DD!IInv, DD!TypeOK
<1>6. Trail(stable, call, undoLog, iter + 1, image')
  BY <1>3, <1>4, <1>5, TrailGoesBack
<1>7. iter + 1 # 0
  BY <1>2
<1> QED BY <1>4, <1>6, <1>7

LEMMA StopsStep == SInv /\ StopInv /\ [Next]_vars => StopInv'
<1> SUFFICES ASSUME SInv, StopInv, [Next]_vars PROVE StopInv'
  OBVIOUS
<1>1. ASSUME L!Next \/ stable' = stable PROVE L!TInv'
  <2>1. stable' = stable => UNCHANGED L!vars
    BY DEF L!vars
  <2> QED BY <1>1, <2>1, L!NextKeepsTInv, Assumptions DEF StopInv
<1>2. ASSUME stable' = stable, Known(stable, call'), call'.at = "find" => call'.new = None,
             Trail(stable, call', undoLog', IF iter' = 0 THEN 1 ELSE iter', image')
      PROVE  StopInv'
  BY <1>1, <1>2 DEF StopInv, Known, Trail, Keeps
<1>3. CASE Start
  BY <1>2, <1>3, StartStep, StartStops
<1>4. CASE \/ CreateBlock \/ CreateInum \/ CreateDots \/ CreateEntry \/ CreateGrow
           \/ CreateParent \/ CreateInit
           \/ WriteAlloc \/ WriteFree \/ WriteInode \/ WriteData
           \/ UnlinkFind \/ UnlinkCompact \/ UnlinkShrink \/ UnlinkParent \/ UnlinkBlocks
           \/ UnlinkInode
  <2>1. SInv' /\ stable' = stable
    BY <1>4, WriteSteps
  <2>2. call.at \notin {"idle", "rollback"} /\ (UNCHANGED diskVars \/ \E b, x : Put(b, x))
    BY <1>4, WriteSteps
  <2>3. call.at = "find" => call.new = None
    BY DEF StopInv, Idle
  <2>4. Works
    BY <1>4, <2>3, CreateWorks, WriteWorks, UnlinkWorks
  <2>5. /\ Known(stable, call')
        /\ Trail(stable, call', undoLog', IF iter' = 0 THEN 1 ELSE iter', image')
    BY <2>1, <2>2, <2>4, WorkStops
  <2> QED BY <1>2, <2>1, <2>4, <2>5 DEF Works
<1>5. CASE Commit
  <2>1. L!Next /\ call' = Idle
    BY <1>5, CommitStep DEF Commit
  <2> QED BY <1>1, <2>1 DEF StopInv
<1>6. CASE Fail
  BY <1>2, <1>6, FailStep, FailStops
<1>7. CASE Undo
  <2>1. call.at = "rollback" /\ call' = call
    BY <1>7 DEF Undo, At
  <2>2. Known(stable, call')
    BY <2>1 DEF StopInv, Idle
  <2> QED BY <1>2, <1>7, <2>1, <2>2, UndoStep, UndoStops
<1>8. CASE Return
  <2>1. call' = Idle
    BY <1>8 DEF Return
  <2> QED BY <1>1, <1>8, <2>1, ReturnStep DEF StopInv
<1>9. CASE UNCHANGED vars
  <2>1. UNCHANGED diskVars /\ call' = call
    BY <1>9 DEF vars
  <2>2. stable' = stable
    BY <2>1, DeviceStays
  <2>3. call = Idle \/ call # Idle
    OBVIOUS
  <2>4. CASE call = Idle
    BY <1>1, <2>1, <2>2, <2>4 DEF StopInv
  <2>5. CASE call # Idle
    BY <1>2, <2>1, <2>2, <2>5 DEF StopInv, diskVars
  <2> QED BY <2>4, <2>5
<1> QED BY <1>3, <1>4, <1>5, <1>6, <1>7, <1>8, <1>9 DEF Next

\* Wherever a call is when the process stops, at any of its block writes or of
\* those of its rollback(), and whatever has been done before: what it is not
\* about is whole, and no name leads to an inode or to blocks not in use.
THEOREM StopsAreHarmless == Spec => []StopsHurtNobodyElse
<1>1. Init => SInv /\ StopInv
  <2>1. Init => SInv
    BY InitRests
  <2>2. Init => StopInv
    <3>1. Init => L!TInv
      BY FirstImage
    <3>2. Init => call = Idle
      BY DEF Init
    <3> QED BY <3>1, <3>2 DEF StopInv
  <2> QED BY <2>1, <2>2
<1>2. SInv /\ StopInv /\ [Next]_vars => (SInv /\ StopInv)'
  BY StepsRefine, StopsStep
<1>3. SInv /\ StopInv => StopsHurtNobodyElse
  <2>1. SUFFICES ASSUME SInv, StopInv PROVE StopsHurtNobodyElse
    OBVIOUS
  <2>2. CASE call = Idle
    BY <2>2 DEF StopsHurtNobodyElse
  <2>3. CASE call # Idle
    <3>1. Sound(stable) /\ L!IInv /\ Tidy(stable)
      BY <2>1, SoundStable, TidyFromL DEF SInv, Device, StopInv
    <3>2. Keeps(stable, call, image)
      BY <2>1, <2>3, TrailKeeps DEF StopInv
    <3> QED BY <3>1, <3>2, KeptIsHarmless
  <2> QED BY <2>2, <2>3
<1> QED BY <1>1, <1>2, <1>3, PTL DEF Spec
=============================================================================
