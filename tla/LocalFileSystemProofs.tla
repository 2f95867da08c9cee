------------------------ MODULE LocalFileSystemProofs ------------------------
(***************************************************************************)
(* Proofs about LocalFileSystem, for every number of inodes and data       *)
(* blocks, every block size and number of direct pointers.                 *)
(*                                                                         *)
(* First, blocks. The inductive invariant IInv says that following the     *)
(* pointers below the sizes is a bijection from Held, the pairs of an      *)
(* allocated inode and a position in its pointer array, to the set bits of *)
(* the data bitmap. Each call either adds pairs with free blocks or takes  *)
(* pairs away with their bits (Gain and Loss). Typing needs it too: an     *)
(* entry of a directory is typed because the pointer to its block is a     *)
(* data block.                                                             *)
(*                                                                         *)
(* Then, names: what each call does to the entries of all directories, as  *)
(* if there were no blocks, now that no two inodes share one. From that    *)
(* alone, TInv: directories are dense and the inodes form a tree. Last,    *)
(* FInv relates the entries to what stat, lookup and read show, and each   *)
(* call to a step of FileTree.                                             *)
(***************************************************************************)
EXTENDS LocalFileSystem, FiniteSetTheorems, WellFoundedInduction, TLAPS

Held == {o \in inodeBitmap \X Index : o[2] < Blocks(inodes[o[1]].size)}

Ptr(o) == inodes[o[1]].direct[o[2]]

SizesFit == \A i \in inodeBitmap : Blocks(inodes[i].size) <= DIRECT_PTRS

BitmapIsExact ==
  /\ \A o \in Held : Ptr(o) \in dataBitmap
  /\ \A o, q \in Held : Ptr(o) = Ptr(q) => o = q
  /\ \A b \in dataBitmap : \E o \in Held : Ptr(o) = b

IInv == TypeOK /\ SizesFit /\ BitmapIsExact
-----------------------------------------------------------------------------
(* Arithmetic and minima.                                                  *)

LEMMA Division ==
  ASSUME NEW k \in Nat, NEW d \in Nat \ {0}
  PROVE  /\ k \div d \in Nat
         /\ k % d \in 0 .. d - 1
         /\ k = d * (k \div d) + (k % d)
  OBVIOUS

LEMMA DivBelow ==
  ASSUME NEW k \in Nat, NEW d \in Nat \ {0}, NEW q \in Nat
  PROVE  k < q * d <=> k \div d < q
  OBVIOUS

LEMMA BlocksBound ==
  ASSUME NEW n \in Nat, NEW q \in Nat
  PROVE  /\ Blocks(n) \in Nat
         /\ Blocks(n) <= q <=> n <= q * UFS_BLOCK_SIZE
  BY SizesAssumption DEF Blocks

LEMMA MinOfNaturals ==
  ASSUME NEW S, S \subseteq Nat, S # {}
  PROVE  Min(S) \in S /\ \A y \in S : Min(S) <= y
<1> DEFINE R == {ss \in Nat \X Nat : ss[1] < ss[2]}
<1>0. IsWellFoundedOn(R, Nat)
  BY NatLessThanWellFounded, Zenon DEF OpToRel
<1>1. \E x \in S : \A y \in S : ~(<<y, x>> \in R)
  <2> HIDE DEF R
  <2> QED BY <1>0, WFMin
<1>2. PICK x \in S : \A y \in S : ~(y < x)
  BY <1>1
<1>3. \A y \in S : x <= y
  BY <1>2
<1> QED BY <1>3 DEF Min

LEMMA MaxOfBounded ==
  ASSUME NEW n \in Nat, NEW S, S \subseteq 0 .. n - 1, S # {}
  PROVE  Max(S) \in S
<1> DEFINE R == {n - y : y \in S}
<1>1. R \subseteq Nat /\ R # {}
  <2>1. \A y \in S : n - y \in Nat
    BY SMT
  <2>2. PICK y \in S : TRUE
    OBVIOUS
  <2> QED BY <2>1, <2>2
<1>2. Min(R) \in R /\ \A r \in R : Min(R) <= r
  <2> HIDE DEF R
  <2> QED BY <1>1, MinOfNaturals
<1>3. PICK x \in S : Min(R) = n - x
  BY <1>2
<1>4. ASSUME NEW y \in S PROVE x >= y
  <2>1. n - x <= n - y
    BY <1>2, <1>3
  <2> QED BY <2>1
<1> QED BY <1>4 DEF Max

\* Sizes and block counts move together.
LEMMA BlocksMonotone ==
  ASSUME NEW m \in Nat, NEW n \in Nat, m <= n
  PROVE  Blocks(m) <= Blocks(n)
<1>1. Blocks(m) \in Nat /\ Blocks(n) \in Nat
  BY BlocksBound
<1>2. n <= Blocks(n) * UFS_BLOCK_SIZE
  BY <1>1, BlocksBound
<1>3. Blocks(n) * UFS_BLOCK_SIZE \in Int
  BY <1>1, SizesAssumption
<1>4. m <= Blocks(n) * UFS_BLOCK_SIZE
  BY <1>2, <1>3
<1> QED BY <1>1, <1>4, BlocksBound

LEMMA BlocksOfSmall == Blocks(0) = 0 /\ Blocks(2) = 1
<1>1. Blocks(0) \in Nat /\ Blocks(2) \in Nat
  BY BlocksBound
<1>2. Blocks(0) <= 0 /\ Blocks(2) <= 1 /\ ~(Blocks(2) <= 0)
  BY BlocksBound, SizesAssumption
<1> QED BY <1>1, <1>2

\* The size after the last position of a block is one block more.
LEMMA BlocksOfNext ==
  ASSUME NEW q \in Nat
  PROVE  Blocks(q * UFS_BLOCK_SIZE + 1) = q + 1
<1> DEFINE n == q * UFS_BLOCK_SIZE + 1
<1>1. n \in Nat
  BY SizesAssumption
<1>2. n <= (q + 1) * UFS_BLOCK_SIZE /\ ~(n <= q * UFS_BLOCK_SIZE)
  BY SizesAssumption
<1>3. Blocks(n) \in Nat /\ Blocks(n) <= q + 1 /\ ~(Blocks(n) <= q)
  <2> HIDE DEF n
  <2> QED BY <1>1, <1>2, BlocksBound
<1> QED BY <1>3

\* Repeated searches of the bitmap give different clear bits.
LEMMA LowestFreeIsNew ==
  ASSUME dataBitmap \subseteq DataBlock, NEW k \in Nat, NEW f \in LowestFree(k)
  PROVE  /\ f \in [0 .. k - 1 -> DataBlock]
         /\ \A x \in 0 .. k - 1 : f[x] \notin dataBitmap
         /\ \A x, y \in 0 .. k - 1 : f[x] = f[y] => x = y
<1>1. /\ f \in [0 .. k - 1 -> FreeBlocks]
      /\ \A x \in 0 .. k - 1, b \in FreeBlocks :
           b < f[x] <=> \E y \in 0 .. x - 1 : f[y] = b
  BY DEF LowestFree
<1>2. ASSUME NEW x \in 0 .. k - 1, NEW y \in 0 .. k - 1, x < y, f[x] = f[y]
      PROVE  FALSE
  <2>1. f[x] \in FreeBlocks /\ x \in 0 .. y - 1
    BY <1>1, <1>2
  <2>2. f[x] < f[y]
    BY <2>1, <1>1
  <2> QED BY <1>2, <2>1, <2>2 DEF FreeBlocks, DataBlock
<1> QED BY <1>1, <1>2 DEF FreeBlocks
-----------------------------------------------------------------------------
(* The two ways ownership changes.                                         *)

LEMMA Gain ==
  ASSUME BitmapIsExact, NEW N,
         Held' = Held \cup N, Held \cap N = {},
         \A o \in Held : Ptr(o)' = Ptr(o),
         dataBitmap' = dataBitmap \cup {Ptr(o)' : o \in N},
         \A o \in N : Ptr(o)' \notin dataBitmap,
         \A o, q \in N : Ptr(o)' = Ptr(q)' => o = q
  PROVE  BitmapIsExact'
  BY DEF BitmapIsExact

LEMMA Loss ==
  ASSUME BitmapIsExact, NEW G \in SUBSET Held,
         Held' = Held \ G,
         \A o \in Held \ G : Ptr(o)' = Ptr(o),
         dataBitmap' = dataBitmap \ {Ptr(o) : o \in G}
  PROVE  BitmapIsExact'
  BY DEF BitmapIsExact
-----------------------------------------------------------------------------
(* Reading a well-typed image.                                             *)

LEMMA OwnedPointer ==
  ASSUME IInv, NEW i \in inodeBitmap, NEW x \in Nat, x < Blocks(inodes[i].size)
  PROVE  /\ x \in Index
         /\ <<i, x>> \in Held
         /\ inodes[i].direct[x] \in dataBitmap
         /\ inodes[i].direct[x] \in DataBlock
<1>1. inodes[i].size \in Nat /\ dataBitmap \subseteq DataBlock
  BY DEF IInv, TypeOK, InodeRecord
<1>2. Blocks(inodes[i].size) \in Nat /\ Blocks(inodes[i].size) <= DIRECT_PTRS
  BY <1>1, BlocksBound DEF IInv, SizesFit
<1>3. x \in Index
  BY <1>2, SizesAssumption DEF Index
<1>4. <<i, x>> \in Held
  BY <1>3 DEF Held
<1>5. Ptr(<<i, x>>) \in dataBitmap
  BY <1>4 DEF IInv, BitmapIsExact
<1> QED BY <1>1, <1>3, <1>4, <1>5 DEF Ptr

LEMMA PositionIsTyped ==
  ASSUME IInv, NEW p \in inodeBitmap, NEW k \in Positions(p)
  PROVE  /\ k \in Nat
         /\ k \div UFS_BLOCK_SIZE \in Nat
         /\ k \div UFS_BLOCK_SIZE < Blocks(inodes[p].size)
         /\ k % UFS_BLOCK_SIZE \in Slot
         /\ EntryAt(p, k) \in Cell
<1> DEFINE q == Blocks(inodes[p].size)
<1>1. q \in Nat
  BY BlocksBound DEF IInv, TypeOK, InodeRecord
<1>2. k \in Nat /\ k < q * UFS_BLOCK_SIZE
  BY <1>1, SizesAssumption DEF Positions
<1>3. k \div UFS_BLOCK_SIZE \in Nat /\ k % UFS_BLOCK_SIZE \in Slot
  BY <1>2, Division, SizesAssumption DEF Slot
<1>4. k \div UFS_BLOCK_SIZE < q
  <2> HIDE DEF q
  <2> QED BY <1>1, <1>2, DivBelow, SizesAssumption
<1>5. inodes[p].direct[k \div UFS_BLOCK_SIZE] \in DataBlock
  BY <1>3, <1>4, OwnedPointer
<1>6. EntryAt(p, k) \in Cell
  BY <1>3, <1>5 DEF EntryAt, IInv, TypeOK
<1> QED BY <1>2, <1>3, <1>4, <1>6

LEMMA UsedIsPosition ==
  ASSUME IInv, NEW p \in inodeBitmap, NEW k \in Used(p)
  PROVE  k \in Positions(p)
<1> DEFINE n == inodes[p].size
           m == Blocks(n) * UFS_BLOCK_SIZE
<1>1. n \in Nat
  BY DEF IInv, TypeOK, InodeRecord
<1>2. n <= m /\ m \in Int
  BY <1>1, BlocksBound, SizesAssumption
<1>3. k \in 0 .. n - 1
  BY DEF Used
<1>4. k \in 0 .. m - 1
  <2> HIDE DEF n, m
  <2> QED BY <1>1, <1>2, <1>3
<1> QED BY <1>4 DEF Positions
-----------------------------------------------------------------------------
(* create                                                                  *)

\* A call that creates something has passed every check.
LEMMA CreateChecks ==
  ASSUME IInv, NEW p \in InodeArg, NEW t \in {UFS_DIRECTORY, UFS_REGULAR_FILE},
         NEW n \in NameArg, Create(p, t, n)
  PROVE  /\ p \in inodeBitmap /\ p \in Inode
         /\ n \in Names
         /\ CreateHasRoom(p, t)
         /\ CreateReturn(p, t, n) \in Inode \ inodeBitmap
<1>1. /\ IsDirectory(p)
      /\ lookup(p, n) = -ENOTFOUND
      /\ CreateReturn(p, t, n) >= 0
  BY DEF Create
<1>2. p \in inodeBitmap /\ p \in Inode
  BY <1>1 DEF IsDirectory, Allocated
<1>3. n \notin {"", LongName, ".", ".."} /\ CreateHasRoom(p, t)
      /\ CreateReturn(p, t, n) = Min(Inode \ inodeBitmap)
  <2>1. ~(lookup(p, n) >= 0) /\ ~(-EINVALIDNAME >= 0) /\ ~(-ENOTENOUGHSPACE >= 0)
    BY <1>1 DEF ENOTFOUND, EINVALIDNAME, ENOTENOUGHSPACE
  <2>2. n \notin {"", LongName, ".", ".."}
    BY <1>1, <2>1, Zenon DEF CreateReturn
  <2>3. CreateHasRoom(p, t)
    BY <1>1, <2>1, <2>2, Zenon DEF CreateReturn
  <2> QED BY <1>1, <2>1, <2>2, <2>3, Zenon DEF CreateReturn
<1>4. inodeBitmap \subseteq Inode /\ inodeBitmap # Inode
  BY <1>3 DEF IInv, TypeOK, CreateHasRoom
<1>5. Min(Inode \ inodeBitmap) \in Inode \ inodeBitmap
  <2>1. Inode \ inodeBitmap \subseteq Nat
    BY SizesAssumption DEF Inode
  <2> QED BY <1>4, <2>1, MinOfNaturals
<1> QED BY <1>2, <1>3, <1>5 DEF NameArg

\* Where the entry goes, and what that does to the size of the parent.
LEMMA CreatePlace ==
  ASSUME IInv, NEW p \in inodeBitmap, NEW q, q = Blocks(inodes[p].size),
         NEW k, k = CreatePosition(p)
  PROVE  /\ k \in Nat
         /\ k \div UFS_BLOCK_SIZE \in Nat
         /\ k % UFS_BLOCK_SIZE \in Slot
         /\ Larger(inodes[p].size, k + 1) \in Nat
         /\ NeedsBlock(p) =>
              /\ k \div UFS_BLOCK_SIZE = q
              /\ Blocks(Larger(inodes[p].size, k + 1)) = q + 1
         /\ ~NeedsBlock(p) =>
              /\ k \in Positions(p)
              /\ k \div UFS_BLOCK_SIZE < q
              /\ Blocks(Larger(inodes[p].size, k + 1)) = q
<1> DEFINE n == inodes[p].size
           m == q * UFS_BLOCK_SIZE
           S == {j \in Positions(p) : inodes[p].size <= j \/ EntryAt(p, j).inum = -1}
                  \cup {m}
<1>1. n \in Nat /\ q \in Nat /\ n <= m /\ m \in Nat
  BY BlocksBound, SizesAssumption DEF IInv, TypeOK, InodeRecord
<1>2. Positions(p) = 0 .. m - 1
  BY DEF Positions
<1>3. S \subseteq 0 .. m /\ S # {}
  BY <1>1, <1>2
<1>4. k \in S
  <2>1. k = Min(S)
    BY DEF CreatePosition
  <2>2. S \subseteq Nat
    BY <1>1, <1>3
  <2> QED BY <1>3, <2>1, <2>2, MinOfNaturals
<1>5. k \in 0 .. m
  BY <1>3, <1>4
<1>6. k \in Nat /\ k \div UFS_BLOCK_SIZE \in Nat /\ k % UFS_BLOCK_SIZE \in Slot
  <2>1. k \in Nat
    BY <1>1, <1>5
  <2> QED BY <2>1, Division, SizesAssumption DEF Slot
<1>7. Larger(n, k + 1) \in Nat
  BY <1>1, <1>6 DEF Larger
<1>8. CASE NeedsBlock(p)
  <2>1. k = m
    BY <1>2, <1>4, <1>5, <1>8 DEF NeedsBlock
  <2>2. Larger(n, k + 1) = q * UFS_BLOCK_SIZE + 1
    BY <1>1, <2>1 DEF Larger
  <2>3. Blocks(Larger(n, k + 1)) = q + 1
    BY <1>1, <2>2, BlocksOfNext
  <2>4. k \div UFS_BLOCK_SIZE = q
    <3>1. ~(k < q * UFS_BLOCK_SIZE) /\ k < (q + 1) * UFS_BLOCK_SIZE
      BY <1>1, <2>1, SizesAssumption
    <3>2. ~(k \div UFS_BLOCK_SIZE < q) /\ k \div UFS_BLOCK_SIZE < q + 1
      BY <1>1, <1>6, <3>1, DivBelow, SizesAssumption
    <3> QED BY <1>1, <1>6, <3>2
  <2> QED BY <1>6, <1>7, <1>8, <2>3, <2>4
<1>9. CASE ~NeedsBlock(p)
  <2>1. k \in Positions(p)
    BY <1>9 DEF NeedsBlock
  <2>2. k \div UFS_BLOCK_SIZE < q
    BY <2>1, PositionIsTyped
  <2>3. n <= Larger(n, k + 1) /\ Larger(n, k + 1) <= m
    <3> HIDE DEF m, n
    <3> QED BY <1>1, <1>2, <2>1 DEF Larger
  <2>4. Blocks(Larger(n, k + 1)) \in Nat
        /\ Blocks(Larger(n, k + 1)) <= q /\ q <= Blocks(Larger(n, k + 1))
    BY <1>1, <1>7, <2>3, BlocksMonotone, BlocksBound
  <2>5. Blocks(Larger(n, k + 1)) = q
    BY <1>1, <2>4
  <2> QED BY <1>6, <1>7, <1>9, <2>1, <2>2, <2>5
<1> QED BY <1>8, <1>9

\* The blocks create uses when it fills them.
LEMMA MarkedUnusedIsTyped ==
  ASSUME NEW c \in Cell
  PROVE  Entry(c.name, -1) \in Cell
<1> DEFINE N == Names \cup Values \cup {".", "..", "", "inode"}
<1>1. Cell = [name : N, inum : Int]
  BY DEF Cell
<1> HIDE DEF N
<1> QED BY <1>1 DEF Entry

LEMMA FreshBlocksAreTyped ==
  ASSUME NEW i \in Int, NEW p \in Int
  PROVE  /\ UnusedBlock \in [Slot -> Cell]
         /\ ZeroBlock \in [Slot -> Cell]
         /\ NewDirBlock(i, p) \in [Slot -> Cell]
<1>1. Entry("", -1) \in Cell /\ Entry("", 0) \in Cell
  BY DEF Entry, Cell
<1>2. Entry(".", i) \in Cell /\ Entry("..", p) \in Cell
  BY DEF Entry, Cell
<1>3. UnusedBlock \in [Slot -> Cell] /\ ZeroBlock \in [Slot -> Cell]
  BY <1>1 DEF UnusedBlock, ZeroBlock
<1> QED BY <1>2, <1>3 DEF NewDirBlock

\* Types of the two inodes create writes, and of the block it puts the entry
\* in; a and b are the blocks the parent and the new directory get, if they do.
LEMMA CreateIsTyped ==
  ASSUME IInv, NEW p \in inodeBitmap, NEW i \in Inode, NEW a, NEW b,
         NEW t \in {UFS_DIRECTORY, UFS_REGULAR_FILE}, NEW n \in Names,
         NeedsBlock(p) => a \in DataBlock, t = UFS_DIRECTORY => b \in DataBlock
  PROVE  /\ Extended(p, a) \in InodeRecord
         /\ Created(i, t, b) \in InodeRecord
         /\ WithEntry(p, Extended(p, a).direct[CreatePosition(p) \div UFS_BLOCK_SIZE], n, i)
              \in [Slot -> Cell]
<1> DEFINE k == CreatePosition(p)
           h == Extended(p, a).direct[k \div UFS_BLOCK_SIZE]
<1>1. /\ inodes[p] \in InodeRecord
      /\ inodes[i] \in InodeRecord
      /\ dataRegion \in [DataBlock -> [Slot -> Cell]]
  BY DEF IInv, TypeOK
<1>2. /\ k \div UFS_BLOCK_SIZE \in Nat
      /\ k % UFS_BLOCK_SIZE \in Slot
      /\ Larger(inodes[p].size, k + 1) \in Nat
      /\ ~NeedsBlock(p) => k \div UFS_BLOCK_SIZE < Blocks(inodes[p].size)
  BY CreatePlace
<1>3. Extended(p, a) \in InodeRecord
  BY <1>1, <1>2 DEF Extended, InodeRecord, Pointer
<1>4. Created(i, t, b) \in InodeRecord
  BY <1>1 DEF Created, InodeRecord, Pointer
<1>5. Entry(n, i) \in Cell
  <2>1. i \in Int
    BY SizesAssumption DEF Inode
  <2> QED BY <2>1 DEF Entry, Cell
<1>6. ~NeedsBlock(p) => dataRegion[h] \in [Slot -> Cell]
  <2>1. ~NeedsBlock(p) => h = inodes[p].direct[k \div UFS_BLOCK_SIZE]
    BY DEF Extended
  <2>2. ~NeedsBlock(p) => h \in DataBlock
    BY <2>1, <1>2, OwnedPointer
  <2> HIDE DEF h
  <2> QED BY <2>2, <1>1
<1>7. UnusedBlock \in [Slot -> Cell]
  BY FreshBlocksAreTyped
<1>8. WithEntry(p, h, n, i) \in [Slot -> Cell]
  <2> HIDE DEF h
  <2> QED BY <1>2, <1>5, <1>6, <1>7 DEF WithEntry
<1> QED BY <1>3, <1>4, <1>8

\* What create does with inode i and the free blocks f, if it does anything.
CreateEffect(p, t, n, i, own, f) ==
  LET home == Extended(p, f[own]).direct[CreatePosition(p) \div UFS_BLOCK_SIZE]
  IN /\ inodeBitmap' = inodeBitmap \cup {i}
     /\ dataBitmap' = dataBitmap \cup {f[x] : x \in DOMAIN f}
     /\ inodes' = [inodes EXCEPT ![p] = Extended(p, f[own]), ![i] = Created(i, t, f[0])]
     /\ dataRegion' = [b \in DataBlock |->
          IF b = home THEN WithEntry(p, home, n, i)
          ELSE IF own = 1 /\ b = f[0] THEN NewDirBlock(i, p)
          ELSE dataRegion[b]]

LEMMA CreateStep ==
  ASSUME IInv, NEW p \in InodeArg, NEW t \in {UFS_DIRECTORY, UFS_REGULAR_FILE},
         NEW n \in NameArg, Create(p, t, n)
  PROVE  \E i \in Inode \ inodeBitmap, f \in LowestFree(CreateBlocks(p, t)) :
           CreateEffect(p, t, n, i, IF t = UFS_DIRECTORY THEN 1 ELSE 0, f)
<1> DEFINE i == CreateReturn(p, t, n)
           own == IF t = UFS_DIRECTORY THEN 1 ELSE 0
<1>1. i \in Inode \ inodeBitmap
  BY CreateChecks
<1>2. \E f \in LowestFree(CreateBlocks(p, t)) : CreateEffect(p, t, n, i, own, f)
  BY Zenon DEF Create, CreateEffect
<1> QED BY <1>1, <1>2

LEMMA CreateKeepsIInv ==
  ASSUME IInv, NEW p \in InodeArg, NEW t \in {UFS_DIRECTORY, UFS_REGULAR_FILE},
         NEW n \in NameArg, Create(p, t, n)
  PROVE  IInv'
<1> DEFINE own == IF t = UFS_DIRECTORY THEN 1 ELSE 0
           k == CreatePosition(p)
<1>1. /\ p \in inodeBitmap /\ p \in Inode
      /\ n \in Names
      /\ CreateHasRoom(p, t)
  BY CreateChecks
<1>2. PICK i \in Inode \ inodeBitmap, f \in LowestFree(CreateBlocks(p, t)) :
        CreateEffect(p, t, n, i, own, f)
  BY CreateStep
<1>3. /\ inodeBitmap \subseteq Inode
      /\ dataBitmap \subseteq DataBlock
      /\ inodes \in [Inode -> InodeRecord]
      /\ dataRegion \in [DataBlock -> [Slot -> Cell]]
  BY DEF IInv, TypeOK
\* The size of the parent, and the blocks taken.
<1>q. PICK q \in Nat : q = Blocks(inodes[p].size) /\ q <= DIRECT_PTRS
  BY <1>1, <1>3, BlocksBound DEF IInv, SizesFit, InodeRecord
<1>g. PICK grow \in {0, 1} : grow = 1 <=> NeedsBlock(p)
  <2>1. CASE NeedsBlock(p)
    BY <2>1
  <2>2. CASE ~NeedsBlock(p)
    BY <2>2
  <2> QED BY <2>1, <2>2
<1> DEFINE c == own + grow
<1>4. c \in Nat /\ CreateBlocks(p, t) = c
  BY <1>g DEF CreateBlocks
<1>5. /\ f \in [0 .. c - 1 -> DataBlock]
      /\ \A x \in 0 .. c - 1 : f[x] \notin dataBitmap
      /\ \A x, y \in 0 .. c - 1 : f[x] = f[y] => x = y
  <2> HIDE DEF c
  <2> QED BY <1>3, <1>4, LowestFreeIsNew
<1>6. /\ t = UFS_DIRECTORY => 0 \in 0 .. c - 1 /\ f[0] \in DataBlock
      /\ NeedsBlock(p) => own \in 0 .. c - 1 /\ f[own] \in DataBlock
  BY <1>5, <1>g
\* The two inodes it writes.
<1>7. /\ inodeBitmap' = inodeBitmap \cup {i}
      /\ dataBitmap' = dataBitmap \cup {f[x] : x \in 0 .. c - 1}
      /\ inodes' = [inodes EXCEPT ![p] = Extended(p, f[own]), ![i] = Created(i, t, f[0])]
  BY <1>2, <1>5, Zenon DEF CreateEffect
<1>8. /\ Extended(p, f[own]) \in InodeRecord
      /\ Created(i, t, f[0]) \in InodeRecord
      /\ WithEntry(p, Extended(p, f[own]).direct[k \div UFS_BLOCK_SIZE], n, i) \in [Slot -> Cell]
  <2> HIDE DEF own
  <2> QED BY <1>1, <1>6, CreateIsTyped
<1>9. /\ inodes' \in [Inode -> InodeRecord]
      /\ inodes'[p] = Extended(p, f[own])
      /\ inodes'[i] = Created(i, t, f[0])
      /\ \A j \in Inode \ {p, i} : inodes'[j] = inodes[j]
  <2> HIDE DEF own
  <2> QED BY <1>1, <1>3, <1>7, <1>8
<1>10. TypeOK'
  <2>1. inodeBitmap' \subseteq Inode /\ dataBitmap' \subseteq DataBlock
    <3> HIDE DEF c
    <3> QED BY <1>3, <1>5, <1>7
  <2>2. NewDirBlock(i, p) \in [Slot -> Cell]
    <3>1. i \in Int /\ p \in Int
      BY <1>1, SizesAssumption DEF Inode
    <3> QED BY <3>1, FreshBlocksAreTyped
  <2>3. dataRegion' \in [DataBlock -> [Slot -> Cell]]
    <3> HIDE DEF own, k
    <3> QED BY <1>2, <1>3, <1>8, <2>2 DEF CreateEffect, k
  <2> QED BY <1>9, <2>1, <2>3 DEF TypeOK
\* Their sizes in blocks.
<1>11. /\ Blocks(inodes'[p].size) = q + grow
       /\ Blocks(inodes'[i].size) = own
  <2>2. inodes'[p].size = Larger(inodes[p].size, k + 1)
    BY <1>9 DEF Extended
  <2>3. Blocks(inodes'[p].size) = q + grow
    BY <1>1, <1>q, <1>g, <2>2, CreatePlace
  <2>4. inodes'[i].size = 2 * own
    BY <1>9 DEF Created
  <2>5. Blocks(inodes'[i].size) = own
    BY <2>4, BlocksOfSmall
  <2> QED BY <2>3, <2>5
<1>12. SizesFit'
  <2>1. q + grow <= DIRECT_PTRS /\ own <= DIRECT_PTRS
    BY <1>1, <1>q, <1>g, SizesAssumption DEF CreateHasRoom
  <2> HIDE DEF own
  <2>2. ASSUME NEW j \in inodeBitmap' PROVE Blocks(inodes'[j].size) <= DIRECT_PTRS
    <3>1. CASE j \in {p, i}
      BY <3>1, <2>1, <1>11
    <3>2. CASE j \notin {p, i}
      BY <3>2, <1>3, <1>7, <1>9 DEF IInv, SizesFit
    <3> QED BY <3>1, <3>2
  <2> QED BY <2>2 DEF SizesFit, Blocks
\* The pairs it adds.
<1> DEFINE N == {o \in {p, i} \X Index :
                   \/ grow = 1 /\ o = <<p, q>>
                   \/ own = 1 /\ o = <<i, 0>>}
<1>13. /\ 0 \in Index
       /\ grow = 1 => q \in Index
  BY <1>1, <1>q, <1>g, SizesAssumption DEF Index, CreateHasRoom
<1>14. /\ grow = 1 => Ptr(<<p, q>>)' = f[own]
       /\ own = 1 => Ptr(<<i, 0>>)' = f[0]
  <2>1. grow = 1 => k \div UFS_BLOCK_SIZE = q
    BY <1>1, <1>q, <1>g, CreatePlace
  <2>2. grow = 1 => inodes'[p].direct[q] = f[own]
    BY <1>1, <1>3, <1>9, <1>13, <1>g, <2>1 DEF Extended, InodeRecord
  <2>3. own = 1 => inodes'[i].direct[0] = f[0]
    BY <1>3, <1>9, <1>13 DEF Created, InodeRecord
  <2> QED BY <2>2, <2>3 DEF Ptr
<1>15. Held' = Held \cup N
  <2>1. ASSUME NEW j \in inodeBitmap \cup {i}, NEW x \in Index
        PROVE  <<j, x>> \in Held' <=> <<j, x>> \in Held \cup N
    <3>1. <<j, x>> \in Held' <=> x < Blocks(inodes'[j].size)
      BY <1>7 DEF Held, Blocks
    <3>2. <<j, x>> \in Held <=> j \in inodeBitmap /\ x < Blocks(inodes[j].size)
      BY DEF Held
    <3>3. CASE j = p
      <4>1. <<j, x>> \in N <=> grow = 1 /\ x = q
        BY <1>1, <1>2, <3>3
      <4> HIDE DEF own, N
      <4> QED BY <1>1, <1>g, <1>q, <1>11, <3>1, <3>2, <3>3, <4>1 DEF Index
    <3>4. CASE j = i
      <4>1. <<j, x>> \in N <=> own = 1 /\ x = 0
        BY <1>1, <1>2, <3>4
      <4> QED BY <1>2, <1>11, <3>1, <3>2, <3>4, <4>1 DEF Index
    <3>5. CASE j \notin {p, i}
      <4>1. <<j, x>> \notin N
        BY <3>5
      <4>2. inodes'[j] = inodes[j] /\ j \in inodeBitmap
        BY <1>3, <1>9, <3>5
      <4> HIDE DEF own, N
      <4> QED BY <3>1, <3>2, <4>1, <4>2
    <3> QED BY <3>3, <3>4, <3>5
  <2>2. /\ Held' \subseteq (inodeBitmap \cup {i}) \X Index
        /\ Held \cup N \subseteq (inodeBitmap \cup {i}) \X Index
    BY <1>1, <1>7 DEF Held
  <2> HIDE DEF own, N
  <2> QED BY <2>1, <2>2
<1>16. Held \cap N = {}
  BY <1>2, <1>q DEF Held
<1>17. ASSUME NEW o \in Held PROVE Ptr(o)' = Ptr(o)
  <2>1. /\ o[1] \in inodeBitmap /\ o[1] # i
        /\ o[2] \in Index /\ o[2] < Blocks(inodes[o[1]].size)
    BY <1>2 DEF Held
  <2>2. CASE o[1] = p
    <3>1. NeedsBlock(p) => k \div UFS_BLOCK_SIZE = q
      BY <1>1, <1>q, CreatePlace
    <3>2. inodes'[p].direct[o[2]] = inodes[p].direct[o[2]]
      BY <1>1, <1>3, <1>9, <1>q, <2>1, <2>2, <3>1 DEF Extended, InodeRecord, Index
    <3> QED BY <2>2, <3>2 DEF Ptr
  <2>3. CASE o[1] # p
    <3>1. inodes'[o[1]] = inodes[o[1]]
      BY <1>3, <1>9, <2>1, <2>3
    <3> QED BY <3>1 DEF Ptr
  <2> QED BY <2>2, <2>3
<1>18. dataBitmap' = dataBitmap \cup {Ptr(o)' : o \in N}
  <2>1. ASSUME NEW x \in 0 .. c - 1 PROVE \E o \in N : f[x] = Ptr(o)'
    <3>1. CASE x = 0 /\ own = 1
      BY <1>13, <1>14, <3>1
    <3>2. CASE ~(x = 0 /\ own = 1)
      <4>1. x = own /\ grow = 1
        BY <1>g, <3>2
      <4> QED BY <1>13, <1>14, <4>1
    <3> QED BY <3>1, <3>2
  <2>2. ASSUME NEW o \in N PROVE \E x \in 0 .. c - 1 : f[x] = Ptr(o)'
    <3>1. CASE grow = 1 /\ o = <<p, q>>
      BY <1>6, <1>14, <1>g, <3>1
    <3>2. CASE own = 1 /\ o = <<i, 0>>
      BY <1>6, <1>14, <3>2
    <3> QED BY <3>1, <3>2
  <2> HIDE DEF N, c
  <2> QED BY <1>7, <2>1, <2>2
<1>19. ASSUME NEW o \in N PROVE Ptr(o)' \notin dataBitmap
  <2>1. CASE grow = 1 /\ o = <<p, q>>
    BY <1>5, <1>6, <1>14, <1>g, <2>1
  <2>2. CASE own = 1 /\ o = <<i, 0>>
    BY <1>5, <1>6, <1>14, <2>2
  <2> QED BY <2>1, <2>2
<1>20. ASSUME NEW o \in N, NEW r \in N, Ptr(o)' = Ptr(r)' PROVE o = r
  <2>1. grow = 1 /\ own = 1 => f[0] # f[own]
    BY <1>5, <1>6, <1>g
  <2>2. /\ (grow = 1 /\ o = <<p, q>>) \/ (own = 1 /\ o = <<i, 0>>)
        /\ (grow = 1 /\ r = <<p, q>>) \/ (own = 1 /\ r = <<i, 0>>)
    OBVIOUS
  <2> HIDE DEF own, N
  <2> QED BY <1>14, <1>20, <2>1, <2>2
<1>21. BitmapIsExact'
  <2>1. BitmapIsExact
    BY DEF IInv
  <2> HIDE DEF N
  <2> QED BY <2>1, <1>15, <1>16, <1>17, <1>18, <1>19, <1>20, Gain
<1> QED BY <1>10, <1>12, <1>21 DEF IInv
-----------------------------------------------------------------------------
(* write                                                                   *)

LEMMA WriteChecks ==
  ASSUME IInv, NEW i \in InodeArg, NEW n \in Sizes, WriteReturn(i, n) > 0
  PROVE  /\ i \in inodeBitmap /\ i \in Inode
         /\ n \in Nat
         /\ Blocks(n) \in Nat /\ Blocks(n) <= DIRECT_PTRS
         /\ Blocks(inodes[i].size) \in Nat /\ Blocks(inodes[i].size) <= DIRECT_PTRS
<1>1. n \in Int
  BY SizesAssumption
<1>2. /\ ~(-EINVALIDSIZE > 0) /\ ~(-ENOTENOUGHSPACE > 0)
      /\ ~(-EINVALIDINODE > 0) /\ ~(-EWRITETODIR > 0)
  BY DEF EINVALIDSIZE, ENOTENOUGHSPACE, EINVALIDINODE, EWRITETODIR
<1>3. ~(n <= 0) /\ ~(Blocks(n) > DIRECT_PTRS) /\ Allocated(i)
  <2>1. ~(n <= 0)
    BY <1>2, Zenon DEF WriteReturn
  <2>2. ~(Blocks(n) > DIRECT_PTRS)
    BY <1>2, <2>1, Zenon DEF WriteReturn
  <2>3. Allocated(i)
    BY <1>2, <2>1, <2>2, Zenon DEF WriteReturn
  <2> QED BY <2>1, <2>2, <2>3
<1>4. i \in inodeBitmap /\ i \in Inode
  BY <1>3 DEF Allocated
<1>5. n \in Nat /\ inodes[i].size \in Nat
  BY <1>1, <1>3, <1>4 DEF IInv, TypeOK, InodeRecord
<1>6. Blocks(n) \in Nat /\ Blocks(inodes[i].size) \in Nat
  BY <1>5, BlocksBound
<1>7. Blocks(n) <= DIRECT_PTRS
  BY <1>3, <1>6, SizesAssumption
<1> QED BY <1>4, <1>5, <1>6, <1>7 DEF IInv, SizesFit

LEMMA WriteKeepsIInv ==
  ASSUME IInv, NEW i \in InodeArg, NEW v \in Values, NEW n \in Sizes, Write(i, v, n)
  PROVE  IInv'
<1>1. /\ i \in inodeBitmap /\ i \in Inode
      /\ n \in Nat
      /\ Blocks(n) \in Nat /\ Blocks(n) <= DIRECT_PTRS
      /\ Blocks(inodes[i].size) \in Nat /\ Blocks(inodes[i].size) <= DIRECT_PTRS
  BY WriteChecks DEF Write
<1>2. /\ inodeBitmap \subseteq Inode
      /\ dataBitmap \subseteq DataBlock
      /\ inodes \in [Inode -> InodeRecord]
      /\ dataRegion \in [DataBlock -> [Slot -> Cell]]
  BY DEF IInv, TypeOK
\* The block counts before and after, and the blocks taken.
<1>b. PICK before \in Nat : before = Blocks(inodes[i].size) /\ before <= DIRECT_PTRS
  BY <1>1
<1>a. PICK after \in Nat : after = Blocks(n) /\ after <= DIRECT_PTRS
  BY <1>1
<1>c. PICK c \in Nat : c = IF before < after THEN after - before ELSE 0
  BY <1>a, <1>b
<1>3. Larger(0, Blocks(n) - Blocks(inodes[i].size)) = c
  BY <1>a, <1>b, <1>c DEF Larger
<1>4. PICK f \in LowestFree(c) :
        LET at(b) == {x \in 0 .. Blocks(n) - 1 : Repointed(i, n, f)[x] = b}
        IN /\ dataBitmap' = (dataBitmap \cup {f[x] : x \in DOMAIN f}) \ WriteFrees(i, n)
           /\ inodes' = [inodes EXCEPT
                ![i] = [type |-> inodes[i].type, size |-> n, direct |-> Repointed(i, n, f)]]
           /\ dataRegion' = [b \in DataBlock |->
                IF at(b) # {} THEN FileBlock(v, n, Max(at(b))) ELSE dataRegion[b]]
  BY <1>3, Zenon DEF Write
<1>5. /\ f \in [0 .. c - 1 -> DataBlock]
      /\ \A x \in 0 .. c - 1 : f[x] \notin dataBitmap
      /\ \A x, y \in 0 .. c - 1 : f[x] = f[y] => x = y
  BY <1>2, LowestFreeIsNew
<1>6. inodeBitmap' = inodeBitmap
  BY DEF Write
<1>7. /\ Repointed(i, n, f) \in [Index -> Pointer]
      /\ \A x \in Index :
           /\ x \in before .. after - 1 => Repointed(i, n, f)[x] = f[x - before]
           /\ x < before /\ x < after => Repointed(i, n, f)[x] = inodes[i].direct[x]
  <2>1. inodes[i].direct \in [Index -> Pointer]
    BY <1>1, <1>2 DEF InodeRecord
  <2>2. \A x \in before .. after - 1 : f[x - before] \in DataBlock
    BY <1>5, <1>c
  <2>3. Repointed(i, n, f) = [x \in Index |->
          IF x \in before .. after - 1 THEN f[x - before]
          ELSE IF x \in after .. before - 1 THEN Unset
          ELSE inodes[i].direct[x]]
    BY <1>a, <1>b, Zenon DEF Repointed
  <2>4. ASSUME NEW x \in Index
        PROVE  (IF x \in before .. after - 1 THEN f[x - before]
                ELSE IF x \in after .. before - 1 THEN Unset
                ELSE inodes[i].direct[x]) \in Pointer
    BY <2>1, <2>2 DEF Pointer
  <2>5. Repointed(i, n, f) \in [Index -> Pointer]
    BY <2>3, <2>4
  <2>6. ASSUME NEW x \in Index
        PROVE  /\ x \in before .. after - 1 => Repointed(i, n, f)[x] = f[x - before]
               /\ x < before /\ x < after => Repointed(i, n, f)[x] = inodes[i].direct[x]
    BY <2>3 DEF Index
  <2> QED BY <2>5, <2>6
<1>8. /\ inodes' \in [Inode -> InodeRecord]
      /\ inodes'[i].size = n
      /\ inodes'[i].direct = Repointed(i, n, f)
      /\ \A j \in Inode \ {i} : inodes'[j] = inodes[j]
  BY <1>1, <1>2, <1>4, <1>7 DEF InodeRecord
<1>9. TypeOK'
  <2>1. dataBitmap' \subseteq DataBlock
    BY <1>2, <1>4, <1>5
  <2>2. ASSUME NEW x \in 0 .. Blocks(n) - 1
        PROVE  FileBlock(v, n, x) \in [Slot -> Cell]
    <3>1. \A s \in Slot : x * UFS_BLOCK_SIZE + s \in Int
      BY <1>1, SizesAssumption DEF Slot
    <3>2. \A y \in Int : Entry(v, y) \in Cell
      BY DEF Entry, Cell
    <3>3. Entry("inode", 0) \in Cell
      BY DEF Entry, Cell
    <3> QED BY <3>1, <3>2, <3>3 DEF FileBlock
  <2> DEFINE at(b) == {x \in 0 .. Blocks(n) - 1 : Repointed(i, n, f)[x] = b}
  <2>3. ASSUME NEW b \in DataBlock
        PROVE  (IF at(b) # {} THEN FileBlock(v, n, Max(at(b))) ELSE dataRegion[b]) \in [Slot -> Cell]
    <3>1. at(b) \subseteq 0 .. Blocks(n) - 1
      OBVIOUS
    <3> HIDE DEF at
    <3>2. at(b) # {} => Max(at(b)) \in 0 .. Blocks(n) - 1
      BY <3>1, <1>1, MaxOfBounded
    <3> QED BY <3>2, <2>2, <1>2
  <2>4. dataRegion' \in [DataBlock -> [Slot -> Cell]]
    BY <1>4, <2>3
  <2> QED BY <1>2, <1>6, <1>8, <2>1, <2>4 DEF TypeOK
<1>10. SizesFit'
  BY <1>1, <1>2, <1>6, <1>8 DEF IInv, SizesFit, Blocks
<1>11. BitmapIsExact
  BY DEF IInv
<1>h. ASSUME NEW j \in inodeBitmap, NEW x \in Index
      PROVE  /\ <<j, x>> \in Held <=> x < IF j = i THEN before ELSE Blocks(inodes[j].size)
             /\ <<j, x>> \in Held' <=> x < IF j = i THEN after ELSE Blocks(inodes[j].size)
             /\ j # i => Ptr(<<j, x>>)' = Ptr(<<j, x>>)
  <2>1. j # i => inodes'[j] = inodes[j]
    BY <1>2, <1>8
  <2>2. <<j, x>> \in Held' <=> x < Blocks(inodes'[j].size)
    BY <1>6 DEF Held, Blocks
  <2>3. <<j, x>> \in Held <=> x < Blocks(inodes[j].size)
    BY DEF Held
  <2>4. j = i => Blocks(inodes'[j].size) = after
    BY <1>8, <1>a
  <2> QED BY <2>1, <2>2, <2>3, <2>4, <1>b DEF Ptr
<1>i. Held \subseteq inodeBitmap \X Index /\ Held' \subseteq inodeBitmap \X Index
  BY <1>6 DEF Held
\* The file grows, or keeps its blocks.
<1>12. CASE before <= after
  <2> DEFINE N == {o \in {i} \X Index : o[2] \in before .. after - 1}
  <2>1. WriteFrees(i, n) = {}
    BY <1>a, <1>b, <1>12 DEF WriteFrees
  <2>2. c = after - before
    BY <1>c, <1>12
  <2>3. ASSUME NEW o \in N
        PROVE  /\ o[2] - before \in 0 .. c - 1
               /\ Ptr(o)' = f[o[2] - before]
               /\ o = <<i, o[2]>>
    <3>1. o[2] \in before .. after - 1 /\ o[2] \in Index /\ o[1] = i /\ o = <<i, o[2]>>
      OBVIOUS
    <3>2. Ptr(o)' = Repointed(i, n, f)[o[2]]
      BY <1>8, <3>1 DEF Ptr
    <3> QED BY <2>2, <1>7, <3>1, <3>2
  <2>4. Held' = Held \cup N
    <3>1. ASSUME NEW j \in inodeBitmap, NEW x \in Index
          PROVE  <<j, x>> \in Held' <=> <<j, x>> \in Held \cup N
      <4>1. <<j, x>> \in N <=> j = i /\ x \in before .. after - 1
        OBVIOUS
      <4> HIDE DEF N
      <4> QED BY <1>h, <1>12, <4>1 DEF Index
    <3>2. N \subseteq inodeBitmap \X Index
      BY <1>1
    <3> HIDE DEF N
    <3> QED BY <1>i, <3>1, <3>2
  <2>5. Held \cap N = {}
    <3>1. ASSUME NEW o \in N PROVE o \notin Held
      BY <2>3, <1>h, <1>1
    <3> QED BY <3>1
  <2>6. ASSUME NEW o \in Held PROVE Ptr(o)' = Ptr(o)
    <3>1. o[1] \in inodeBitmap /\ o[2] \in Index /\ o = <<o[1], o[2]>>
      BY <1>i
    <3>2. CASE o[1] = i
      <4>1. o[2] < before /\ o[2] < after
        BY <1>h, <1>12, <3>1, <3>2 DEF Index
      <4> QED BY <1>7, <1>8, <3>1, <3>2, <4>1 DEF Ptr
    <3>3. CASE o[1] # i
      BY <1>h, <3>1, <3>3
    <3> QED BY <3>2, <3>3
  <2>7. dataBitmap' = dataBitmap \cup {Ptr(o)' : o \in N}
    <3>1. ASSUME NEW x \in 0 .. c - 1 PROVE \E o \in N : f[x] = Ptr(o)'
      <4>0. x + before \in before .. after - 1 /\ x + before \in Index
        BY <1>a, <2>2, SizesAssumption DEF Index
      <4>1. <<i, x + before>> \in N
        BY <4>0
      <4>2. Ptr(<<i, x + before>>)' = f[(x + before) - before]
        BY <4>1, <2>3
      <4> QED BY <4>1, <4>2
    <3>2. dataBitmap' = dataBitmap \cup {f[x] : x \in 0 .. c - 1}
      BY <1>4, <1>5, <2>1
    <3> HIDE DEF N
    <3> QED BY <2>3, <3>1, <3>2
  <2>8. ASSUME NEW o \in N PROVE Ptr(o)' \notin dataBitmap
    BY <1>5, <2>3
  <2>9. ASSUME NEW o \in N, NEW q \in N, Ptr(o)' = Ptr(q)' PROVE o = q
    <3>1. o[2] - before = q[2] - before
      BY <1>5, <2>3, <2>9
    <3> QED BY <2>3, <3>1
  <2> HIDE DEF N
  <2>10. BitmapIsExact'
    BY <1>11, <2>4, <2>5, <2>6, <2>7, <2>8, <2>9, Gain
  <2> QED BY <1>9, <1>10, <2>10 DEF IInv
\* The file shrinks.
<1>13. CASE after < before
  <2> DEFINE G == {o \in Held : o[1] = i /\ o[2] >= after}
  <2>1. ASSUME NEW o \in Held
        PROVE  o[1] \in inodeBitmap /\ o[2] \in Index /\ o = <<o[1], o[2]>>
    BY <1>i
  <2>2. Held' = Held \ G
    <3>1. ASSUME NEW j \in inodeBitmap, NEW x \in Index
          PROVE  <<j, x>> \in Held' <=> <<j, x>> \in Held \ G
      <4>1. <<j, x>> \in G <=> <<j, x>> \in Held /\ j = i /\ x >= after
        OBVIOUS
      <4> HIDE DEF G
      <4> QED BY <1>h, <1>13, <4>1 DEF Index
    <3> HIDE DEF G
    <3> QED BY <1>i, <3>1
  <2>3. ASSUME NEW o \in Held \ G PROVE Ptr(o)' = Ptr(o)
    <3>1. CASE o[1] = i
      <4>1. o[2] < before /\ o[2] < after /\ o[2] \in Index
        BY <1>h, <1>13, <2>1, <3>1 DEF Index
      <4> QED BY <1>7, <1>8, <3>1, <4>1 DEF Ptr
    <3>2. CASE o[1] # i
      BY <1>h, <2>1, <3>2
    <3> QED BY <3>1, <3>2
  <2>4. dataBitmap' = dataBitmap \ WriteFrees(i, n)
    <3>1. 0 .. c - 1 = {}
      BY <1>c, <1>13
    <3>2. {f[x] : x \in DOMAIN f} = {}
      BY <1>5, <3>1
    <3> QED BY <1>4, <3>2
  <2>5. WriteFrees(i, n) = {Ptr(o) : o \in G}
    <3>1. WriteFrees(i, n) = {inodes[i].direct[x] : x \in after .. before - 1}
      BY <1>a, <1>b DEF WriteFrees
    <3>2. ASSUME NEW x \in after .. before - 1
          PROVE  \E o \in G : inodes[i].direct[x] = Ptr(o)
      <4>1. x \in Index
        BY <1>a, <1>b, SizesAssumption DEF Index
      <4>2. <<i, x>> \in G
        BY <1>1, <1>b, <1>h, <4>1 DEF Index
      <4> QED BY <4>2 DEF Ptr
    <3>3. ASSUME NEW o \in G
          PROVE  \E x \in after .. before - 1 : inodes[i].direct[x] = Ptr(o)
      <4>1. o[2] \in after .. before - 1 /\ o[1] = i
        BY <1>h, <2>1 DEF Index
      <4> QED BY <4>1 DEF Ptr
    <3> HIDE DEF G
    <3> QED BY <3>1, <3>2, <3>3
  <2>6. G \in SUBSET Held
    OBVIOUS
  <2> HIDE DEF G
  <2>7. BitmapIsExact'
    BY <1>11, <2>2, <2>3, <2>4, <2>5, <2>6, Loss
  <2> QED BY <1>9, <1>10, <2>7 DEF IInv
<1> QED BY <1>12, <1>13, <1>a, <1>b
-----------------------------------------------------------------------------
(* unlink                                                                  *)

\* The target is not the parent: the entry found would make the parent a
\* directory that is not empty.
LEMMA UnlinkChecks ==
  ASSUME IInv, NEW p \in InodeArg, NEW n \in NameArg, UnlinkReturn(p, n) = 0,
         NEW e, e = Min(UnlinkHits(p, n)), NEW t, t = EntryAt(p, e).inum
  PROVE  /\ p \in inodeBitmap /\ p \in Inode
         /\ inodes[p].size \in Nat /\ inodes[p].size >= 2
         /\ e \in Used(p) /\ e \in Nat
         /\ t \in inodeBitmap /\ t \in Inode
         /\ t # p
<1>1. /\ -EINVALIDNAME # 0 /\ -EINVALIDINODE # 0
      /\ -EUNLINKNOTALLOWED # 0 /\ -EDIRNOTEMPTY # 0
  BY DEF EINVALIDNAME, EINVALIDINODE, EUNLINKNOTALLOWED, EDIRNOTEMPTY
<1>2. n \notin {".", ".."} /\ n # ""
  BY <1>1, Zenon DEF UnlinkReturn
<1>3. ~(~IsDirectory(p) \/ inodes[p].size < 2)
  BY <1>1, <1>2, Zenon DEF UnlinkReturn
<1>4. UnlinkHits(p, n) # {}
  BY <1>1, <1>2, <1>3, Zenon DEF UnlinkReturn
<1>5. ~(t < 0)
  BY <1>1, <1>2, <1>3, <1>4, Zenon DEF UnlinkReturn
<1>6. Allocated(t)
  BY <1>1, <1>2, <1>3, <1>4, <1>5, Zenon DEF UnlinkReturn
<1>7. ~(IsDirectory(t) /\ ~IsEmptyDirectory(t))
  BY <1>1, <1>2, <1>3, <1>4, <1>5, <1>6, Zenon DEF UnlinkReturn
<1>8. /\ p \in inodeBitmap /\ p \in Inode
      /\ t \in inodeBitmap /\ t \in Inode
  BY <1>3, <1>6 DEF IsDirectory, Allocated
<1>9. inodes[p].size \in Nat /\ inodes[p].size >= 2
  BY <1>3, <1>8 DEF IInv, TypeOK, InodeRecord
<1>10. UnlinkHits(p, n) \subseteq Used(p) /\ Used(p) \subseteq Nat
  BY <1>9 DEF UnlinkHits, Used
<1>11. e \in UnlinkHits(p, n)
  BY <1>4, <1>10, MinOfNaturals
<1>12. t # p
  <2>1. ~IsEmptyDirectory(p)
    BY <1>2, <1>10, <1>11 DEF IsEmptyDirectory, UnlinkHits
  <2> QED BY <1>3, <1>7, <2>1
<1> QED BY <1>8, <1>9, <1>10, <1>11, <1>12

LEMMA CellOfBlock ==
  ASSUME NEW d \in Nat \ {0}, NEW q \in Nat, NEW x \in 0 .. q - 1, NEW s \in 0 .. d - 1
  PROVE  x * d + s \in 0 .. q * d - 1
<1>1. x * d \in Nat /\ (q - 1 - x) * d \in Nat
  BY x \in Nat /\ q - 1 - x \in Nat
<1>2. q * d = x * d + (q - 1 - x) * d + d
  OBVIOUS
<1> QED BY <1>1, <1>2

\* The blocks the parent is written back to hold entries it had.
LEMMA CompactedIsTyped ==
  ASSUME IInv, NEW p \in inodeBitmap, inodes[p].size >= 2, NEW e \in Nat,
         NEW x \in 0 .. Blocks(inodes[p].size - 1) - 1
  PROVE  CompactedBlock(p, e, x) \in [Slot -> Cell]
<1> DEFINE size == inodes[p].size
<1>1. size \in Nat /\ size - 1 \in Nat
  BY DEF IInv, TypeOK, InodeRecord
<1>2. /\ Blocks(size) \in Nat /\ Blocks(size - 1) \in Nat
      /\ Blocks(size - 1) <= Blocks(size)
  <2> HIDE DEF size
  <2> QED BY <1>1, BlocksBound, BlocksMonotone
<1>3. SUFFICES ASSUME NEW s \in Slot
      PROVE  Compacted(p, e, x * UFS_BLOCK_SIZE + s) \in Cell
  BY DEF CompactedBlock
<1> DEFINE k == x * UFS_BLOCK_SIZE + s
<1>4. k \in Positions(p)
  <2>1. x \in 0 .. Blocks(size) - 1 /\ s \in 0 .. UFS_BLOCK_SIZE - 1
    BY <1>2 DEF Slot
  <2> QED BY <1>2, <2>1, CellOfBlock, SizesAssumption DEF Positions
<1>5. k \in Nat /\ EntryAt(p, k) \in Cell
  <2> HIDE DEF k
  <2> QED BY <1>4, PositionIsTyped
<1>6. k \in e .. size - 2 => EntryAt(p, k + 1) \in Cell
  <2>1. k \in e .. size - 2 => k + 1 \in Used(p)
    BY <1>1, <1>5 DEF Used
  <2> QED BY <2>1, UsedIsPosition, PositionIsTyped
<1>7. Entry(EntryAt(p, k).name, -1) \in Cell
  <2> HIDE DEF k
  <2> QED BY <1>5, MarkedUnusedIsTyped
<1>8. \/ k \in e .. size - 2 /\ Compacted(p, e, k) = EntryAt(p, k + 1)
      \/ Compacted(p, e, k) = Entry(EntryAt(p, k).name, -1)
      \/ Compacted(p, e, k) = EntryAt(p, k)
  <2>1. inodes[p].size - 1 - 1 = size - 2
    BY <1>1
  <2> HIDE DEF k
  <2> QED BY <1>1, <2>1, Zenon DEF Compacted
<1> HIDE DEF k
<1>9. Compacted(p, e, k) \in Cell
  BY <1>5, <1>6, <1>7, <1>8
<1> QED BY <1>9 DEF k

LEMMA UnlinkKeepsIInv ==
  ASSUME IInv, NEW p \in InodeArg, NEW n \in NameArg, Unlink(p, n)
  PROVE  IInv'
<1>e. PICK e : e = Min(UnlinkHits(p, n))
  OBVIOUS
<1>t. PICK t : t = EntryAt(p, e).inum
  OBVIOUS
<1>1. /\ p \in inodeBitmap /\ p \in Inode
      /\ inodes[p].size \in Nat /\ inodes[p].size >= 2
      /\ e \in Nat
      /\ t \in inodeBitmap /\ t \in Inode
      /\ t # p
  BY <1>e, <1>t, UnlinkChecks DEF Unlink
<1>2. /\ inodeBitmap \subseteq Inode
      /\ dataBitmap \subseteq DataBlock
      /\ inodes \in [Inode -> InodeRecord]
      /\ dataRegion \in [DataBlock -> [Slot -> Cell]]
  BY DEF IInv, TypeOK
<1> DEFINE at(b) == {x \in 0 .. Blocks(inodes[p].size - 1) - 1 : inodes[p].direct[x] = b}
<1>3. /\ dataRegion' = [b \in DataBlock |->
            IF at(b) # {} THEN CompactedBlock(p, e, Max(at(b))) ELSE dataRegion[b]]
      /\ inodes' = [inodes EXCEPT ![p] = Shortened(p)]
      /\ dataBitmap' = dataBitmap \ UnlinkFrees(p, t)
      /\ inodeBitmap' = inodeBitmap \ {t}
  BY <1>e, <1>t, Zenon DEF Unlink
\* The parent's block counts before and after.
<1>b. PICK before \in Nat : before = Blocks(inodes[p].size) /\ before <= DIRECT_PTRS
  BY <1>1, BlocksBound DEF IInv, SizesFit
<1>a. PICK after \in Nat : after = Blocks(inodes[p].size - 1) /\ after <= before
  <2>1. inodes[p].size - 1 \in Nat /\ inodes[p].size - 1 <= inodes[p].size
    BY <1>1
  <2> QED BY <1>1, <1>b, <2>1, BlocksBound, BlocksMonotone
<1>4. /\ Shortened(p) \in InodeRecord
      /\ Shortened(p).size = inodes[p].size - 1
      /\ \A x \in Index : x < after => Shortened(p).direct[x] = inodes[p].direct[x]
  <2>1. inodes[p] \in InodeRecord /\ inodes[p].size - 1 \in Nat
    BY <1>1, <1>2
  <2>2. Shortened(p) = [type |-> inodes[p].type, size |-> inodes[p].size - 1,
                        direct |-> IF before # after
                                   THEN [inodes[p].direct EXCEPT ![after] = Unset]
                                   ELSE inodes[p].direct]
    BY <1>a, <1>b, Zenon DEF Shortened
  <2> DEFINE direct == IF before # after
                       THEN [inodes[p].direct EXCEPT ![after] = Unset]
                       ELSE inodes[p].direct
  <2>3. direct \in [Index -> Pointer]
    BY <2>1 DEF InodeRecord, Pointer
  <2>4. \A x \in Index : x < after => direct[x] = inodes[p].direct[x]
    BY <2>1 DEF InodeRecord, Index
  <2> HIDE DEF direct
  <2>5. Shortened(p) = [type |-> inodes[p].type, size |-> inodes[p].size - 1, direct |-> direct]
    BY <2>2 DEF direct
  <2> QED BY <2>1, <2>3, <2>4, <2>5 DEF InodeRecord
<1>5. /\ inodes' \in [Inode -> InodeRecord]
      /\ inodes'[p].size = inodes[p].size - 1
      /\ \A x \in Index : x < after => inodes'[p].direct[x] = inodes[p].direct[x]
      /\ \A j \in Inode \ {p} : inodes'[j] = inodes[j]
  BY <1>1, <1>2, <1>3, <1>4
<1>6. TypeOK'
  <2>1. ASSUME NEW b \in DataBlock
        PROVE  (IF at(b) # {} THEN CompactedBlock(p, e, Max(at(b))) ELSE dataRegion[b])
                 \in [Slot -> Cell]
    <3>1. at(b) \subseteq 0 .. after - 1
      BY <1>a
    <3> HIDE DEF at
    <3>2. at(b) # {} => Max(at(b)) \in 0 .. after - 1
      BY <3>1, MaxOfBounded
    <3>3. at(b) # {} => CompactedBlock(p, e, Max(at(b))) \in [Slot -> Cell]
      BY <1>1, <1>a, <3>2, CompactedIsTyped
    <3> QED BY <3>3, <1>2
  <2>2. dataRegion' \in [DataBlock -> [Slot -> Cell]]
    <3> HIDE DEF at
    <3> QED BY <1>3, <2>1
  <2>3. inodeBitmap' \subseteq Inode /\ dataBitmap' \subseteq DataBlock
    BY <1>2, <1>3
  <2> QED BY <1>5, <2>2, <2>3 DEF TypeOK
<1>7. SizesFit'
  <2>1. ASSUME NEW j \in inodeBitmap' PROVE Blocks(inodes'[j].size) <= DIRECT_PTRS
    <3>1. CASE j = p
      BY <1>5, <1>a, <1>b, <3>1, SizesAssumption
    <3>2. CASE j # p
      BY <1>2, <1>3, <1>5, <3>2 DEF IInv, SizesFit
    <3> QED BY <3>1, <3>2
  <2> QED BY <2>1 DEF SizesFit, Blocks
\* The pairs it takes away: the parent's last one, and the target's.
<1> DEFINE G == {o \in Held : (o[1] = p /\ o[2] >= after) \/ o[1] = t}
<1>8. ASSUME NEW o \in Held
      PROVE  o[1] \in inodeBitmap /\ o[2] \in Index /\ o = <<o[1], o[2]>>
  BY DEF Held
<1>9. ASSUME NEW j \in inodeBitmap, NEW x \in Index
      PROVE  /\ <<j, x>> \in Held <=> x < IF j = p THEN before ELSE Blocks(inodes[j].size)
             /\ <<j, x>> \in Held' <=>
                  j # t /\ x < IF j = p THEN after ELSE Blocks(inodes[j].size)
             /\ j # p => Ptr(<<j, x>>)' = Ptr(<<j, x>>)
  <2>1. j # p => inodes'[j] = inodes[j]
    BY <1>2, <1>5
  <2>2. <<j, x>> \in Held' <=> j # t /\ x < Blocks(inodes'[j].size)
    BY <1>3 DEF Held, Blocks
  <2>3. <<j, x>> \in Held <=> x < Blocks(inodes[j].size)
    BY DEF Held
  <2>4. j = p => Blocks(inodes'[j].size) = after
    BY <1>5, <1>a
  <2> QED BY <2>1, <2>2, <2>3, <2>4, <1>b DEF Ptr
<1>10. Held' = Held \ G
  <2>1. ASSUME NEW j \in inodeBitmap, NEW x \in Index
        PROVE  <<j, x>> \in Held' <=> <<j, x>> \in Held \ G
    <3>1. <<j, x>> \in G <=> <<j, x>> \in Held /\ ((j = p /\ x >= after) \/ j = t)
      OBVIOUS
    <3> HIDE DEF G
    <3> QED BY <1>1, <1>9, <1>a, <3>1 DEF Index
  <2>2. Held \subseteq inodeBitmap \X Index /\ Held' \subseteq inodeBitmap \X Index
    BY <1>3 DEF Held
  <2> HIDE DEF G
  <2> QED BY <2>1, <2>2
<1>11. ASSUME NEW o \in Held \ G PROVE Ptr(o)' = Ptr(o)
  <2>1. CASE o[1] = p
    <3>1. o[2] < after /\ o[2] \in Index
      BY <1>8, <2>1 DEF Index
    <3> QED BY <1>5, <2>1, <3>1 DEF Ptr
  <2>2. CASE o[1] # p
    BY <1>8, <1>9, <2>2
  <2> QED BY <2>1, <2>2
<1>12. UnlinkFrees(p, t) = {Ptr(o) : o \in G}
  <2>1. ASSUME NEW x \in after .. before - 1
        PROVE  \E o \in G : inodes[p].direct[x] = Ptr(o)
    <3>1. x \in Index
      BY <1>a, <1>b, SizesAssumption DEF Index
    <3>2. <<p, x>> \in G
      BY <1>1, <1>9, <3>1 DEF Index
    <3> QED BY <3>2 DEF Ptr
  <2>2. ASSUME NEW x \in 0 .. Blocks(inodes[t].size) - 1
        PROVE  \E o \in G : inodes[t].direct[x] = Ptr(o)
    <3>1. x \in Nat /\ x < Blocks(inodes[t].size)
      BY <1>1, <1>2, BlocksBound DEF InodeRecord
    <3>2. <<t, x>> \in G
      BY <1>1, <3>1, OwnedPointer
    <3> QED BY <3>2 DEF Ptr
  <2>3. ASSUME NEW o \in G PROVE Ptr(o) \in UnlinkFrees(p, t)
    <3>1. CASE o[1] = p /\ o[2] >= after
      <4>1. o[2] \in after .. before - 1
        BY <1>8, <1>9, <1>b, <3>1 DEF Index
      <4> QED BY <1>a, <1>b, <3>1, <4>1 DEF UnlinkFrees, Ptr
    <3>2. CASE o[1] = t
      <4>1. o[2] \in 0 .. Blocks(inodes[t].size) - 1
        BY <1>1, <1>2, <1>8, <1>9, <3>2, BlocksBound DEF Index, InodeRecord
      <4> QED BY <3>2, <4>1 DEF UnlinkFrees, Ptr
    <3> QED BY <3>1, <3>2
  <2>4. \A y : y \in UnlinkFrees(p, t) <=>
           \/ \E x \in after .. before - 1 : y = inodes[p].direct[x]
           \/ \E x \in 0 .. Blocks(inodes[t].size) - 1 : y = inodes[t].direct[x]
    BY <1>a, <1>b DEF UnlinkFrees
  <2> HIDE DEF G
  <2> QED BY <2>1, <2>2, <2>3, <2>4
<1>13. BitmapIsExact'
  <2>1. BitmapIsExact /\ G \in SUBSET Held
    BY DEF IInv
  <2>2. dataBitmap' = dataBitmap \ {Ptr(o) : o \in G}
    BY <1>3, <1>12
  <2> HIDE DEF G
  <2> QED BY <2>1, <2>2, <1>10, <1>11, Loss
<1> QED BY <1>6, <1>7, <1>13 DEF IInv
-----------------------------------------------------------------------------
(* The invariant, and what follows from it.                                *)

LEMMA InitGivesIInv == Init => IInv
<1> SUFFICES ASSUME Init PROVE IInv
  OBVIOUS
<1>1. /\ Root \in Inode /\ 0 \in DataBlock /\ 0 \in Index
      /\ DIRECT_PTRS >= 1
  BY SizesAssumption DEF Root, Inode, DataBlock, Index
<1>2. /\ inodeBitmap = {Root}
      /\ dataBitmap = {0}
      /\ dataRegion = [b \in DataBlock |-> IF b = 0 THEN NewDirBlock(Root, Root) ELSE ZeroBlock]
  BY DEF Init
<1>3. PICK g \in [Inode -> Garbage \cup {[x \in Index |-> NullPtr]}] :
        inodes = [i \in Inode |->
          IF i = Root
          THEN [type |-> UFS_DIRECTORY, size |-> 2,
                direct |-> [x \in Index |-> IF x = 0 THEN 0 ELSE Unset]]
          ELSE [type |-> UFS_DIRECTORY, size |-> 0, direct |-> g[i]]]
  BY DEF Init
<1>4. \A i \in Inode : g[i] \in [Index -> Pointer]
  BY GarbageAssumption DEF Pointer
<1>5. [x \in Index |-> IF x = 0 THEN 0 ELSE Unset] \in [Index -> Pointer]
  BY <1>1 DEF Pointer
<1>6. inodes \in [Inode -> InodeRecord]
  BY <1>3, <1>4, <1>5 DEF InodeRecord
<1>7. dataRegion \in [DataBlock -> [Slot -> Cell]]
  <2>1. NewDirBlock(Root, Root) \in [Slot -> Cell] /\ ZeroBlock \in [Slot -> Cell]
    BY FreshBlocksAreTyped DEF Root
  <2> QED BY <1>2, <2>1
<1>8. TypeOK
  BY <1>1, <1>2, <1>6, <1>7 DEF TypeOK
<1>9. inodes[Root].size = 2 /\ inodes[Root].direct[0] = 0
  BY <1>1, <1>3
<1>10. Blocks(inodes[Root].size) = 1
  BY <1>9, BlocksOfSmall
<1>11. SizesFit
  BY <1>1, <1>2, <1>10 DEF SizesFit
<1>12. Held = {<<Root, 0>>}
  <2>1. \A x \in Index : x < 1 <=> x = 0
    BY <1>1 DEF Index
  <2>2. ASSUME NEW o \in inodeBitmap \X Index
        PROVE  o \in Held <=> o = <<Root, 0>>
    BY <1>2, <1>10, <2>1 DEF Held
  <2>3. <<Root, 0>> \in inodeBitmap \X Index
    BY <1>1, <1>2
  <2>4. Held \subseteq inodeBitmap \X Index
    BY DEF Held
  <2> QED BY <2>2, <2>3, <2>4
<1>13. Ptr(<<Root, 0>>) = 0
  BY <1>9 DEF Ptr
<1>14. BitmapIsExact
  BY <1>2, <1>12, <1>13 DEF BitmapIsExact
<1> QED BY <1>8, <1>11, <1>14 DEF IInv

LEMMA NextKeepsIInv == IInv /\ [Next]_vars => IInv'
<1> SUFFICES ASSUME IInv, [Next]_vars PROVE IInv'
  OBVIOUS
<1>1. CASE \E p \in InodeArg, t \in {UFS_DIRECTORY, UFS_REGULAR_FILE}, n \in NameArg :
             Create(p, t, n)
  BY <1>1, CreateKeepsIInv
<1>2. CASE \E i \in InodeArg, v \in Values, n \in Sizes : Write(i, v, n)
  BY <1>2, WriteKeepsIInv
<1>3. CASE \E p \in InodeArg, n \in NameArg : Unlink(p, n)
  BY <1>3, UnlinkKeepsIInv
<1>4. CASE UNCHANGED vars
  <2>1. Held' = Held /\ \A o \in Held : Ptr(o)' = Ptr(o)
    BY <1>4 DEF vars, Held, Ptr, Blocks
  <2> QED BY <1>4, <2>1
         DEF vars, IInv, TypeOK, SizesFit, BitmapIsExact, Blocks
<1> QED BY <1>1, <1>2, <1>3, <1>4 DEF Next

THEOREM InvariantHolds == Spec => []IInv
  BY InitGivesIInv, NextKeepsIInv, PTL DEF Spec

\* Every state the calls reach is well typed: bitmaps within their regions,
\* inodes with valid pointers, blocks of entries. In particular no compaction
\* or growth of a directory goes through a pointer that is not a data block.
THEOREM TypeCorrect == Spec => []TypeOK
<1>1. IInv => TypeOK
  BY DEF IInv
<1> QED BY <1>1, InvariantHolds, PTL

LEMMA OneOwner ==
  ASSUME IInv, NEW b \in DataBlock
  PROVE  Cardinality(Owners(b)) = IF b \in dataBitmap THEN 1 ELSE 0
<1>1. Owners(b) = {o \in Held : Ptr(o) = b}
  BY DEF Owners, Held, Ptr
<1>2. CASE b \in dataBitmap
  <2>1. PICK o \in Held : Ptr(o) = b
    BY <1>2 DEF IInv, BitmapIsExact
  <2>2. Owners(b) = {o}
    BY <1>1, <2>1 DEF IInv, BitmapIsExact
  <2> QED BY <1>2, <2>2, FS_Singleton
<1>3. CASE b \notin dataBitmap
  <2>1. Owners(b) = {}
    BY <1>1, <1>3 DEF IInv, BitmapIsExact
  <2> QED BY <1>3, <2>1, FS_EmptySet
<1> QED BY <1>2, <1>3

\* The data bitmap is exact in every reachable state: no call leaks a block,
\* gives out one in use, or leaves two inodes sharing one.
THEOREM BlocksAreOwned == Spec => []BlocksHaveOneOwner
<1>1. IInv => BlocksHaveOneOwner
  <2> SUFFICES ASSUME IInv PROVE BlocksHaveOneOwner
    OBVIOUS
  <2>1. ASSUME NEW i \in inodeBitmap, NEW x \in 0 .. Blocks(inodes[i].size) - 1
        PROVE  x \in Index /\ inodes[i].direct[x] \in DataBlock
    <3>1. x \in Nat /\ x < Blocks(inodes[i].size)
      BY BlocksBound DEF IInv, TypeOK, InodeRecord
    <3> QED BY <3>1, OwnedPointer
  <2> QED BY <2>1, OneOwner DEF BlocksHaveOneOwner
<1> QED BY <1>1, InvariantHolds, PTL
-----------------------------------------------------------------------------
(* Names.                                                                  *)

\* Entry k of directory p names inode i.
Named(p, k, i) ==
  p \in Directories /\ k \in Used(p) /\ k >= 2 /\ EntryAt(p, k).inum = i

\* NamespaceIsTree without sets of pairs.
NamedOnce ==
  \A p, q \in Inode, j, k \in Nat, i \in Inode :
    Named(p, j, i) /\ Named(q, k, i) => p = q /\ j = k

RootIsAbove ==
  /\ Root \in Directories /\ EntryAt(Root, 1).inum = Root
  /\ \A p \in Inode, k \in Nat : ~Named(p, k, Root)

AllAreNamed ==
  \A i \in inodeBitmap \ {Root} :
    \E p \in Inode, k \in Nat :
      Named(p, k, i) /\ (i \in Directories => EntryAt(i, 1).inum = p)

ParentsLeadToRoot ==
  \A S \in SUBSET (Directories \ {Root}) :
    S # {} => \E i \in S : EntryAt(i, 1).inum \notin S

TInv ==
  /\ IInv /\ DirectoriesAreDense
  /\ NamedOnce /\ RootIsAbove /\ AllAreNamed /\ ParentsLeadToRoot
-----------------------------------------------------------------------------
(* Entries and blocks.                                                     *)

\* Used, Positions and EntryAt after a step.
UsedNext(p) == 0 .. inodes'[p].size - 1
PositionsNext(p) == 0 .. Blocks(inodes'[p].size) * UFS_BLOCK_SIZE - 1
EntryNext(p, k) ==
  dataRegion'[inodes'[p].direct[k \div UFS_BLOCK_SIZE]][k % UFS_BLOCK_SIZE]

LEMMA PlaceInBlock ==
  ASSUME NEW k \in Nat
  PROVE  /\ k \div UFS_BLOCK_SIZE \in Nat
         /\ k % UFS_BLOCK_SIZE \in Slot
         /\ k = UFS_BLOCK_SIZE * (k \div UFS_BLOCK_SIZE) + (k % UFS_BLOCK_SIZE)
<1>1. UFS_BLOCK_SIZE \in Nat \ {0}
  BY SizesAssumption
<1> QED BY <1>1, Division DEF Slot

LEMMA EntryFields ==
  ASSUME NEW c, NEW n, NEW i, c = Entry(n, i)
  PROVE  c.name = n /\ c.inum = i
  BY DEF Entry

LEMMA NewDirBlockEntries ==
  ASSUME NEW i, NEW p, NEW k \in Slot
  PROVE  /\ k = 0 => NewDirBlock(i, p)[k] = Entry(".", i)
         /\ k = 1 => NewDirBlock(i, p)[k] = Entry("..", p)
         /\ k # 0 /\ k # 1 => NewDirBlock(i, p)[k].inum = -1
<1>1. 0 \in Slot /\ 1 \in Slot
  BY SizesAssumption DEF Slot
<1>2. PICK a, b, c : a = Entry(".", i) /\ b = Entry("..", p) /\ c = Entry("", -1)
  OBVIOUS
<1>3. NewDirBlock(i, p) = [[s \in Slot |-> c] EXCEPT ![0] = a, ![1] = b]
  BY <1>2 DEF NewDirBlock, UnusedBlock
<1>e. PICK e : e = NewDirBlock(i, p)[k]
  OBVIOUS
<1>4. /\ k = 0 => e = a
      /\ k = 1 => e = b
      /\ k # 0 /\ k # 1 => e = c
  BY <1>1, <1>3, <1>e
<1>5. c.inum = -1
  BY <1>2, EntryFields
<1>6. k # 0 /\ k # 1 => e.inum = -1
  BY <1>4, <1>5
<1>7. /\ k = 0 => e = Entry(".", i)
      /\ k = 1 => e = Entry("..", p)
  BY <1>2, <1>4
<1> QED BY <1>e, <1>6, <1>7

LEMMA DirectoryIsTyped ==
  ASSUME IInv, NEW p \in Directories
  PROVE  /\ p \in inodeBitmap /\ p \in Inode
         /\ inodes[p] \in InodeRecord
         /\ inodes[p].size \in Nat
         /\ inodes[p].type = UFS_DIRECTORY
  BY DEF Directories, IsDirectory, Allocated, IInv, TypeOK, InodeRecord

\* Two inodes, or two places of one, never share a block.
LEMMA BlocksDiffer ==
  ASSUME IInv, NEW i \in inodeBitmap, NEW j \in inodeBitmap, NEW x \in Nat, NEW y \in Nat,
         x < Blocks(inodes[i].size), y < Blocks(inodes[j].size),
         inodes[i].direct[x] = inodes[j].direct[y]
  PROVE  i = j /\ x = y
<1>1. <<i, x>> \in Held /\ <<j, y>> \in Held
  BY OwnedPointer
<1>2. Ptr(<<i, x>>) = Ptr(<<j, y>>)
  BY DEF Ptr
<1>3. <<i, x>> = <<j, y>>
  BY <1>1, <1>2 DEF IInv, BitmapIsExact
<1> QED BY <1>3

\* A directory whose inode and blocks are not written keeps its entries.
LEMMA EntriesStay ==
  ASSUME IInv, NEW q \in inodeBitmap, inodes'[q] = inodes[q],
         \A x \in Nat : x < Blocks(inodes[q].size) =>
           dataRegion'[inodes[q].direct[x]] = dataRegion[inodes[q].direct[x]]
  PROVE  /\ PositionsNext(q) = Positions(q)
         /\ UsedNext(q) = Used(q)
         /\ \A k \in Positions(q) : EntryNext(q, k) = EntryAt(q, k)
<1>1. PositionsNext(q) = Positions(q) /\ UsedNext(q) = Used(q)
  BY DEF Positions, Used, PositionsNext, UsedNext
<1>2. ASSUME NEW k \in Positions(q)
      PROVE  EntryNext(q, k) = EntryAt(q, k)
  <2>1. k \div UFS_BLOCK_SIZE \in Nat /\ k \div UFS_BLOCK_SIZE < Blocks(inodes[q].size)
    BY PositionIsTyped
  <2> QED BY <2>1 DEF EntryAt, EntryNext
<1> QED BY <1>1, <1>2

\* Where create puts an entry: behind those there are.
LEMMA PlaceIsSize ==
  ASSUME IInv, DirectoriesAreDense, NEW p \in Directories
  PROVE  CreatePosition(p) = inodes[p].size
<1> DEFINE n == inodes[p].size
           m == Blocks(n) * UFS_BLOCK_SIZE
           S == {j \in Positions(p) : n <= j \/ EntryAt(p, j).inum = -1}
                  \cup {m}
<1>1. p \in inodeBitmap /\ n \in Nat
  BY DirectoryIsTyped
<1>2. m \in Nat /\ n <= m
  BY <1>1, BlocksBound, SizesAssumption
<1>3. Positions(p) = 0 .. m - 1 /\ Used(p) = 0 .. n - 1
  BY DEF Positions, Used
<1>4. \A k \in Used(p) : EntryAt(p, k).inum \in Nat
  <2>1. \A k \in Used(p) : EntryAt(p, k).inum \in inodeBitmap
    BY DEF DirectoriesAreDense
  <2>2. inodeBitmap \subseteq Nat
    BY SizesAssumption DEF IInv, TypeOK, Inode
  <2> QED BY <2>1, <2>2
<1>5. n \in S
  <2>1. n = m \/ n \in 0 .. m - 1
    <3> HIDE DEF m, n
    <3> QED BY <1>1, <1>2
  <2>2. n <= n
    BY <1>1
  <2> HIDE DEF m, n
  <2> QED BY <1>3, <2>1, <2>2
<1>6. S \subseteq Nat /\ \A y \in S : n <= y
  <2>1. ASSUME NEW y \in S PROVE y \in Nat /\ n <= y
    <3>1. CASE y = m
      BY <1>2, <3>1
    <3>2. CASE y \in Positions(p) /\ n <= y
      <4> HIDE DEF m, n
      <4> QED BY <1>1, <1>2, <1>3, <3>2
    <3>3. CASE y \in Positions(p) /\ EntryAt(p, y).inum = -1
      <4> HIDE DEF m, n
      <4> QED BY <1>1, <1>2, <1>3, <1>4, <3>3
    <3> QED BY <3>1, <3>2, <3>3
  <2> QED BY <2>1
<1>7. Min(S) \in S /\ Min(S) <= n
  <2> HIDE DEF S
  <2> QED BY <1>5, <1>6, MinOfNaturals
<1>8. CreatePosition(p) = Min(S)
  BY DEF CreatePosition
<1>9. Min(S) = n
  <2>1. Min(S) \in Nat /\ n <= Min(S)
    BY <1>6, <1>7, Zenon
  <2> HIDE DEF S, n
  <2> QED BY <1>1, <1>7, <2>1
<1> QED BY <1>8, <1>9
-----------------------------------------------------------------------------
(* create, seen through the entries.                                       *)

\* The inodes and blocks create writes: the free blocks it takes are new, and
\* of the blocks in use it touches only the one with the place of the entry.
LEMMA CreateInodes ==
  ASSUME IInv, NEW p \in inodeBitmap, NEW t \in {UFS_DIRECTORY, UFS_REGULAR_FILE},
         NEW n \in Names, CreateHasRoom(p, t),
         NEW own, own = IF t = UFS_DIRECTORY THEN 1 ELSE 0,
         NEW i \in Inode \ inodeBitmap, NEW f \in LowestFree(CreateBlocks(p, t)),
         CreateEffect(p, t, n, i, own, f)
  PROVE  /\ NeedsBlock(p) => f[own] \in DataBlock \ dataBitmap
         /\ t = UFS_DIRECTORY => f[0] \in DataBlock \ dataBitmap
         /\ NeedsBlock(p) /\ t = UFS_DIRECTORY => f[0] # f[own]
         /\ inodes'[p] = Extended(p, f[own])
         /\ inodes'[i] = Created(i, t, f[0])
         /\ \A j \in Inode \ {p, i} : inodes'[j] = inodes[j]
<1>1. /\ p \in Inode /\ dataBitmap \subseteq DataBlock
      /\ inodes \in [Inode -> InodeRecord]
  BY DEF IInv, TypeOK
<1>g. PICK grow \in {0, 1} : grow = 1 <=> NeedsBlock(p)
  <2>1. CASE NeedsBlock(p)
    BY <2>1
  <2>2. CASE ~NeedsBlock(p)
    BY <2>2
  <2> QED BY <2>1, <2>2
<1>c. PICK c \in Nat : c = own + grow
  BY <1>g
<1>2. CreateBlocks(p, t) = c
  BY <1>g, <1>c DEF CreateBlocks
<1>3. /\ \A x \in 0 .. c - 1 : f[x] \in DataBlock \ dataBitmap
      /\ \A x, y \in 0 .. c - 1 : f[x] = f[y] => x = y
  BY <1>1, <1>2, LowestFreeIsNew
<1>4. /\ t = UFS_DIRECTORY => 0 \in 0 .. c - 1
      /\ NeedsBlock(p) => own \in 0 .. c - 1
  BY <1>g, <1>c
<1>5. inodes' = [inodes EXCEPT ![p] = Extended(p, f[own]), ![i] = Created(i, t, f[0])]
  BY Zenon DEF CreateEffect
<1>6. /\ inodes'[p] = Extended(p, f[own])
      /\ inodes'[i] = Created(i, t, f[0])
      /\ \A j \in Inode \ {p, i} : inodes'[j] = inodes[j]
  BY <1>1, <1>5
<1> QED BY <1>3, <1>4, <1>6

LEMMA CreateRegion ==
  ASSUME IInv, NEW p \in inodeBitmap, NEW t \in {UFS_DIRECTORY, UFS_REGULAR_FILE},
         NEW n \in Names, CreateHasRoom(p, t),
         NEW own, own = IF t = UFS_DIRECTORY THEN 1 ELSE 0,
         NEW i \in Inode \ inodeBitmap, NEW f \in LowestFree(CreateBlocks(p, t)),
         CreateEffect(p, t, n, i, own, f),
         NEW y, y = CreatePosition(p) \div UFS_BLOCK_SIZE,
         NEW home, home = inodes'[p].direct[y]
  PROVE  /\ \A q \in inodeBitmap, x \in Nat :
              x < Blocks(inodes[q].size) /\ ~(q = p /\ x = y) =>
                dataRegion'[inodes[q].direct[x]] = dataRegion[inodes[q].direct[x]]
         /\ dataRegion'[home] = WithEntry(p, home, n, i)
         /\ \A x \in Nat : x < Blocks(inodes[p].size) =>
              inodes'[p].direct[x] = inodes[p].direct[x]
         /\ t = UFS_DIRECTORY =>
              inodes'[i].direct[0] = f[0] /\ dataRegion'[f[0]] = NewDirBlock(i, p)
<1>1. /\ NeedsBlock(p) => f[own] \in DataBlock \ dataBitmap
      /\ t = UFS_DIRECTORY => f[0] \in DataBlock \ dataBitmap
      /\ NeedsBlock(p) /\ t = UFS_DIRECTORY => f[0] # f[own]
      /\ inodes'[p] = Extended(p, f[own])
      /\ inodes'[i] = Created(i, t, f[0])
  BY CreateInodes
<1>2. p \in Inode /\ i \in Inode /\ inodes \in [Inode -> InodeRecord]
  BY DEF IInv, TypeOK
<1>q. PICK q \in Nat : q = Blocks(inodes[p].size)
  BY <1>2, BlocksBound DEF InodeRecord
<1>3. /\ y \in Nat
      /\ NeedsBlock(p) => y = q /\ q \in Index
      /\ ~NeedsBlock(p) => y < q
  <2>1. /\ y \in Nat
        /\ NeedsBlock(p) => y = q
        /\ ~NeedsBlock(p) => y < q
    BY <1>q, CreatePlace
  <2>2. NeedsBlock(p) => q < DIRECT_PTRS
    BY <1>q DEF CreateHasRoom
  <2> QED BY <1>q, <2>1, <2>2, SizesAssumption DEF Index
<1>4. /\ NeedsBlock(p) => home = f[own]
      /\ ~NeedsBlock(p) => home = inodes[p].direct[y] /\ home \in dataBitmap /\ home \in DataBlock
  <2>1. NeedsBlock(p) => home = f[own]
    BY <1>1, <1>2, <1>3 DEF Extended, InodeRecord
  <2>2. ~NeedsBlock(p) => home = inodes[p].direct[y]
    BY <1>1 DEF Extended
  <2>3. ~NeedsBlock(p) => inodes[p].direct[y] \in dataBitmap /\ inodes[p].direct[y] \in DataBlock
    BY <1>3, <1>q, OwnedPointer
  <2> QED BY <2>1, <2>2, <2>3
<1>5. \A x \in Nat : x < Blocks(inodes[p].size) => inodes'[p].direct[x] = inodes[p].direct[x]
  <2>1. SUFFICES ASSUME NEW x \in Nat, x < q
                 PROVE  inodes'[p].direct[x] = inodes[p].direct[x]
    BY <1>q
  <2>2. x \in Index
    BY <1>q, <2>1, OwnedPointer
  <2>3. NeedsBlock(p) => x # y
    BY <1>3, <1>q, <2>1
  <2> QED BY <1>1, <1>2, <2>2, <2>3 DEF Extended, InodeRecord
<1>6. dataRegion' = [b \in DataBlock |->
        IF b = home THEN WithEntry(p, home, n, i)
        ELSE IF own = 1 /\ b = f[0] THEN NewDirBlock(i, p)
        ELSE dataRegion[b]]
  <2>1. home = Extended(p, f[own]).direct[CreatePosition(p) \div UFS_BLOCK_SIZE]
    BY <1>1
  <2> QED BY <2>1, Zenon DEF CreateEffect
<1>7. home \in DataBlock
  BY <1>1, <1>4
<1>8. ASSUME NEW j \in inodeBitmap, NEW x \in Nat, x < Blocks(inodes[j].size), ~(j = p /\ x = y)
      PROVE  dataRegion'[inodes[j].direct[x]] = dataRegion[inodes[j].direct[x]]
  <2> DEFINE b == inodes[j].direct[x]
  <2>1. b \in dataBitmap /\ b \in DataBlock
    BY <1>8, OwnedPointer
  <2>2. b # home
    <3>1. CASE NeedsBlock(p)
      BY <1>1, <1>4, <2>1, <3>1
    <3>2. CASE ~NeedsBlock(p)
      BY <1>3, <1>4, <1>8, <1>q, <3>2, BlocksDiffer
    <3> QED BY <3>1, <3>2
  <2>3. ~(own = 1 /\ b = f[0])
    BY <1>1, <2>1
  <2> HIDE DEF b
  <2>4. dataRegion'[b] = dataRegion[b]
    BY <1>6, <2>1, <2>2, <2>3
  <2> QED BY <2>4 DEF b
<1>9. ASSUME t = UFS_DIRECTORY
      PROVE  inodes'[i].direct[0] = f[0] /\ dataRegion'[f[0]] = NewDirBlock(i, p)
  <2>1. 0 \in Index
    BY SizesAssumption DEF Index
  <2>2. inodes'[i].direct[0] = f[0]
    BY <1>1, <1>2, <1>9, <2>1 DEF Created, InodeRecord
  <2>3. f[0] # home /\ f[0] \in DataBlock
    BY <1>1, <1>4, <1>9
  <2> QED BY <1>6, <1>9, <2>2, <2>3
<1> QED BY <1>5, <1>6, <1>7, <1>8, <1>9

\* The directory or file q is as before.
Kept(q) ==
  /\ inodes'[q].size = inodes[q].size
  /\ UsedNext(q) = Used(q) /\ PositionsNext(q) = Positions(q)
  /\ \A k \in Positions(q) : EntryNext(q, k) = EntryAt(q, k)

\* What create does to the directories.
CreateEntries(p, t, n, i) ==
  /\ inodeBitmap' = inodeBitmap \cup {i}
  /\ Directories' = Directories \cup (IF t = UFS_DIRECTORY THEN {i} ELSE {})
  /\ \A q \in inodeBitmap \ {p} : Kept(q)
  /\ inodes'[p].size = inodes[p].size + 1
  /\ \A k \in Used(p) : EntryAt(p, k).name # n /\ EntryNext(p, k) = EntryAt(p, k)
  /\ EntryNext(p, inodes[p].size) = Entry(n, i)
  /\ \A k \in PositionsNext(p) : k > inodes[p].size => EntryNext(p, k).inum = -1
  /\ t # UFS_DIRECTORY => inodes'[i].size = 0
  /\ t = UFS_DIRECTORY =>
       /\ inodes'[i].size = 2
       /\ EntryNext(i, 0) = Entry(".", i) /\ EntryNext(i, 1) = Entry("..", p)
       /\ \A k \in PositionsNext(i) : k >= 2 => EntryNext(i, k).inum = -1

\* A position after a call, in blocks.
LEMMA NewPosition ==
  ASSUME IInv', NEW q \in inodeBitmap', NEW k \in PositionsNext(q)
  PROVE  /\ k \in Nat
         /\ k \div UFS_BLOCK_SIZE \in Nat
         /\ k \div UFS_BLOCK_SIZE < Blocks(inodes'[q].size)
         /\ k % UFS_BLOCK_SIZE \in Slot
<1> DEFINE m == Blocks(inodes'[q].size)
<1>1. m \in Nat
  BY BlocksBound DEF IInv, TypeOK, InodeRecord
<1>2. k \in Nat /\ k < m * UFS_BLOCK_SIZE
  BY <1>1, SizesAssumption DEF PositionsNext
<1>3. k \div UFS_BLOCK_SIZE \in Nat /\ k % UFS_BLOCK_SIZE \in Slot
  BY <1>2, PlaceInBlock
<1>4. k \div UFS_BLOCK_SIZE < m
  <2> HIDE DEF m
  <2> QED BY <1>1, <1>2, DivBelow, SizesAssumption
<1> QED BY <1>2, <1>3, <1>4

LEMMA SamePlace ==
  ASSUME NEW j \in Nat, NEW k \in Nat,
         j \div UFS_BLOCK_SIZE = k \div UFS_BLOCK_SIZE,
         j % UFS_BLOCK_SIZE = k % UFS_BLOCK_SIZE
  PROVE  j = k
<1>1. /\ j = UFS_BLOCK_SIZE * (j \div UFS_BLOCK_SIZE) + (j % UFS_BLOCK_SIZE)
      /\ k = UFS_BLOCK_SIZE * (k \div UFS_BLOCK_SIZE) + (k % UFS_BLOCK_SIZE)
  BY PlaceInBlock
<1> QED BY <1>1

\* Back from a block that was in use to a position in it.
LEMMA OldPosition ==
  ASSUME IInv, NEW p \in inodeBitmap, NEW k \in Nat,
         k \div UFS_BLOCK_SIZE < Blocks(inodes[p].size)
  PROVE  k \in Positions(p)
<1>1. Blocks(inodes[p].size) \in Nat
  BY BlocksBound DEF IInv, TypeOK, InodeRecord
<1>2. k < Blocks(inodes[p].size) * UFS_BLOCK_SIZE
  BY <1>1, DivBelow, SizesAssumption
<1> QED BY <1>1, <1>2, SizesAssumption DEF Positions

LEMMA NotFoundIsNew ==
  ASSUME IInv, DirectoriesAreDense, NEW p \in Directories, NEW n, lookup(p, n) = -ENOTFOUND,
         NEW k \in Used(p)
  PROVE  EntryAt(p, k).name # n
<1> DEFINE hits == {j \in Positions(p) : EntryAt(p, j).inum # -1 /\ EntryAt(p, j).name = n}
<1>1. p \in inodeBitmap /\ inodes[p].size \in Nat /\ IsDirectory(p)
  BY DirectoryIsTyped DEF Directories
<1>2. SUFFICES ASSUME EntryAt(p, k).name = n PROVE FALSE
  OBVIOUS
<1>3. \A j \in Used(p) : j \in Positions(p) /\ EntryAt(p, j).inum \in inodeBitmap
  BY <1>1, UsedIsPosition DEF DirectoriesAreDense
<1>4. inodeBitmap \subseteq Nat
  BY SizesAssumption DEF IInv, TypeOK, Inode
<1>5. k \in hits
  BY <1>2, <1>3, <1>4
<1>6. hits \subseteq Nat
  BY <1>1, PositionIsTyped
<1>7. Min(hits) \in hits
  <2> HIDE DEF hits
  <2> QED BY <1>5, <1>6, MinOfNaturals
<1>8. EntryAt(p, Min(hits)).inum = -ENOTFOUND
  <2>1. hits # {}
    BY <1>5
  <2> QED BY <1>1, <2>1, Zenon DEF lookup
<1>9. Min(hits) \in Used(p) \/ EntryAt(p, Min(hits)).inum = -1
  BY <1>7 DEF DirectoriesAreDense
<1> HIDE DEF hits
<1>10. EntryAt(p, Min(hits)).inum = -7
  BY <1>8 DEF ENOTFOUND
<1> QED BY <1>3, <1>4, <1>9, <1>10

LEMMA CreateOnEntries ==
  ASSUME IInv, DirectoriesAreDense, NEW p \in InodeArg,
         NEW t \in {UFS_DIRECTORY, UFS_REGULAR_FILE}, NEW n \in NameArg, Create(p, t, n)
  PROVE  /\ p \in Directories /\ n \in Names
         /\ \E i \in Inode \ inodeBitmap : CreateEntries(p, t, n, i)
<1> DEFINE size == inodes[p].size
           y == size \div UFS_BLOCK_SIZE
<1>o. PICK own \in {0, 1} : own = IF t = UFS_DIRECTORY THEN 1 ELSE 0
  OBVIOUS
<1>1. /\ p \in inodeBitmap /\ p \in Inode /\ p \in Directories
      /\ n \in Names
      /\ CreateHasRoom(p, t)
      /\ lookup(p, n) = -ENOTFOUND
  <2>1. IsDirectory(p) /\ lookup(p, n) = -ENOTFOUND
    BY Zenon DEF Create
  <2> QED BY <2>1, CreateChecks DEF Directories
<1>2. PICK i \in Inode \ inodeBitmap, f \in LowestFree(CreateBlocks(p, t)) :
        CreateEffect(p, t, n, i, own, f)
  BY CreateStep, <1>o
<1>3. IInv'
  BY CreateKeepsIInv
<1>4. CreatePosition(p) = size /\ size \in Nat
  BY <1>1, PlaceIsSize, DirectoryIsTyped
<1>d. PICK home : home = inodes'[p].direct[y]
  OBVIOUS
<1>5. /\ inodes'[p] = Extended(p, f[own])
      /\ inodes'[i] = Created(i, t, f[0])
      /\ \A j \in Inode \ {p, i} : inodes'[j] = inodes[j]
  BY <1>1, <1>2, <1>o, CreateInodes
<1>6. /\ \A q \in inodeBitmap, x \in Nat :
           x < Blocks(inodes[q].size) /\ ~(q = p /\ x = y) =>
             dataRegion'[inodes[q].direct[x]] = dataRegion[inodes[q].direct[x]]
      /\ dataRegion'[home] = WithEntry(p, home, n, i)
      /\ \A x \in Nat : x < Blocks(inodes[p].size) =>
           inodes'[p].direct[x] = inodes[p].direct[x]
      /\ t = UFS_DIRECTORY =>
           inodes'[i].direct[0] = f[0] /\ dataRegion'[f[0]] = NewDirBlock(i, p)
  <2>1. y = CreatePosition(p) \div UFS_BLOCK_SIZE
    BY <1>4
  <2> HIDE DEF y
  <2> QED BY <1>1, <1>2, <1>o, <1>d, <2>1, CreateRegion
<1>7. inodeBitmap' = inodeBitmap \cup {i}
  BY <1>2, Zenon DEF CreateEffect
<1>8. inodes'[p].size = size + 1 /\ inodes'[p].type = inodes[p].type
  <2>1. inodes'[p].size = Larger(size, size + 1) /\ inodes'[p].type = inodes[p].type
    BY <1>4, <1>5 DEF Extended
  <2> HIDE DEF size
  <2> QED BY <1>4, <2>1 DEF Larger
<1>9. Directories' = Directories \cup (IF t = UFS_DIRECTORY THEN {i} ELSE {})
  <2>1. inodes'[i].type = t
    BY <1>5 DEF Created
  <2>2. inodeBitmap \subseteq Inode
    BY DEF IInv, TypeOK
  <2>3. ASSUME NEW j \in Inode
        PROVE  j \in Directories' <=> j \in Directories \/ (j = i /\ t = UFS_DIRECTORY)
    BY <1>1, <1>5, <1>7, <1>8, <2>1, <2>2 DEF Directories, IsDirectory, Allocated
  <2>4. Directories' \subseteq Inode /\ Directories \subseteq Inode
    BY DEF Directories, Inode
  <2> QED BY <2>3, <2>4
<1>10. ASSUME NEW q \in inodeBitmap \ {p} PROVE Kept(q)
  <2>1. q \in inodeBitmap /\ q \in Inode /\ q # i
    BY <1>2 DEF IInv, TypeOK
  <2>2. inodes'[q] = inodes[q]
    BY <1>5, <2>1
  <2>3. \A x \in Nat : x < Blocks(inodes[q].size) =>
          dataRegion'[inodes[q].direct[x]] = dataRegion[inodes[q].direct[x]]
    BY <1>6, <2>1
  <2> QED BY <2>1, <2>2, <2>3, EntriesStay DEF Kept
\* The parent: the position of the entry, and all others.
<1>11. /\ size % UFS_BLOCK_SIZE \in Slot
       /\ NeedsBlock(p) => y = Blocks(size) /\ Blocks(inodes'[p].size) = y + 1
       /\ ~NeedsBlock(p) => /\ y < Blocks(size) /\ Blocks(inodes'[p].size) = Blocks(size)
                            /\ home = inodes[p].direct[y]
  <2>1. Larger(size, size + 1) = size + 1
    <3> HIDE DEF size
    <3> QED BY <1>4 DEF Larger
  <2>2. ~NeedsBlock(p) => home = inodes[p].direct[y]
    BY <1>5, <1>d DEF Extended
  <2> QED BY <1>1, <1>4, <1>8, <2>1, <2>2, CreatePlace
<1>12. ASSUME NEW k \in Nat, k \div UFS_BLOCK_SIZE < Blocks(inodes'[p].size)
       PROVE  /\ k = size => EntryNext(p, k) = Entry(n, i)
              /\ k # size => \/ k \in Positions(p) /\ EntryNext(p, k) = EntryAt(p, k)
                             \/ k >= size /\ EntryNext(p, k).inum = -1
  <2>1. /\ k \div UFS_BLOCK_SIZE \in Nat /\ k % UFS_BLOCK_SIZE \in Slot
        /\ y \in Nat
    BY <1>4, PlaceInBlock
  <2>2. CASE k \div UFS_BLOCK_SIZE = y
    <3>1. EntryNext(p, k) = WithEntry(p, home, n, i)[k % UFS_BLOCK_SIZE]
      BY <1>6, <1>d, <2>2 DEF EntryAt, EntryNext
    <3>2. CASE k = size
      <4>1. WithEntry(p, home, n, i)[size % UFS_BLOCK_SIZE] = Entry(n, i)
        <5>1. ~NeedsBlock(p) => dataRegion[home] \in [Slot -> Cell]
          BY <1>1, <1>11, <2>1, OwnedPointer DEF IInv, TypeOK
        <5> QED BY <1>4, <1>11, <5>1 DEF WithEntry, UnusedBlock
      <4> QED BY <3>1, <3>2, <4>1
    <3>3. CASE k # size
      <4>1. k % UFS_BLOCK_SIZE # size % UFS_BLOCK_SIZE
        BY <1>4, <2>2, <3>3, SamePlace
      <4>2. CASE NeedsBlock(p)
        <5>1. EntryNext(p, k) = Entry("", -1)
          BY <1>4, <2>1, <3>1, <4>1, <4>2 DEF WithEntry, UnusedBlock
        <5>2. k >= size
          <6>1. size <= Blocks(size) * UFS_BLOCK_SIZE
            BY <1>4, BlocksBound
          <6>2. y * UFS_BLOCK_SIZE <= k
            BY <2>1, <2>2, DivBelow, SizesAssumption
          <6>3. size <= y * UFS_BLOCK_SIZE /\ y * UFS_BLOCK_SIZE \in Nat
            BY <1>11, <2>1, <4>2, <6>1, SizesAssumption
          <6> HIDE DEF size, y
          <6> QED BY <1>4, <6>2, <6>3
        <5> QED BY <3>3, <5>1, <5>2, EntryFields
      <4>3. CASE ~NeedsBlock(p)
        <5>1. k \in Positions(p)
          BY <1>1, <1>11, <2>2, <4>3, OldPosition
        <5>2. dataRegion[home] \in [Slot -> Cell]
          BY <1>1, <1>11, <2>1, <4>3, OwnedPointer DEF IInv, TypeOK
        <5>3. EntryNext(p, k) = dataRegion[home][k % UFS_BLOCK_SIZE]
          BY <1>4, <2>1, <3>1, <4>1, <4>3, <5>2 DEF WithEntry
        <5> QED BY <1>11, <2>2, <3>3, <4>3, <5>1, <5>3 DEF EntryAt, EntryNext
      <4> QED BY <4>2, <4>3
    <3> QED BY <3>2, <3>3
  <2>3. CASE k \div UFS_BLOCK_SIZE # y
    <3>1. k # size
      BY <2>3
    <3>2. k \div UFS_BLOCK_SIZE < Blocks(size)
      <4>1. Blocks(size) \in Nat
        BY <1>4, BlocksBound
      <4> HIDE DEF y, size
      <4> QED BY <1>11, <1>12, <2>1, <2>3, <4>1
    <3>3. k \in Positions(p)
      BY <1>1, <3>2, OldPosition
    <3>4. EntryNext(p, k) = EntryAt(p, k)
      BY <1>1, <1>6, <2>1, <2>3, <3>2 DEF EntryAt, EntryNext
    <3> QED BY <3>1, <3>3, <3>4
  <2> QED BY <2>2, <2>3
<1>13. /\ \A k \in Used(p) : EntryNext(p, k) = EntryAt(p, k)
       /\ EntryNext(p, size) = Entry(n, i)
       /\ \A k \in PositionsNext(p) : k > size => EntryNext(p, k).inum = -1
  <2>1. ASSUME NEW k \in UsedNext(p)
        PROVE  k \in Nat /\ k <= size /\ k \div UFS_BLOCK_SIZE < Blocks(inodes'[p].size)
    <3>1. k \in Nat /\ k < inodes'[p].size
      BY <1>4, <1>8 DEF Used, UsedNext
    <3>2. Blocks(inodes'[p].size) \in Nat
          /\ inodes'[p].size <= Blocks(inodes'[p].size) * UFS_BLOCK_SIZE
      BY <1>4, <1>8, BlocksBound
    <3>3. Blocks(inodes'[p].size) * UFS_BLOCK_SIZE \in Nat
      BY <3>2, SizesAssumption
    <3>4. k < Blocks(inodes'[p].size) * UFS_BLOCK_SIZE
      BY <1>4, <1>8, <3>1, <3>2, <3>3
    <3>5. k \div UFS_BLOCK_SIZE < Blocks(inodes'[p].size)
      BY <3>1, <3>2, <3>4, DivBelow, SizesAssumption
    <3> QED BY <1>4, <1>8, <3>1, <3>5
  <2>2. size \in UsedNext(p) /\ Used(p) \subseteq UsedNext(p) /\ size \notin Used(p)
    BY <1>4, <1>8 DEF Used, UsedNext
  <2>3. \A k \in Used(p) : k < size /\ k \in Nat
    BY <1>4 DEF Used
  <2>4. EntryNext(p, size) = Entry(n, i)
    <3>1. size \in Nat /\ size \div UFS_BLOCK_SIZE < Blocks(inodes'[p].size)
      BY <1>4, <2>1, <2>2
    <3> QED BY <3>1, <1>12
  <2>5. ASSUME NEW k \in Used(p) PROVE EntryNext(p, k) = EntryAt(p, k)
    <3> HIDE DEF size
    <3> QED BY <1>4, <1>12, <2>1, <2>2, <2>3
  <2>6. ASSUME NEW k \in PositionsNext(p), k > size PROVE EntryNext(p, k).inum = -1
    <3>1. k \in Nat /\ k \div UFS_BLOCK_SIZE < Blocks(inodes'[p].size)
      BY <1>1, <1>3, <1>7, NewPosition
    <3>2. k # size
      BY <1>4, <2>6, <3>1
    <3>3. k \notin Used(p)
      BY <1>4, <2>3, <2>6, <3>1
    <3>4. k \in Positions(p) => EntryAt(p, k).inum = -1
      BY <1>1, <3>3 DEF DirectoriesAreDense
    <3> QED BY <1>12, <3>1, <3>2, <3>4
  <2> QED BY <2>4, <2>5, <2>6
\* The new directory.
<1>14. ASSUME t = UFS_DIRECTORY
       PROVE  /\ inodes'[i].size = 2
              /\ EntryNext(i, 0) = Entry(".", i) /\ EntryNext(i, 1) = Entry("..", p)
              /\ \A k \in PositionsNext(i) : k >= 2 => EntryNext(i, k).inum = -1
  <2>1. inodes'[i].size = 2
    BY <1>5, <1>14 DEF Created
  <2>2. ASSUME NEW k \in Nat, k < UFS_BLOCK_SIZE
        PROVE  EntryNext(i, k) = NewDirBlock(i, p)[k]
    <3>1. k \div UFS_BLOCK_SIZE = 0 /\ k % UFS_BLOCK_SIZE = k
      BY <2>2, SizesAssumption
    <3> QED BY <1>6, <1>14, <3>1 DEF EntryAt, EntryNext
  <2>4. 0 \in Slot /\ 1 \in Slot /\ \A k \in Slot : k \in Nat /\ k < UFS_BLOCK_SIZE
    BY SizesAssumption DEF Slot
  <2>5. ASSUME NEW k \in PositionsNext(i), k >= 2 PROVE EntryNext(i, k).inum = -1
    <3>1. PositionsNext(i) = 0 .. 1 * UFS_BLOCK_SIZE - 1
      BY <2>1, BlocksOfSmall DEF PositionsNext
    <3>2. k \in Slot /\ k # 0 /\ k # 1
      BY <2>5, <3>1, SizesAssumption DEF Slot
    <3>3. EntryNext(i, k) = NewDirBlock(i, p)[k]
      BY <2>2, <2>4, <3>2
    <3> QED BY <3>2, <3>3, NewDirBlockEntries
  <2>6. EntryNext(i, 0) = Entry(".", i) /\ EntryNext(i, 1) = Entry("..", p)
    BY <2>2, <2>4, NewDirBlockEntries
  <2> QED BY <2>1, <2>5, <2>6
<1>15. \A k \in Used(p) : EntryAt(p, k).name # n
  BY <1>1, NotFoundIsNew
<1>16. t # UFS_DIRECTORY => inodes'[i].size = 0
  BY <1>5 DEF Created
<1>17. CreateEntries(p, t, n, i)
  BY <1>7, <1>8, <1>9, <1>10, <1>13, <1>14, <1>15, <1>16 DEF CreateEntries
<1> QED BY <1>1, <1>2, <1>17
-----------------------------------------------------------------------------
(* write and unlink, seen through the entries.                             *)

PointersDiffer ==
  \A i \in inodeBitmap, x \in Nat : x < Blocks(inodes[i].size) =>
    /\ inodes[i].direct[x] \in DataBlock
    /\ \A z \in 0 .. Blocks(inodes[i].size) - 1 :
         inodes[i].direct[z] = inodes[i].direct[x] => z = x

LEMMA AllPointersDiffer == IInv => PointersDiffer
<1> SUFFICES ASSUME IInv, NEW i \in inodeBitmap, NEW x \in Nat, x < Blocks(inodes[i].size)
             PROVE  /\ inodes[i].direct[x] \in DataBlock
                    /\ \A z \in 0 .. Blocks(inodes[i].size) - 1 :
                         inodes[i].direct[z] = inodes[i].direct[x] => z = x
  BY DEF PointersDiffer
<1>1. Blocks(inodes[i].size) \in Nat
  BY BlocksBound DEF IInv, TypeOK, InodeRecord
<1>2. ASSUME NEW z \in 0 .. Blocks(inodes[i].size) - 1,
             inodes[i].direct[z] = inodes[i].direct[x]
      PROVE  z = x
  <2>1. z \in Nat /\ z < Blocks(inodes[i].size)
    BY <1>1
  <2> QED BY <1>2, <2>1, BlocksDiffer
<1> QED BY <1>2, OwnedPointer

\* The pointers below a size, after a step.
LEMMA PointersNext ==
  ASSUME IInv', NEW i \in inodeBitmap', NEW x \in Nat, x < Blocks(inodes'[i].size)
  PROVE  /\ inodes'[i].direct[x] \in DataBlock
         /\ \A z \in 0 .. Blocks(inodes'[i].size) - 1 :
              inodes'[i].direct[z] = inodes'[i].direct[x] => z = x
<1>1. IInv' => PointersDiffer'
  BY AllPointersDiffer, PTL
<1> QED BY <1>1 DEF PointersDiffer

LEMMA WriteOnEntries ==
  ASSUME IInv, NEW i \in InodeArg, NEW v \in Values, NEW n \in Sizes, Write(i, v, n)
  PROVE  /\ inodeBitmap' = inodeBitmap
         /\ Directories' = Directories
         /\ i \in inodeBitmap \ Directories
         /\ \A q \in inodeBitmap \ {i} : Kept(q)
         /\ n \in Nat /\ inodes'[i].size = n
         /\ \A k \in 0 .. n - 1 : EntryNext(i, k) = Entry(v, k)
<1>1. /\ i \in inodeBitmap /\ i \in Inode
      /\ Blocks(n) \in Nat /\ Blocks(n) <= DIRECT_PTRS
      /\ Blocks(inodes[i].size) \in Nat /\ Blocks(inodes[i].size) <= DIRECT_PTRS
  BY WriteChecks DEF Write
<1>2. /\ dataBitmap \subseteq DataBlock
      /\ inodes \in [Inode -> InodeRecord]
  BY DEF IInv, TypeOK
<1>b. PICK before \in Nat : before = Blocks(inodes[i].size) /\ before <= DIRECT_PTRS
  BY <1>1
<1>a. PICK after \in Nat : after = Blocks(n) /\ after <= DIRECT_PTRS
  BY <1>1
<1>c. PICK c \in Nat : c = IF before < after THEN after - before ELSE 0
  BY <1>a, <1>b
<1>3. Larger(0, Blocks(n) - Blocks(inodes[i].size)) = c
  BY <1>a, <1>b, <1>c DEF Larger
<1>4. PICK f \in LowestFree(c) :
        LET at(b) == {x \in 0 .. Blocks(n) - 1 : Repointed(i, n, f)[x] = b}
        IN /\ dataBitmap' = (dataBitmap \cup {f[x] : x \in DOMAIN f}) \ WriteFrees(i, n)
           /\ inodes' = [inodes EXCEPT
                ![i] = [type |-> inodes[i].type, size |-> n, direct |-> Repointed(i, n, f)]]
           /\ dataRegion' = [b \in DataBlock |->
                IF at(b) # {} THEN FileBlock(v, n, Max(at(b))) ELSE dataRegion[b]]
  BY <1>3, Zenon DEF Write
<1>5. \A x \in 0 .. c - 1 : f[x] \notin dataBitmap
  BY <1>2, LowestFreeIsNew
<1>6. inodeBitmap' = inodeBitmap
  BY DEF Write
<1>7. /\ inodes'[i].type = inodes[i].type
      /\ \A j \in Inode \ {i} : inodes'[j] = inodes[j]
  BY <1>1, <1>2, <1>4
<1>8. Directories' = Directories /\ i \notin Directories
  <2>1. IsFile(i)
    <3>1. ~(-EINVALIDSIZE > 0) /\ ~(-ENOTENOUGHSPACE > 0)
          /\ ~(-EINVALIDINODE > 0) /\ ~(-EWRITETODIR > 0)
      BY DEF EINVALIDSIZE, ENOTENOUGHSPACE, EINVALIDINODE, EWRITETODIR
    <3>2. WriteReturn(i, n) > 0
      BY DEF Write
    <3>3. ~(n <= 0)
      BY <3>1, <3>2, Zenon DEF WriteReturn
    <3>4. ~(Blocks(n) > DIRECT_PTRS)
      BY <3>1, <3>2, <3>3, Zenon DEF WriteReturn
    <3>5. Allocated(i)
      BY <3>1, <3>2, <3>3, <3>4, Zenon DEF WriteReturn
    <3> QED BY <3>1, <3>2, <3>3, <3>4, <3>5, Zenon DEF WriteReturn
  <2>2. inodes[i].type # UFS_DIRECTORY
    BY <2>1 DEF IsFile, UFS_DIRECTORY, UFS_REGULAR_FILE
  <2>3. \A j \in Inode : inodes'[j].type = inodes[j].type
    BY <1>7
  <2>4. ASSUME NEW j \in Inode PROVE j \in Directories' <=> j \in Directories
    BY <1>6, <2>3 DEF Directories, IsDirectory, Allocated
  <2>5. Directories' \subseteq Inode /\ Directories \subseteq Inode
    BY DEF Directories, Inode
  <2>6. i \notin Directories
    BY <2>2 DEF Directories, IsDirectory
  <2> QED BY <2>4, <2>5, <2>6
<1>9. ASSUME NEW q \in inodeBitmap \ {i} PROVE Kept(q)
  <2>1. q \in inodeBitmap /\ q \in Inode /\ q # i
    BY DEF IInv, TypeOK
  <2>2. inodes'[q] = inodes[q]
    BY <1>7, <2>1
  <2>3. ASSUME NEW x \in Nat, x < Blocks(inodes[q].size)
        PROVE  dataRegion'[inodes[q].direct[x]] = dataRegion[inodes[q].direct[x]]
    <3>b. PICK b : b = inodes[q].direct[x]
      OBVIOUS
    <3>1. b \in dataBitmap /\ b \in DataBlock
      BY <2>1, <2>3, <3>b, OwnedPointer
    <3>2. ASSUME NEW z \in 0 .. Blocks(n) - 1 PROVE Repointed(i, n, f)[z] # b
      <4>1. z \in Index /\ z \in Nat /\ z < after
        BY <1>a, <3>2, SizesAssumption DEF Index
      <4>2. Repointed(i, n, f)[z] = IF z \in before .. after - 1 THEN f[z - before]
                                    ELSE IF z \in after .. before - 1 THEN Unset
                                    ELSE inodes[i].direct[z]
        BY <1>a, <1>b, <4>1 DEF Repointed
      <4>3. CASE z < before
        <5>1. Repointed(i, n, f)[z] = inodes[i].direct[z]
          BY <4>1, <4>2, <4>3
        <5>2. inodes[i].direct[z] # inodes[q].direct[x]
          BY <1>1, <1>b, <2>1, <2>3, <4>1, <4>3, BlocksDiffer
        <5> QED BY <3>b, <5>1, <5>2
      <4>4. CASE ~(z < before)
        <5>1. z - before \in 0 .. c - 1 /\ z \in before .. after - 1
          BY <1>c, <4>1, <4>4
        <5> QED BY <1>5, <3>1, <4>2, <5>1
      <4> QED BY <4>3, <4>4
    <3>3. {z \in 0 .. Blocks(n) - 1 : Repointed(i, n, f)[z] = b} = {}
      BY <3>2
    <3>4. dataRegion'[b] = dataRegion[b]
      BY <1>4, <3>1, <3>3
    <3> QED BY <3>b, <3>4
  <2> QED BY <2>1, <2>2, <2>3, EntriesStay DEF Kept
<1>10. n \in Nat /\ inodes'[i] = [type |-> inodes[i].type, size |-> n, direct |-> Repointed(i, n, f)]
  BY <1>1, <1>2, <1>4, WriteChecks DEF Write
<1>11. inodes'[i].size = n /\ inodes'[i].direct = Repointed(i, n, f)
  <2>p. PICK g : g = Repointed(i, n, f)
    OBVIOUS
  <2> QED BY <1>10, <2>p
\* Its pointers are different data blocks, so each gets its part of the buffer.
<1>12. ASSUME NEW k \in 0 .. n - 1 PROVE EntryNext(i, k) = Entry(v, k)
  <2>1. IInv' /\ i \in inodeBitmap'
    BY <1>1, <1>6, WriteKeepsIInv
  <2>x. PICK x \in Nat, r \in Slot :
          x = k \div UFS_BLOCK_SIZE /\ r = k % UFS_BLOCK_SIZE /\ k = UFS_BLOCK_SIZE * x + r
    BY <1>10, PlaceInBlock
  <2>2. x < after
    <3>1. n <= after * UFS_BLOCK_SIZE
      BY <1>a, <1>10, BlocksBound
    <3>2. k \in Nat /\ k < after * UFS_BLOCK_SIZE
      <4>1. after * UFS_BLOCK_SIZE \in Nat
        BY SizesAssumption
      <4> QED BY <1>10, <3>1, <4>1
    <3>3. UFS_BLOCK_SIZE \in Nat \ {0}
      BY SizesAssumption
    <3> QED BY <2>x, <3>2, <3>3, DivBelow
  <2>b. PICK b : b = Repointed(i, n, f)[x]
    OBVIOUS
  <2>3. \A z \in Nat : z < after => z < Blocks(n)
    BY <1>a
  <2>4. b \in DataBlock /\ \A z \in 0 .. Blocks(n) - 1 : Repointed(i, n, f)[z] = b => z = x
    BY <1>11, <1>a, <2>1, <2>2, <2>b, PointersNext
  <2> DEFINE at == {z \in 0 .. Blocks(n) - 1 : Repointed(i, n, f)[z] = b}
  <2>5. x \in at /\ \A z \in at : z = x
    BY <1>a, <2>2, <2>4, <2>b
  <2>6. at = {x}
    BY <2>5
  <2>7. Max(at) = x
    <3> HIDE DEF at
    <3> QED BY <2>6 DEF Max
  <2>8. dataRegion'[b] = FileBlock(v, n, x)
    <3>1. dataRegion'[b] = IF at # {} THEN FileBlock(v, n, Max(at)) ELSE dataRegion[b]
      BY <1>4, <2>4
    <3> HIDE DEF at
    <3> QED BY <2>6, <2>7, <3>1
  <2>9. EntryNext(i, k) = FileBlock(v, n, x)[r]
    BY <1>11, <2>8, <2>b, <2>x DEF EntryNext
  <2>10. FileBlock(v, n, x)[r] = Entry(v, k)
    <3>1. x * UFS_BLOCK_SIZE + r = k /\ k < n
      <4>1. x * UFS_BLOCK_SIZE = UFS_BLOCK_SIZE * x
        BY SizesAssumption
      <4> QED BY <1>10, <2>x, <4>1
    <3>2. FileBlock(v, n, x)[r] = IF x * UFS_BLOCK_SIZE + r < n THEN Entry(v, x * UFS_BLOCK_SIZE + r)
                                  ELSE Entry("inode", 0)
      BY DEF FileBlock
    <3> QED BY <3>1, <3>2
  <2> QED BY <2>9, <2>10
<1> QED BY <1>1, <1>6, <1>8, <1>9, <1>10, <1>11, <1>12

\* What unlink does to the directories: it takes out the entry at e.
UnlinkEntries(p, e, t) ==
  /\ inodeBitmap' = inodeBitmap \ {t}
  /\ Directories' = Directories \ {t}
  /\ \A q \in inodeBitmap \ {p} : Kept(q)
  /\ inodes'[p].size = inodes[p].size - 1
  /\ \A k \in UsedNext(p) :
       EntryNext(p, k) = EntryAt(p, IF k < e THEN k ELSE k + 1)
  /\ \A k \in PositionsNext(p) \ UsedNext(p) : EntryNext(p, k).inum = -1

LEMMA UnlinkTarget ==
  ASSUME IInv, NEW p \in InodeArg, NEW n \in NameArg, Unlink(p, n),
         NEW e, e = Min(UnlinkHits(p, n)), NEW t, t = EntryAt(p, e).inum
  PROVE  /\ p \in Directories
         /\ n \notin {".", ".."}
         /\ EntryAt(p, e).name = n
         /\ t \in Directories => IsEmptyDirectory(t)
<1>0. UnlinkReturn(p, n) = 0
  BY Zenon DEF Unlink
<1>1. /\ -EINVALIDNAME # 0 /\ -EINVALIDINODE # 0
      /\ -EUNLINKNOTALLOWED # 0 /\ -EDIRNOTEMPTY # 0
  BY DEF EINVALIDNAME, EINVALIDINODE, EUNLINKNOTALLOWED, EDIRNOTEMPTY
<1>2. n \notin {".", ".."} /\ n # ""
  BY <1>0, <1>1, Zenon DEF UnlinkReturn
<1>3. ~(~IsDirectory(p) \/ inodes[p].size < 2)
  BY <1>0, <1>1, <1>2, Zenon DEF UnlinkReturn
<1>4. UnlinkHits(p, n) # {}
  BY <1>0, <1>1, <1>2, <1>3, Zenon DEF UnlinkReturn
<1>5. ~(t < 0)
  BY <1>0, <1>1, <1>2, <1>3, <1>4, Zenon DEF UnlinkReturn
<1>6. Allocated(t)
  BY <1>0, <1>1, <1>2, <1>3, <1>4, <1>5, Zenon DEF UnlinkReturn
<1>7. ~(IsDirectory(t) /\ ~IsEmptyDirectory(t))
  BY <1>0, <1>1, <1>2, <1>3, <1>4, <1>5, <1>6, Zenon DEF UnlinkReturn
<1>8. p \in Directories
  BY <1>3 DEF Directories, IsDirectory, Allocated
<1>9. UnlinkHits(p, n) \subseteq Nat
  BY <1>8, DirectoryIsTyped DEF UnlinkHits, Used
<1>10. e \in UnlinkHits(p, n)
  BY <1>4, <1>9, MinOfNaturals
<1> QED BY <1>2, <1>7, <1>8, <1>10 DEF UnlinkHits, Directories

LEMMA UnlinkOnEntries ==
  ASSUME IInv, DirectoriesAreDense, NEW p \in InodeArg, NEW n \in NameArg, Unlink(p, n)
  PROVE  /\ p \in Directories
         /\ \E e \in Used(p) : \E t \in inodeBitmap :
              /\ e >= 2 /\ EntryAt(p, e).inum = t /\ t # p /\ EntryAt(p, e).name = n
              /\ t \in Directories => IsEmptyDirectory(t)
              /\ UnlinkEntries(p, e, t)
<1>e. PICK e : e = Min(UnlinkHits(p, n))
  OBVIOUS
<1>t. PICK t : t = EntryAt(p, e).inum
  OBVIOUS
<1>1. /\ p \in inodeBitmap /\ p \in Inode
      /\ inodes[p].size \in Nat /\ inodes[p].size >= 2
      /\ e \in Used(p) /\ e \in Nat
      /\ t \in inodeBitmap /\ t \in Inode
      /\ t # p
  BY <1>e, <1>t, UnlinkChecks DEF Unlink
<1>2. /\ p \in Directories
      /\ n \notin {".", ".."}
      /\ EntryAt(p, e).name = n
      /\ t \in Directories => IsEmptyDirectory(t)
  BY <1>e, <1>t, UnlinkTarget
<1>3. e >= 2
  <2>1. EntryAt(p, 0).name = "." /\ EntryAt(p, 1).name = ".."
    BY <1>2, EntryFields DEF DirectoriesAreDense
  <2>2. e # 0 /\ e # 1
    BY <1>2, <2>1
  <2> QED BY <1>1, <2>2
<1>n. PICK size \in Nat : size = inodes[p].size /\ e < size /\ 2 <= size
  BY <1>1 DEF Used
<1>b. PICK before \in Nat : before = Blocks(size) /\ before <= DIRECT_PTRS
  BY <1>1, <1>n, BlocksBound DEF IInv, SizesFit
<1>a. PICK after \in Nat : after = Blocks(size - 1) /\ after <= before
  <2>1. size - 1 \in Nat /\ size - 1 <= size
    BY <1>n
  <2> QED BY <1>b, <2>1, BlocksBound, BlocksMonotone
<1> DEFINE at(b) == {x \in 0 .. after - 1 : inodes[p].direct[x] = b}
<1>4. /\ dataRegion' = [b \in DataBlock |->
            IF at(b) # {} THEN CompactedBlock(p, e, Max(at(b))) ELSE dataRegion[b]]
      /\ inodes' = [inodes EXCEPT ![p] = Shortened(p)]
      /\ inodeBitmap' = inodeBitmap \ {t}
  <2>1. after = Blocks(inodes[p].size - 1)
    BY <1>a, <1>n
  <2> QED BY <1>e, <1>t, <2>1, Zenon DEF Unlink
<1>5. /\ inodes'[p] = Shortened(p)
      /\ \A j \in Inode \ {p} : inodes'[j] = inodes[j]
      /\ inodes \in [Inode -> InodeRecord]
      /\ inodeBitmap \subseteq Inode
  BY <1>1, <1>4 DEF IInv, TypeOK
<1>6. /\ inodes'[p].size = size - 1
      /\ inodes'[p].type = inodes[p].type
      /\ \A x \in 0 .. after - 1 : inodes'[p].direct[x] = inodes[p].direct[x]
  <2>1. inodes[p] \in InodeRecord
    BY <1>1, <1>5
  <2>2. Shortened(p) = [type |-> inodes[p].type, size |-> inodes[p].size - 1,
                        direct |-> IF before # after
                                   THEN [inodes[p].direct EXCEPT ![after] = Unset]
                                   ELSE inodes[p].direct]
    BY <1>a, <1>b, <1>n, Zenon DEF Shortened
  <2>3. \A x \in 0 .. after - 1 : x \in Index /\ x # after
    BY <1>a, <1>b, SizesAssumption DEF Index
  <2> QED BY <1>5, <1>n, <2>1, <2>2, <2>3 DEF InodeRecord
<1>7. Directories' = Directories \ {t}
  <2>1. \A j \in Inode : inodes'[j].type = inodes[j].type
    BY <1>5, <1>6
  <2>2. ASSUME NEW j \in Inode PROVE j \in Directories' <=> j \in Directories /\ j # t
    BY <1>4, <2>1 DEF Directories, IsDirectory, Allocated
  <2>3. Directories' \subseteq Inode /\ Directories \subseteq Inode
    BY DEF Directories, Inode
  <2> QED BY <2>2, <2>3
<1>8. ASSUME NEW q \in inodeBitmap \ {p} PROVE Kept(q)
  <2>1. q \in inodeBitmap /\ q \in Inode
    BY <1>5
  <2>2. inodes'[q] = inodes[q]
    BY <1>5, <2>1
  <2>3. ASSUME NEW x \in Nat, x < Blocks(inodes[q].size)
        PROVE  dataRegion'[inodes[q].direct[x]] = dataRegion[inodes[q].direct[x]]
    <3>b. PICK b : b = inodes[q].direct[x]
      OBVIOUS
    <3>1. b \in DataBlock
      BY <2>1, <2>3, <3>b, OwnedPointer
    <3>2. ASSUME NEW z \in 0 .. after - 1 PROVE inodes[p].direct[z] # b
      <4>1. z \in Nat /\ z < Blocks(inodes[p].size)
        BY <1>a, <1>b, <1>n
      <4> QED BY <1>1, <2>1, <2>3, <3>b, <4>1, BlocksDiffer
    <3>3. at(b) = {}
      BY <3>2
    <3>4. dataRegion'[b] = dataRegion[b]
      <4> HIDE DEF at
      <4> QED BY <1>4, <3>1, <3>3
    <3> QED BY <3>b, <3>4
  <2> QED BY <2>1, <2>2, <2>3, EntriesStay DEF Kept
\* The parent.
<1>9. ASSUME NEW x \in 0 .. after - 1
      PROVE  dataRegion'[inodes'[p].direct[x]] = CompactedBlock(p, e, x)
  <2>b. PICK b : b = inodes[p].direct[x]
    OBVIOUS
  <2>1. x \in Nat /\ x < Blocks(inodes[p].size)
    BY <1>a, <1>b, <1>n
  <2>2. b \in DataBlock
    BY <1>1, <2>1, <2>b, OwnedPointer
  <2>3. x \in at(b) /\ at(b) \subseteq 0 .. after - 1
    BY <2>b
  <2>4. \A z \in at(b) : z = x
    <3>1. ASSUME NEW z \in at(b) PROVE z = x
      <4>1. z \in Nat /\ z < Blocks(inodes[p].size) /\ inodes[p].direct[z] = inodes[p].direct[x]
        BY <1>a, <1>b, <1>n, <2>b
      <4> QED BY <1>1, <2>1, <4>1, BlocksDiffer
    <3> QED BY <3>1
  <2> HIDE DEF at
  <2>5. Max(at(b)) \in at(b)
    BY <1>a, <2>3, MaxOfBounded
  <2>6. dataRegion'[b] = CompactedBlock(p, e, x)
    BY <1>4, <2>2, <2>3, <2>4, <2>5
  <2> QED BY <1>6, <2>b, <2>6
<1>10. ASSUME NEW k \in PositionsNext(p)
       PROVE  k \in Nat /\ k \in Positions(p) /\ EntryNext(p, k) = Compacted(p, e, k)
  <2>1. IInv' /\ p \in inodeBitmap'
    BY <1>1, <1>4, UnlinkKeepsIInv
  <2>2. Blocks(inodes'[p].size) = after
    BY <1>6, <1>a
  <2>3. /\ k \in Nat
        /\ k \div UFS_BLOCK_SIZE \in 0 .. after - 1
        /\ k % UFS_BLOCK_SIZE \in Slot
    BY <1>a, <2>1, <2>2, NewPosition
  <2>4. k \in Positions(p)
    <3>1. k \div UFS_BLOCK_SIZE < Blocks(inodes[p].size)
      BY <1>a, <1>b, <1>n, <2>3
    <3> QED BY <1>1, <2>3, <3>1, OldPosition
  <2>5. EntryNext(p, k) = CompactedBlock(p, e, k \div UFS_BLOCK_SIZE)[k % UFS_BLOCK_SIZE]
    BY <1>9, <2>3 DEF EntryNext
  <2>6. PICK x \in 0 .. after - 1, r \in Slot :
          x = k \div UFS_BLOCK_SIZE /\ r = k % UFS_BLOCK_SIZE
    BY <2>3
  <2>7. k = x * UFS_BLOCK_SIZE + r
    <3>1. k = UFS_BLOCK_SIZE * x + r
      BY <2>3, <2>6, PlaceInBlock
    <3>2. UFS_BLOCK_SIZE * x = x * UFS_BLOCK_SIZE
      BY SizesAssumption
    <3> QED BY <3>1, <3>2
  <2>8. CompactedBlock(p, e, x)[r] = Compacted(p, e, x * UFS_BLOCK_SIZE + r)
    BY DEF CompactedBlock
  <2>9. EntryNext(p, k) = Compacted(p, e, k)
    BY <2>5, <2>6, <2>7, <2>8
  <2> QED BY <2>3, <2>4, <2>9
<1>11. ASSUME NEW k \in UsedNext(p)
       PROVE  EntryNext(p, k) = EntryAt(p, IF k < e THEN k ELSE k + 1)
  <2>1. k \in Nat /\ k < size - 1
    BY <1>6, <1>n DEF UsedNext
  <2>2. k \in PositionsNext(p)
    <3>1. size - 1 <= after * UFS_BLOCK_SIZE /\ after * UFS_BLOCK_SIZE \in Nat
      BY <1>a, <1>n, BlocksBound, SizesAssumption
    <3>2. PositionsNext(p) = 0 .. after * UFS_BLOCK_SIZE - 1
      BY <1>6, <1>a DEF PositionsNext
    <3> QED BY <1>n, <2>1, <3>1, <3>2
  <2>3. EntryNext(p, k) = Compacted(p, e, k)
    BY <1>10, <2>2
  <2>4. Compacted(p, e, k) = IF k \in e .. size - 1 - 1 THEN EntryAt(p, k + 1)
                             ELSE IF k = size - 1 THEN Entry(EntryAt(p, k).name, -1)
                             ELSE EntryAt(p, k)
    BY <1>n, Zenon DEF Compacted
  <2>5. CASE k < e
    <3>1. k \notin e .. size - 1 - 1 /\ k # size - 1
      BY <1>1, <1>n, <2>1, <2>5
    <3> QED BY <2>3, <2>4, <2>5, <3>1
  <2>6. CASE ~(k < e)
    <3>1. k \in e .. size - 1 - 1
      BY <1>1, <1>n, <2>1, <2>6
    <3> QED BY <2>3, <2>4, <2>6, <3>1
  <2> QED BY <2>5, <2>6
<1>12. ASSUME NEW k \in PositionsNext(p) \ UsedNext(p)
       PROVE  EntryNext(p, k).inum = -1
  <2>1. k \in Nat /\ k \in Positions(p) /\ EntryNext(p, k) = Compacted(p, e, k)
    BY <1>10
  <2>2. k >= size - 1
    BY <1>6, <1>n, <2>1 DEF UsedNext
  <2>3. Compacted(p, e, k) = IF k \in e .. size - 1 - 1 THEN EntryAt(p, k + 1)
                             ELSE IF k = size - 1 THEN Entry(EntryAt(p, k).name, -1)
                             ELSE EntryAt(p, k)
    BY <1>n, Zenon DEF Compacted
  <2>4. k \notin e .. size - 1 - 1
    BY <1>n, <2>1, <2>2
  <2>5. CASE k = size - 1
    <3>1. EntryNext(p, k) = Entry(EntryAt(p, k).name, -1)
      BY <2>1, <2>3, <2>4, <2>5
    <3> QED BY <3>1, EntryFields
  <2>6. CASE k # size - 1
    <3>1. k \notin Used(p)
      BY <1>n, <2>1, <2>2, <2>6 DEF Used
    <3>2. EntryNext(p, k) = EntryAt(p, k)
      BY <2>1, <2>3, <2>4, <2>6
    <3> QED BY <1>2, <2>1, <3>1, <3>2 DEF DirectoriesAreDense
  <2> QED BY <2>5, <2>6
<1>13. inodes'[p].size = inodes[p].size - 1
  BY <1>6, <1>n
<1>14. UnlinkEntries(p, e, t)
  BY <1>4, <1>7, <1>8, <1>11, <1>12, <1>13 DEF UnlinkEntries
<1> QED BY <1>1, <1>2, <1>3, <1>t, <1>14
-----------------------------------------------------------------------------
(* The invariant, from what the calls do to entries.                       *)

\* Directory p is dense after the step.
DenseNext(p) ==
  /\ inodes'[p].size >= 2
  /\ EntryNext(p, 0) = Entry(".", p)
  /\ EntryNext(p, 1).name = ".."
  /\ \A k \in UsedNext(p) : EntryNext(p, k).inum \in inodeBitmap'
  /\ \A k \in PositionsNext(p) \ UsedNext(p) : EntryNext(p, k).inum = -1
  /\ \A j, k \in UsedNext(p) : EntryNext(p, j).name = EntryNext(p, k).name => j = k

NamedNext(p, k, i) ==
  p \in Directories' /\ k \in UsedNext(p) /\ k >= 2 /\ EntryNext(p, k).inum = i

\* The part of TInv that is about names and parents, after the step.
TreeNext ==
  /\ \A p, q \in Inode, j, k \in Nat, i \in Inode :
       NamedNext(p, j, i) /\ NamedNext(q, k, i) => p = q /\ j = k
  /\ Root \in Directories' /\ EntryNext(Root, 1).inum = Root
  /\ \A p \in Inode, k \in Nat : ~NamedNext(p, k, Root)
  /\ \A i \in inodeBitmap' \ {Root} :
       \E p \in Inode, k \in Nat :
         NamedNext(p, k, i) /\ (i \in Directories' => EntryNext(i, 1).inum = p)
  /\ \A S \in SUBSET (Directories' \ {Root}) :
       S # {} => \E i \in S : EntryNext(i, 1).inum \notin S

LEMMA NextIsTInv ==
  ASSUME IInv', \A p \in Directories' : DenseNext(p), TreeNext
  PROVE  TInv'
<1>1. DirectoriesAreDense'
  BY DEF DirectoriesAreDense, DenseNext, EntryAt, EntryNext, Used, UsedNext,
         Positions, PositionsNext, Blocks
<1>2. NamedOnce'
  BY DEF NamedOnce, Named, TreeNext, NamedNext, EntryAt, EntryNext, Used, UsedNext
<1>3. RootIsAbove'
  BY DEF RootIsAbove, Named, TreeNext, NamedNext, EntryAt, EntryNext, Used, UsedNext
<1>4. AllAreNamed'
  BY DEF AllAreNamed, Named, TreeNext, NamedNext, EntryAt, EntryNext, Used, UsedNext
<1>5. ParentsLeadToRoot'
  BY DEF ParentsLeadToRoot, TreeNext, EntryAt, EntryNext
<1> QED BY <1>1, <1>2, <1>3, <1>4, <1>5 DEF TInv

\* What is known of a directory.
LEMMA DenseDirectory ==
  ASSUME TInv, NEW p \in Directories
  PROVE  /\ p \in inodeBitmap /\ p \in Inode /\ inodes[p].size \in Nat
         /\ inodes[p].size >= 2
         /\ 0 \in Used(p) /\ 1 \in Used(p)
         /\ \A k : k \in Used(p) <=> k \in Nat /\ k < inodes[p].size
         /\ Used(p) \subseteq Positions(p)
         /\ EntryAt(p, 0) = Entry(".", p) /\ EntryAt(p, 0).inum = p
         /\ EntryAt(p, 1).name = ".."
         /\ \A k \in Used(p) : EntryAt(p, k).inum \in inodeBitmap
         /\ \A k \in Positions(p) \ Used(p) : EntryAt(p, k).inum = -1
         /\ \A j, k \in Used(p) : EntryAt(p, j).name = EntryAt(p, k).name => j = k
<1>1. IInv /\ DirectoriesAreDense
  BY DEF TInv
<1>2. /\ p \in inodeBitmap /\ p \in Inode /\ inodes[p].size \in Nat
      /\ inodes[p].size >= 2
      /\ EntryAt(p, 0) = Entry(".", p)
      /\ EntryAt(p, 1).name = ".."
      /\ \A k \in Used(p) : EntryAt(p, k).inum \in inodeBitmap
      /\ \A k \in Positions(p) \ Used(p) : EntryAt(p, k).inum = -1
      /\ \A j, k \in Used(p) : EntryAt(p, j).name = EntryAt(p, k).name => j = k
  BY <1>1, DirectoryIsTyped DEF DirectoriesAreDense
<1>3. /\ 0 \in Used(p) /\ 1 \in Used(p)
      /\ \A k : k \in Used(p) <=> k \in Nat /\ k < inodes[p].size
  BY <1>2 DEF Used
<1>4. Used(p) \subseteq Positions(p)
  BY <1>1, <1>2, UsedIsPosition
<1>5. EntryAt(p, 0).inum = p
  BY <1>2, EntryFields
<1> QED BY <1>2, <1>3, <1>4, <1>5

LEMMA KeptDirectory ==
  ASSUME TInv, NEW q \in Directories, Kept(q)
  PROVE  /\ EntryNext(q, 0) = EntryAt(q, 0) /\ EntryNext(q, 1) = EntryAt(q, 1)
         /\ UsedNext(q) = Used(q)
         /\ \A k \in Used(q) : EntryNext(q, k) = EntryAt(q, k)
         /\ (\A k \in Used(q) : EntryAt(q, k).inum \in inodeBitmap') => DenseNext(q)
<1>1. /\ UsedNext(q) = Used(q)
      /\ PositionsNext(q) = Positions(q)
      /\ inodes'[q].size = inodes[q].size
      /\ \A k \in Positions(q) : EntryNext(q, k) = EntryAt(q, k)
  BY DEF Kept
<1>2. \A k \in Used(q) : EntryNext(q, k) = EntryAt(q, k)
  BY <1>1, DenseDirectory
<1>3. EntryNext(q, 0) = EntryAt(q, 0) /\ EntryNext(q, 1) = EntryAt(q, 1)
  BY <1>2, DenseDirectory
<1>4. ASSUME \A k \in Used(q) : EntryAt(q, k).inum \in inodeBitmap'
      PROVE  DenseNext(q)
  <2>1. /\ inodes'[q].size >= 2
        /\ EntryNext(q, 0) = Entry(".", q)
        /\ EntryNext(q, 1).name = ".."
    BY <1>1, <1>3, DenseDirectory
  <2>2. \A k \in UsedNext(q) : EntryNext(q, k).inum \in inodeBitmap'
    BY <1>1, <1>2, <1>4
  <2>3. \A k \in PositionsNext(q) \ UsedNext(q) : EntryNext(q, k).inum = -1
    BY <1>1, DenseDirectory
  <2>4. \A j, k \in UsedNext(q) : EntryNext(q, j).name = EntryNext(q, k).name => j = k
    BY <1>1, <1>2, DenseDirectory
  <2> QED BY <2>1, <2>2, <2>3, <2>4 DEF DenseNext
<1> QED BY <1>1, <1>2, <1>3, <1>4

LEMMA NamedFacts ==
  ASSUME TInv, NEW q, NEW k, NEW j, Named(q, k, j)
  PROVE  /\ q \in Directories /\ q \in Inode /\ q \in inodeBitmap
         /\ k \in Used(q) /\ k \in Nat /\ k >= 2
         /\ j \in inodeBitmap /\ j \in Inode
<1>1. q \in Directories /\ k \in Used(q) /\ k >= 2 /\ EntryAt(q, k).inum = j
  BY DEF Named
<1>2. inodeBitmap \subseteq Inode
  BY DEF TInv, IInv, TypeOK
<1> QED BY <1>1, <1>2, DenseDirectory

\* create: the new inode is named by the new entry only.
LEMMA CreateKeepsTInv ==
  ASSUME TInv, NEW p \in InodeArg, NEW t \in {UFS_DIRECTORY, UFS_REGULAR_FILE},
         NEW n \in NameArg, Create(p, t, n)
  PROVE  TInv'
<1>0. IInv /\ DirectoriesAreDense /\ inodeBitmap \subseteq Inode
  BY DEF TInv, IInv, TypeOK
<1>1. IInv'
  BY <1>0, CreateKeepsIInv
<1>2. PICK i \in Inode \ inodeBitmap : p \in Directories /\ CreateEntries(p, t, n, i)
  BY <1>0, CreateOnEntries
<1>3. /\ inodeBitmap' = inodeBitmap \cup {i}
      /\ Directories' = Directories \cup (IF t = UFS_DIRECTORY THEN {i} ELSE {})
      /\ \A q \in Directories \ {p} : Kept(q)
      /\ inodes'[p].size = inodes[p].size + 1
      /\ \A k \in Used(p) : EntryAt(p, k).name # n /\ EntryNext(p, k) = EntryAt(p, k)
      /\ EntryNext(p, inodes[p].size) = Entry(n, i)
      /\ \A k \in PositionsNext(p) : k > inodes[p].size => EntryNext(p, k).inum = -1
  BY <1>0, <1>2, DirectoryIsTyped DEF CreateEntries
<1>4. t = UFS_DIRECTORY =>
        /\ inodes'[i].size = 2
        /\ EntryNext(i, 0) = Entry(".", i) /\ EntryNext(i, 1) = Entry("..", p)
        /\ \A k \in PositionsNext(i) : k >= 2 => EntryNext(i, k).inum = -1
  BY <1>2, Zenon DEF CreateEntries
<1>s. PICK size \in Nat : size = inodes[p].size /\ size >= 2
  BY <1>2, DenseDirectory
<1>5. /\ UsedNext(p) = Used(p) \cup {size} /\ size \notin Used(p)
      /\ 0 \in Used(p) /\ 1 \in Used(p)
      /\ \A k \in Used(p) : EntryNext(p, k) = EntryAt(p, k)
      /\ EntryNext(p, size) = Entry(n, i)
      /\ EntryNext(p, size).name = n /\ EntryNext(p, size).inum = i
  <2>1. UsedNext(p) = Used(p) \cup {size} /\ size \notin Used(p)
    BY <1>3, <1>s DEF Used, UsedNext
  <2>2. EntryNext(p, size) = Entry(n, i)
    BY <1>3, <1>s
  <2>3. EntryNext(p, size).name = n /\ EntryNext(p, size).inum = i
    BY <2>2, EntryFields
  <2> QED BY <1>2, <1>3, <2>1, <2>2, <2>3, DenseDirectory
<1>6. t = UFS_DIRECTORY => /\ UsedNext(i) = {0, 1}
                           /\ EntryNext(i, 0).name = "." /\ EntryNext(i, 0).inum = i
                           /\ EntryNext(i, 1).name = ".." /\ EntryNext(i, 1).inum = p
  BY <1>4, EntryFields DEF UsedNext
<1>i. i \notin Directories /\ i # p /\ i # Root
  <2>1. i \notin Directories
    BY <1>2, DenseDirectory
  <2> QED BY <1>2, <2>1 DEF TInv, RootIsAbove
<1>7. ASSUME NEW q, NEW k, NEW j
      PROVE  NamedNext(q, k, j) <=> Named(q, k, j) \/ (q = p /\ k = size /\ j = i)
  <2>1. CASE q = p
    BY <1>2, <1>3, <1>5, <1>s, <2>1 DEF NamedNext, Named
  <2>2. CASE q \in Directories \ {p}
    <3>1. UsedNext(q) = Used(q) /\ \A x \in Used(q) : EntryNext(q, x) = EntryAt(q, x)
      BY <1>3, <2>2, KeptDirectory
    <3> QED BY <1>3, <2>2, <3>1 DEF NamedNext, Named
  <2>3. CASE q \notin Directories
    <3>1. q \in Directories' => q = i /\ t = UFS_DIRECTORY
      BY <1>3, <2>3
    <3>2. \A x \in {0, 1} : ~(x >= 2)
      OBVIOUS
    <3>3. ~NamedNext(q, k, j)
      BY <1>6, <3>1, <3>2 DEF NamedNext
    <3> QED BY <1>2, <2>3, <3>3 DEF Named
  <2> QED BY <2>1, <2>2, <2>3
<1>8. \A q, k, j : Named(q, k, j) => j \in inodeBitmap /\ j # i
  BY <1>2, NamedFacts
<1>9. ASSUME NEW q \in Directories'
      PROVE  DenseNext(q)
  <2>1. CASE q = p
    <3>1. \A k \in UsedNext(p) : EntryNext(p, k).inum \in inodeBitmap'
      BY <1>2, <1>3, <1>5, DenseDirectory
    <3>2. \A k \in PositionsNext(p) \ UsedNext(p) : EntryNext(p, k).inum = -1
      <4>1. ASSUME NEW k \in PositionsNext(p) \ UsedNext(p) PROVE EntryNext(p, k).inum = -1
        <5>1. k \in Nat
          BY <1>1, <1>2, <1>3, NewPosition, DenseDirectory
        <5>2. k > size
          BY <1>3, <1>s, <4>1, <5>1 DEF UsedNext
        <5> QED BY <1>3, <1>s, <5>2
      <4> QED BY <4>1
    <3>3. \A j, k \in UsedNext(p) : EntryNext(p, j).name = EntryNext(p, k).name => j = k
      BY <1>2, <1>3, <1>5, DenseDirectory
    <3>4. inodes'[p].size >= 2
      BY <1>3, <1>s
    <3>5. EntryNext(p, 0) = Entry(".", p) /\ EntryNext(p, 1).name = ".."
      BY <1>2, <1>5, DenseDirectory
    <3> QED BY <2>1, <3>1, <3>2, <3>3, <3>4, <3>5 DEF DenseNext
  <2>2. CASE q \in Directories \ {p}
    <3>1. \A k \in Used(q) : EntryAt(q, k).inum \in inodeBitmap'
      BY <1>3, <2>2, DenseDirectory
    <3> QED BY <1>3, <2>2, <3>1, KeptDirectory
  <2>3. CASE q = i /\ t = UFS_DIRECTORY
    <3>1. \A k \in UsedNext(i) : EntryNext(i, k).inum \in inodeBitmap'
      BY <1>2, <1>3, <1>6, <2>3, DenseDirectory
    <3>2. \A k \in PositionsNext(i) \ UsedNext(i) : EntryNext(i, k).inum = -1
      <4>1. ASSUME NEW k \in PositionsNext(i) \ UsedNext(i) PROVE EntryNext(i, k).inum = -1
        <5>1. k \in Nat
          BY <1>1, <1>3, NewPosition
        <5>2. k >= 2
          BY <1>6, <2>3, <4>1, <5>1
        <5> QED BY <1>4, <2>3, <5>2
      <4> QED BY <4>1
    <3>3. \A j, k \in UsedNext(i) : EntryNext(i, j).name = EntryNext(i, k).name => j = k
      BY <1>6, <2>3
    <3>4. inodes'[i].size >= 2
      BY <1>4, <2>3
    <3> QED BY <1>4, <1>6, <2>3, <3>1, <3>2, <3>3, <3>4 DEF DenseNext
  <2> QED BY <1>3, <2>1, <2>2, <2>3
<1>10. \A q \in Directories : EntryNext(q, 1) = EntryAt(q, 1)
  <2>1. ASSUME NEW q \in Directories \ {p} PROVE EntryNext(q, 1) = EntryAt(q, 1)
    BY <1>3, KeptDirectory
  <2> QED BY <1>5, <2>1
<1>11. \A a, b \in Inode, j, k \in Nat, c \in Inode :
         NamedNext(a, j, c) /\ NamedNext(b, k, c) => a = b /\ j = k
  BY <1>7, <1>8 DEF TInv, NamedOnce
<1>12. /\ Root \in Directories' /\ EntryNext(Root, 1).inum = Root
       /\ \A q \in Inode, k \in Nat : ~NamedNext(q, k, Root)
  BY <1>3, <1>7, <1>10, <1>i DEF TInv, RootIsAbove
<1>13. ASSUME NEW c \in inodeBitmap' \ {Root}
       PROVE  \E q \in Inode, k \in Nat :
                NamedNext(q, k, c) /\ (c \in Directories' => EntryNext(c, 1).inum = q)
  <2>1. CASE c = i
    <3>1. NamedNext(p, size, i)
      BY <1>7
    <3>2. i \in Directories' => EntryNext(i, 1).inum = p
      BY <1>3, <1>6, <1>i
    <3>3. p \in Inode
      BY <1>2, DenseDirectory
    <3> QED BY <2>1, <3>1, <3>2, <3>3
  <2>2. CASE c # i
    <3>1. c \in inodeBitmap \ {Root} /\ (c \in Directories' => c \in Directories)
      BY <1>3, <2>2
    <3> QED BY <1>7, <1>10, <3>1 DEF TInv, AllAreNamed
  <2> QED BY <2>1, <2>2
<1>14. ASSUME NEW S \in SUBSET (Directories' \ {Root}), S # {}
       PROVE  \E c \in S : EntryNext(c, 1).inum \notin S
  <2>1. CASE S \ {i} = {}
    <3>1. S = {i} /\ t = UFS_DIRECTORY
      BY <1>3, <1>14, <1>i, <2>1
    <3> QED BY <1>6, <1>i, <3>1
  <2>2. CASE S \ {i} # {}
    <3>1. S \ {i} \in SUBSET (Directories \ {Root})
      BY <1>3
    <3>2. PICK c \in S \ {i} : EntryAt(c, 1).inum \notin S \ {i}
      BY <2>2, <3>1 DEF TInv, ParentsLeadToRoot
    <3>3. c \in Directories /\ EntryAt(c, 1).inum \in inodeBitmap
      BY <3>1, <3>2, DenseDirectory
    <3> QED BY <1>2, <1>10, <3>2, <3>3
  <2> QED BY <2>1, <2>2
<1>15. TreeNext
  BY <1>11, <1>12, <1>13, <1>14 DEF TreeNext
<1> QED BY <1>1, <1>9, <1>15, NextIsTInv

\* write: no directory is written, though files and directories share the
\* data region.
LEMMA WriteKeepsTInv ==
  ASSUME TInv, NEW i \in InodeArg, NEW v \in Values, NEW n \in Sizes, Write(i, v, n)
  PROVE  TInv'
<1>0. IInv
  BY DEF TInv
<1>1. IInv'
  BY <1>0, WriteKeepsIInv
<1>2. /\ inodeBitmap' = inodeBitmap
      /\ Directories' = Directories
      /\ \A q \in Directories : Kept(q)
  BY <1>0, WriteOnEntries, DirectoryIsTyped
<1>3. \A q \in Directories :
        /\ EntryNext(q, 1) = EntryAt(q, 1)
        /\ UsedNext(q) = Used(q)
        /\ \A k \in Used(q) : EntryNext(q, k) = EntryAt(q, k)
  BY <1>2, KeptDirectory
<1>4. \A q, k, j : NamedNext(q, k, j) <=> Named(q, k, j)
  BY <1>2, <1>3 DEF NamedNext, Named
<1>5. ASSUME NEW q \in Directories'
      PROVE  DenseNext(q)
  <2>1. \A k \in Used(q) : EntryAt(q, k).inum \in inodeBitmap'
    BY <1>2, DenseDirectory
  <2> QED BY <1>2, <2>1, KeptDirectory
<1>6. \A a, b \in Inode, j, k \in Nat, c \in Inode :
        NamedNext(a, j, c) /\ NamedNext(b, k, c) => a = b /\ j = k
  BY <1>4 DEF TInv, NamedOnce
<1>7. /\ Root \in Directories' /\ EntryNext(Root, 1).inum = Root
      /\ \A q \in Inode, k \in Nat : ~NamedNext(q, k, Root)
  BY <1>2, <1>3, <1>4 DEF TInv, RootIsAbove
<1>8. \A c \in inodeBitmap' \ {Root} :
        \E q \in Inode, k \in Nat :
          NamedNext(q, k, c) /\ (c \in Directories' => EntryNext(c, 1).inum = q)
  BY <1>2, <1>3, <1>4 DEF TInv, AllAreNamed
<1>9. \A S \in SUBSET (Directories' \ {Root}) :
        S # {} => \E c \in S : EntryNext(c, 1).inum \notin S
  BY <1>2, <1>3 DEF TInv, ParentsLeadToRoot
<1>10. TreeNext
  BY <1>6, <1>7, <1>8, <1>9 DEF TreeNext
<1> QED BY <1>1, <1>5, <1>10, NextIsTInv

\* An empty directory names nothing.
LEMMA EmptyNamesNothing ==
  ASSUME TInv, NEW t, t \in Directories => IsEmptyDirectory(t), NEW k, NEW j
  PROVE  ~Named(t, k, j)
<1> SUFFICES ASSUME Named(t, k, j) PROVE FALSE
  OBVIOUS
<1>1. t \in Directories /\ k \in Used(t) /\ k >= 2
  BY DEF Named
<1>2. EntryAt(t, k).inum \in Nat
  BY <1>1, NamedFacts, SizesAssumption DEF Named, Inode
<1>3. EntryAt(t, k).inum # -1
  BY <1>2
<1>4. EntryAt(t, k).name \in {".", ".."}
  BY <1>1, <1>3 DEF IsEmptyDirectory
<1>5. /\ EntryAt(t, 0) = Entry(".", t) /\ EntryAt(t, 1).name = ".."
      /\ 0 \in Used(t) /\ 1 \in Used(t)
  BY <1>1, DenseDirectory
<1>6. EntryAt(t, 0).name = "."
  BY <1>5, EntryFields
<1>7. k = 0 \/ k = 1
  BY <1>1, <1>4, <1>5, <1>6, DenseDirectory
<1> QED BY <1>1, <1>7

\* unlink: every other entry moves down by at most one, and no entry but the
\* removed one, not even a "..", leads to the freed inode.
LEMMA UnlinkKeepsTInv ==
  ASSUME TInv, NEW p \in InodeArg, NEW n \in NameArg, Unlink(p, n)
  PROVE  TInv'
<1>0. IInv /\ DirectoriesAreDense /\ inodeBitmap \subseteq Inode
  BY DEF TInv, IInv, TypeOK
<1>1. IInv'
  BY <1>0, UnlinkKeepsIInv
<1>2. PICK e \in Used(p), t \in inodeBitmap :
        /\ p \in Directories
        /\ e >= 2 /\ EntryAt(p, e).inum = t /\ t # p
        /\ t \in Directories => IsEmptyDirectory(t)
        /\ UnlinkEntries(p, e, t)
  BY <1>0, UnlinkOnEntries
<1> DEFINE sh(k) == IF k < e THEN k ELSE k + 1
<1>3. /\ inodeBitmap' = inodeBitmap \ {t}
      /\ Directories' = Directories \ {t}
      /\ \A q \in Directories \ {p} : Kept(q)
      /\ inodes'[p].size = inodes[p].size - 1
      /\ \A k \in UsedNext(p) : EntryNext(p, k) = EntryAt(p, sh(k))
      /\ \A k \in PositionsNext(p) \ UsedNext(p) : EntryNext(p, k).inum = -1
  BY <1>0, <1>2, DirectoryIsTyped DEF UnlinkEntries
<1>s. PICK size \in Nat : size = inodes[p].size
  BY <1>2, DenseDirectory
<1>e. e \in Nat /\ e < size
  BY <1>2, <1>s, DenseDirectory
<1>4. /\ \A k : k \in UsedNext(p) <=> k \in Nat /\ k < size - 1
      /\ \A k : k \in Used(p) <=> k \in Nat /\ k < size
      /\ 0 \in UsedNext(p) /\ 1 \in UsedNext(p)
  <2>1. UsedNext(p) = 0 .. size - 2 /\ Used(p) = 0 .. size - 1
    BY <1>3, <1>s DEF UsedNext, Used
  <2> QED BY <1>2, <1>e, <2>1
<1>5. ASSUME NEW k \in UsedNext(p)
      PROVE  /\ sh(k) \in Used(p) /\ sh(k) # e
             /\ k >= 2 => sh(k) >= 2
             /\ k \in {0, 1} => sh(k) = k
  BY <1>2, <1>4, <1>e
<1>6. ASSUME NEW j \in UsedNext(p), NEW k \in UsedNext(p), sh(j) = sh(k)
      PROVE  j = k
  BY <1>4, <1>6, <1>e
<1>7. ASSUME NEW m \in Used(p), m # e, m >= 2
      PROVE  \E k \in UsedNext(p) : k >= 2 /\ sh(k) = m
  <2>1. CASE m < e
    BY <1>4, <1>7, <1>e, <2>1
  <2>2. CASE ~(m < e)
    <3>1. m - 1 \in UsedNext(p) /\ m - 1 >= 2 /\ sh(m - 1) = m
      BY <1>2, <1>4, <1>7, <1>e, <2>2
    <3> QED BY <3>1
  <2> QED BY <2>1, <2>2
<1> HIDE DEF sh
<1>8. /\ Named(p, e, t)
      /\ t # Root
      /\ \A k, j : ~Named(t, k, j)
      /\ p \in Directories'
  <2>1. Named(p, e, t)
    BY <1>2 DEF Named
  <2>2. p \in Inode
    BY <1>2, DenseDirectory
  <2> QED BY <1>2, <1>3, <1>e, <2>1, <2>2, EmptyNamesNothing DEF TInv, RootIsAbove
<1>9. ASSUME NEW q, NEW k, Named(q, k, t)
      PROVE  q = p /\ k = e
  BY <1>8, <1>9, NamedFacts DEF TInv, NamedOnce
\* Nothing else leads to t.
<1>10. ASSUME NEW q \in Directories', NEW k \in Used(q), ~(q = p /\ k = e)
       PROVE  EntryAt(q, k).inum \in inodeBitmap'
  <2>1. q \in Directories /\ q # t /\ k \in Nat
    BY <1>3, DenseDirectory
  <2>2. EntryAt(q, k).inum # t
    <3>1. CASE k = 0
      BY <2>1, <3>1, DenseDirectory
    <3>2. CASE k = 1
      <4>1. CASE q = Root
        BY <1>8, <3>2, <4>1 DEF TInv, RootIsAbove
      <4>2. CASE q # Root
        <5>1. q \in inodeBitmap \ {Root}
          BY <2>1, <4>2, DenseDirectory
        <5>2. PICK q0 \in Inode, k0 \in Nat :
                Named(q0, k0, q) /\ (q \in Directories => EntryAt(q, 1).inum = q0)
          BY <5>1 DEF TInv, AllAreNamed
        <5> QED BY <1>8, <2>1, <3>2, <5>2
      <4> QED BY <4>1, <4>2
    <3>3. CASE k >= 2
      <4>1. EntryAt(q, k).inum = t => Named(q, k, t)
        BY <2>1, <3>3 DEF Named
      <4> QED BY <1>9, <1>10, <4>1
    <3> QED BY <2>1, <3>1, <3>2, <3>3
  <2> QED BY <1>3, <2>1, <2>2, DenseDirectory
<1>11. ASSUME NEW q \in Directories'
       PROVE  DenseNext(q)
  <2>1. CASE q = p
    <3>1. \A k \in UsedNext(p) : EntryNext(p, k).inum \in inodeBitmap'
      BY <1>3, <1>5, <1>8, <1>10
    <3>2. \A j, k \in UsedNext(p) : EntryNext(p, j).name = EntryNext(p, k).name => j = k
      <4>1. ASSUME NEW j \in UsedNext(p), NEW k \in UsedNext(p),
                   EntryNext(p, j).name = EntryNext(p, k).name
            PROVE  j = k
        <5>1. EntryAt(p, sh(j)).name = EntryAt(p, sh(k)).name
          BY <1>3, <4>1
        <5>2. sh(j) = sh(k)
          BY <1>2, <1>5, <5>1, DenseDirectory
        <5> QED BY <1>6, <5>2
      <4> QED BY <4>1
    <3>3. inodes'[p].size >= 2
      BY <1>2, <1>3, <1>e, <1>s
    <3>4. EntryNext(p, 0) = Entry(".", p) /\ EntryNext(p, 1).name = ".."
      <4>1. EntryNext(p, 0) = EntryAt(p, 0) /\ EntryNext(p, 1) = EntryAt(p, 1)
        BY <1>3, <1>4, <1>5
      <4> QED BY <1>2, <4>1, DenseDirectory
    <3> QED BY <1>3, <2>1, <3>1, <3>2, <3>3, <3>4 DEF DenseNext
  <2>2. CASE q # p
    <3>1. q \in Directories \ {p}
      BY <1>3, <2>2
    <3>2. \A k \in Used(q) : EntryAt(q, k).inum \in inodeBitmap'
      BY <1>10, <2>2
    <3> QED BY <1>3, <3>1, <3>2, KeptDirectory
  <2> QED BY <2>1, <2>2
<1>12. ASSUME NEW q \in Directories' PROVE EntryNext(q, 1) = EntryAt(q, 1)
  <2>1. CASE q = p
    BY <1>3, <1>4, <1>5, <2>1
  <2>2. CASE q # p
    BY <1>3, <2>2, KeptDirectory
  <2> QED BY <2>1, <2>2
\* Names before and after.
<1> DEFINE old(q, k) == IF q = p THEN sh(k) ELSE k
<1>13. ASSUME NEW q, NEW k, NEW j, NamedNext(q, k, j)
       PROVE  Named(q, old(q, k), j) /\ q \in Directories'
              /\ k \in UsedNext(q) /\ ~(q = p /\ old(q, k) = e)
  <2>1. q \in Directories' /\ k \in UsedNext(q) /\ k >= 2 /\ EntryNext(q, k).inum = j
    BY <1>13 DEF NamedNext
  <2>2. CASE q = p
    BY <1>2, <1>3, <1>5, <2>1, <2>2 DEF Named
  <2>3. CASE q # p
    BY <1>3, <2>1, <2>3, KeptDirectory DEF Named
  <2> QED BY <2>1, <2>2, <2>3
<1>14. ASSUME NEW q, NEW m, NEW j, Named(q, m, j), j # t
       PROVE  \E k \in Nat : NamedNext(q, k, j)
  <2>1. /\ q \in Directories /\ q # t /\ m \in Used(q) /\ m \in Nat /\ m >= 2
        /\ EntryAt(q, m).inum = j
    BY <1>8, <1>14, NamedFacts DEF Named
  <2>2. q \in Directories'
    BY <1>3, <2>1
  <2>3. CASE q = p
    <3>1. m # e
      BY <1>2, <1>14, <2>1, <2>3
    <3>2. PICK k \in UsedNext(p) : k >= 2 /\ sh(k) = m
      BY <1>7, <2>1, <2>3, <3>1
    <3>3. k \in Nat
      BY <1>4
    <3> QED BY <1>3, <2>1, <2>2, <2>3, <3>2, <3>3 DEF NamedNext
  <2>4. CASE q # p
    BY <1>3, <2>1, <2>2, <2>4, KeptDirectory DEF NamedNext
  <2> QED BY <2>3, <2>4
<1>15. ASSUME NEW a \in Inode, NEW b \in Inode, NEW j \in Nat, NEW k \in Nat,
              NEW c \in Inode, NamedNext(a, j, c), NamedNext(b, k, c)
       PROVE  a = b /\ j = k
  <2>1. /\ Named(a, old(a, j), c) /\ Named(b, old(b, k), c)
        /\ j \in UsedNext(a) /\ k \in UsedNext(b)
    BY <1>13, <1>15
  <2>2. a = b /\ old(a, j) = old(b, k)
    <3>1. old(a, j) \in Nat /\ old(b, k) \in Nat
      BY <2>1, NamedFacts
    <3> HIDE DEF old
    <3> QED BY <2>1, <3>1 DEF TInv, NamedOnce
  <2> QED BY <1>6, <2>1, <2>2
<1>16. /\ Root \in Directories' /\ EntryNext(Root, 1).inum = Root
       /\ \A q \in Inode, k \in Nat : ~NamedNext(q, k, Root)
  <2>1. Root \in Directories' /\ EntryNext(Root, 1).inum = Root
    BY <1>3, <1>8, <1>12 DEF TInv, RootIsAbove
  <2>2. ASSUME NEW q \in Inode, NEW k \in Nat, NamedNext(q, k, Root) PROVE FALSE
    <3>1. PICK m : Named(q, m, Root)
      BY <1>13, <2>2
    <3> QED BY <3>1, NamedFacts DEF TInv, RootIsAbove
  <2> QED BY <2>1, <2>2
<1>17. ASSUME NEW c \in inodeBitmap' \ {Root}
       PROVE  \E q \in Inode, k \in Nat :
                NamedNext(q, k, c) /\ (c \in Directories' => EntryNext(c, 1).inum = q)
  <2>1. c \in inodeBitmap \ {Root} /\ c # t
    BY <1>3
  <2>2. PICK q \in Inode, m \in Nat :
          Named(q, m, c) /\ (c \in Directories => EntryAt(c, 1).inum = q)
    BY <2>1 DEF TInv, AllAreNamed
  <2>3. PICK k \in Nat : NamedNext(q, k, c)
    BY <1>14, <2>1, <2>2
  <2>4. c \in Directories' => EntryNext(c, 1).inum = q
    BY <1>3, <1>12, <2>2
  <2> QED BY <2>3, <2>4
<1>18. ASSUME NEW S \in SUBSET (Directories' \ {Root}), S # {}
       PROVE  \E c \in S : EntryNext(c, 1).inum \notin S
  <2>1. S \in SUBSET (Directories \ {Root})
    BY <1>3
  <2>2. PICK c \in S : EntryAt(c, 1).inum \notin S
    BY <1>18, <2>1 DEF TInv, ParentsLeadToRoot
  <2> QED BY <1>12, <2>2
<1>19. TreeNext
  BY <1>15, <1>16, <1>17, <1>18 DEF TreeNext
<1> QED BY <1>1, <1>11, <1>19, NextIsTInv
-----------------------------------------------------------------------------
(* The invariant of the calls, and what follows from it.                   *)

LEMMA InitGivesTInv == Init => TInv
<1> SUFFICES ASSUME Init PROVE TInv
  OBVIOUS
<1>0. IInv
  BY InitGivesIInv
<1>1. Root \in Inode /\ 0 \in DataBlock /\ 0 \in Index
  BY SizesAssumption DEF Root, Inode, DataBlock, Index
<1>2. /\ inodeBitmap = {Root}
      /\ dataRegion = [b \in DataBlock |-> IF b = 0 THEN NewDirBlock(Root, Root) ELSE ZeroBlock]
  BY DEF Init
<1>3. PICK g : inodes = [i \in Inode |->
          IF i = Root
          THEN [type |-> UFS_DIRECTORY, size |-> 2,
                direct |-> [x \in Index |-> IF x = 0 THEN 0 ELSE Unset]]
          ELSE [type |-> UFS_DIRECTORY, size |-> 0, direct |-> g[i]]]
  BY DEF Init
<1>4. /\ inodes[Root].size = 2 /\ inodes[Root].type = UFS_DIRECTORY
      /\ inodes[Root].direct[0] = 0
      /\ dataRegion[0] = NewDirBlock(Root, Root)
  BY <1>1, <1>2, <1>3
<1>5. Directories = {Root}
  BY <1>1, <1>2, <1>4 DEF Directories, IsDirectory, Allocated
<1>6. /\ Used(Root) = {0, 1}
      /\ Positions(Root) = Slot
  <2>1. Used(Root) = 0 .. 1
    BY <1>4 DEF Used
  <2>2. Positions(Root) = 0 .. 1 * UFS_BLOCK_SIZE - 1
    BY <1>4, BlocksOfSmall DEF Positions
  <2>3. 1 * UFS_BLOCK_SIZE = UFS_BLOCK_SIZE
    BY SizesAssumption
  <2> QED BY <2>1, <2>2, <2>3 DEF Slot
<1>7. ASSUME NEW k \in Slot PROVE EntryAt(Root, k) = NewDirBlock(Root, Root)[k]
  <2>1. k \div UFS_BLOCK_SIZE = 0 /\ k % UFS_BLOCK_SIZE = k
    BY SizesAssumption DEF Slot
  <2> QED BY <1>4, <2>1 DEF EntryAt
<1>8. 0 \in Slot /\ 1 \in Slot
  BY SizesAssumption DEF Slot
<1>9. /\ EntryAt(Root, 0) = Entry(".", Root) /\ EntryAt(Root, 1) = Entry("..", Root)
      /\ \A k \in Slot : k # 0 /\ k # 1 => EntryAt(Root, k).inum = -1
  BY <1>7, <1>8, NewDirBlockEntries
<1>10. /\ EntryAt(Root, 0).name = "." /\ EntryAt(Root, 0).inum = Root
       /\ EntryAt(Root, 1).name = ".." /\ EntryAt(Root, 1).inum = Root
  BY <1>9, EntryFields
<1>11. DirectoriesAreDense
  BY <1>2, <1>4, <1>5, <1>6, <1>9, <1>10 DEF DirectoriesAreDense
<1>12. ASSUME NEW q, NEW k, NEW j PROVE ~Named(q, k, j)
  <2>1. \A x \in {0, 1} : ~(x >= 2)
    OBVIOUS
  <2> QED BY <1>5, <1>6, <2>1 DEF Named
<1>13. NamedOnce
  BY <1>12 DEF NamedOnce
<1>14. RootIsAbove
  BY <1>5, <1>10, <1>12 DEF RootIsAbove
<1>15. AllAreNamed
  BY <1>2 DEF AllAreNamed
<1>16. ParentsLeadToRoot
  BY <1>5 DEF ParentsLeadToRoot
<1> QED BY <1>0, <1>11, <1>13, <1>14, <1>15, <1>16 DEF TInv

LEMMA NextKeepsTInv == TInv /\ [Next]_vars => TInv'
<1> SUFFICES ASSUME TInv, [Next]_vars PROVE TInv'
  OBVIOUS
<1>1. CASE \E p \in InodeArg, t \in {UFS_DIRECTORY, UFS_REGULAR_FILE}, n \in NameArg :
             Create(p, t, n)
  BY <1>1, CreateKeepsTInv
<1>2. CASE \E i \in InodeArg, v \in Values, n \in Sizes : Write(i, v, n)
  BY <1>2, WriteKeepsTInv
<1>3. CASE \E p \in InodeArg, n \in NameArg : Unlink(p, n)
  BY <1>3, UnlinkKeepsTInv
<1>4. CASE UNCHANGED vars
  <2>1. IInv'
    BY NextKeepsIInv DEF TInv
  <2>2. /\ inodeBitmap' = inodeBitmap /\ inodes' = inodes /\ dataRegion' = dataRegion
        /\ Directories' = Directories
    BY <1>4 DEF vars, Directories, IsDirectory, Allocated
  <2>3. \A q, k : EntryNext(q, k) = EntryAt(q, k)
    BY <2>2 DEF EntryNext, EntryAt
  <2>4. \A q : UsedNext(q) = Used(q) /\ PositionsNext(q) = Positions(q)
    BY <2>2 DEF UsedNext, Used, PositionsNext, Positions
  <2>5. \A q \in Directories' : DenseNext(q)
    BY <2>2, <2>3, <2>4 DEF TInv, DirectoriesAreDense, DenseNext
  <2>6. \A q, k, j : NamedNext(q, k, j) <=> Named(q, k, j)
    BY <2>2, <2>3, <2>4 DEF NamedNext, Named
  <2>7. TreeNext
    BY <2>2, <2>3, <2>6
       DEF TInv, NamedOnce, RootIsAbove, AllAreNamed, ParentsLeadToRoot, TreeNext
  <2> QED BY <2>1, <2>5, <2>7, NextIsTInv
<1> QED BY <1>1, <1>2, <1>3, <1>4 DEF Next

\* The inductive invariant holds: names are unique, every inode in use has
\* one, and parents lead to the root.
THEOREM NamespaceInvariant == Spec => []TInv
  BY InitGivesTInv, NextKeepsTInv, PTL DEF Spec

\* Every directory is dense in every reachable state, however often create
\* has grown it and unlink has closed a gap: lookup, which compares entries
\* past the size, finds nothing that was removed.
THEOREM DirectoriesDense == Spec => []DirectoriesAreDense
<1>1. TInv => DirectoriesAreDense
  BY DEF TInv
<1> QED BY <1>1, NamespaceInvariant, PTL

\* EntriesFor, in terms of Named.
LEMMA EntriesForNamed ==
  ASSUME TInv, NEW i
  PROVE  \A e : e \in EntriesFor(i) <=>
           \E p \in Inode, k \in Nat : e = <<p, k>> /\ Named(p, k, i)
<1>1. ASSUME NEW p, NEW k, Named(p, k, i)
      PROVE  p \in Directories /\ k \in 0 .. DIRECT_PTRS * UFS_BLOCK_SIZE - 1
  <2>1. p \in Directories /\ p \in inodeBitmap /\ k \in Nat /\ k \in Used(p)
    BY <1>1, NamedFacts
  <2>s. PICK size \in Nat : size = inodes[p].size
    BY <2>1, DenseDirectory
  <2>2. k < size
    BY <2>1, <2>s, DenseDirectory
  <2>3. Blocks(size) <= DIRECT_PTRS
    BY <2>1, <2>s DEF TInv, IInv, SizesFit
  <2>4. size <= DIRECT_PTRS * UFS_BLOCK_SIZE
    BY <2>3, BlocksBound, SizesAssumption
  <2>5. DIRECT_PTRS * UFS_BLOCK_SIZE \in Int
    BY SizesAssumption
  <2>6. k < DIRECT_PTRS * UFS_BLOCK_SIZE
    BY <2>1, <2>2, <2>4, <2>5
  <2> QED BY <2>1, <2>5, <2>6
<1>2. ASSUME NEW p, NEW k
      PROVE  <<p, k>> \in EntriesFor(i) <=> Named(p, k, i)
  BY <1>1 DEF EntriesFor, NamedEntries, Named
<1>3. \A e \in EntriesFor(i) : e = <<e[1], e[2]>>
  BY DEF EntriesFor
<1>4. \A p, k : Named(p, k, i) => p \in Inode /\ k \in Nat
  BY NamedFacts
<1> QED BY <1>2, <1>3, <1>4

\* The inodes in use form a tree below the root in every reachable state: no
\* sequence of creates and unlinks leaves an inode without a name or with two,
\* a ".." to another place, or a cycle that the root does not reach.
THEOREM NamespaceTree == Spec => []NamespaceIsTree
<1>1. TInv => NamespaceIsTree
  <2> SUFFICES ASSUME TInv PROVE NamespaceIsTree
    OBVIOUS
  <2>1. Root \in Directories /\ EntryAt(Root, 1).inum = Root
    BY DEF TInv, RootIsAbove
  <2>2. EntriesFor(Root) = {}
    BY EntriesForNamed DEF TInv, RootIsAbove
  <2>3. ASSUME NEW i \in inodeBitmap \ {Root}
        PROVE  \E e \in EntriesFor(i) :
                 EntriesFor(i) = {e} /\ (IsDirectory(i) => EntryAt(i, 1).inum = e[1])
    <3>1. PICK p \in Inode, k \in Nat :
            Named(p, k, i) /\ (i \in Directories => EntryAt(i, 1).inum = p)
      BY DEF TInv, AllAreNamed
    <3>2. i \in Inode
      BY <3>1, NamedFacts
    <3>3. <<p, k>> \in EntriesFor(i)
      BY <3>1, EntriesForNamed
    <3>4. \A e \in EntriesFor(i) : e = <<p, k>>
      BY <3>1, <3>2, EntriesForNamed DEF TInv, NamedOnce
    <3>5. IsDirectory(i) => EntryAt(i, 1).inum = p
      BY <3>1, <3>2 DEF Directories
    <3> QED BY <3>3, <3>4, <3>5
  <2>4. \A S \in SUBSET (Directories \ {Root}) :
          S # {} => \E i \in S : EntryAt(i, 1).inum \notin S
    BY DEF TInv, ParentsLeadToRoot
  <2> QED BY <2>1, <2>2, <2>3, <2>4 DEF NamespaceIsTree
<1> QED BY <1>1, NamespaceInvariant, PTL
-----------------------------------------------------------------------------
(* What stat, lookup and read show.                                        *)

\* Names of entries are names clients can use.
NamesAreGiven ==
  \A p \in Directories : \A k \in Used(p) : k >= 2 => EntryAt(p, k).name \in Names

FInv == TInv /\ NamesAreGiven

\* Some entry of directory p that is used has the name n.
Holds(p, n) == \E k \in Used(p) : EntryAt(p, k).name = n

\* lookup finds what is below the size, and nothing else.
LookupFinds ==
  \A p \in Directories, n \in NameArg :
    /\ \A k \in Used(p) : EntryAt(p, k).name = n => lookup(p, n) = EntryAt(p, k).inum
    /\ ~Holds(p, n) => lookup(p, n) = -ENOTFOUND

LEMMA LookupIsRight == TInv => LookupFinds
<1> SUFFICES ASSUME TInv, NEW p \in Directories, NEW n
             PROVE  /\ \A k \in Used(p) :
                         EntryAt(p, k).name = n => lookup(p, n) = EntryAt(p, k).inum
                    /\ ~Holds(p, n) => lookup(p, n) = -ENOTFOUND
  BY DEF LookupFinds
<1> DEFINE hits == {k \in Positions(p) : EntryAt(p, k).inum # -1 /\ EntryAt(p, k).name = n}
<1>1. IsDirectory(p)
  BY DEF Directories
<1>2. /\ Used(p) \subseteq Positions(p)
      /\ \A k \in Used(p) : EntryAt(p, k).inum \in inodeBitmap
      /\ \A k \in Positions(p) \ Used(p) : EntryAt(p, k).inum = -1
      /\ \A j, k \in Used(p) : EntryAt(p, j).name = EntryAt(p, k).name => j = k
      /\ \A k \in Used(p) : k \in Nat
  BY DenseDirectory
<1>3. \A i \in inodeBitmap : i # -1
  BY DEF TInv, IInv, TypeOK, Inode
<1>4. lookup(p, n) = IF hits = {} THEN -ENOTFOUND ELSE EntryAt(p, Min(hits)).inum
  BY <1>1, Zenon DEF lookup
<1>5. \A k : k \in hits <=> k \in Used(p) /\ EntryAt(p, k).name = n
  BY <1>2, <1>3
<1> HIDE DEF hits
<1>6. ASSUME NEW k \in Used(p), EntryAt(p, k).name = n
      PROVE  lookup(p, n) = EntryAt(p, k).inum
  <2>1. hits = {k}
    BY <1>2, <1>5, <1>6
  <2>2. Min(hits) = k
    BY <1>2, <2>1 DEF Min
  <2> QED BY <1>4, <2>1, <2>2
<1>7. ASSUME ~Holds(p, n) PROVE lookup(p, n) = -ENOTFOUND
  <2>1. hits = {}
    BY <1>5, <1>7 DEF Holds
  <2> QED BY <1>4, <2>1
<1> QED BY <1>6, <1>7

\* read of a whole file returns the cells of its blocks in their order.
ReadsAll ==
  \A i \in inodeBitmap :
    ReadCells(i, inodes[i].size) = [k \in 0 .. inodes[i].size - 1 |-> EntryAt(i, k)]

\* The block that read visits after k others.
NthVisit(i, n, k) ==
  CHOOSE x \in ReadVisits(i, n) : Cardinality({y \in ReadVisits(i, n) : y < x}) = k

\* read of a whole file visits its blocks in their order.
LEMMA VisitsInOrder ==
  ASSUME IInv, NEW i \in inodeBitmap, NEW n \in Nat, n = inodes[i].size, n > 0,
         NEW x \in 0 .. Blocks(n) - 1
  PROVE  NthVisit(i, n, x) = x
<1> DEFINE visits == ReadVisits(i, n)
           live == {y \in Index : inodes[i].direct[y] # NullPtr}
<1>b. PICK b \in Nat : b = Blocks(n) /\ b <= DIRECT_PTRS
  BY BlocksBound DEF IInv, SizesFit
<1>1. Larger(1, Blocks(n)) = b
  <2>1. b # 0
    BY <1>b, BlocksBound
  <2> QED BY <1>b, <2>1 DEF Larger
<1>2. visits = {y \in live : Cardinality({z \in live : z < y}) < b}
  BY <1>1, Zenon DEF ReadVisits
<1>3. 0 .. b - 1 \subseteq live
  <2>1. ASSUME NEW y \in 0 .. b - 1 PROVE y \in Index /\ inodes[i].direct[y] # NullPtr
    <3>1. y \in Nat /\ y < Blocks(inodes[i].size)
      BY <1>b
    <3>2. y \in Index /\ inodes[i].direct[y] \in DataBlock
      BY <3>1, OwnedPointer
    <3> QED BY <3>2 DEF DataBlock, NullPtr
  <2> QED BY <2>1
<1>4. \A y \in live : y \in Nat
  BY SizesAssumption DEF Index
<1>5. IsFiniteSet(live)
  <2>1. IsFiniteSet(Index)
    BY SizesAssumption, FS_Interval DEF Index
  <2> QED BY <2>1, FS_Subset
<1> HIDE DEF live
<1>6. ASSUME NEW S, 0 .. b - 1 \subseteq S, \A y \in S : y \in Nat, NEW y \in 0 .. b
      PROVE  {z \in S : z < y} = 0 .. y - 1 /\ Cardinality(0 .. y - 1) = y
  <2>1. {z \in S : z < y} = 0 .. y - 1
    BY <1>b, <1>6
  <2>2. Cardinality(0 .. y - 1) = IF 0 > y - 1 THEN 0 ELSE y - 1 - 0 + 1
    BY FS_Interval
  <2> QED BY <1>b, <2>1, <2>2
<1>7. visits = 0 .. b - 1
  <2>1. ASSUME NEW y \in 0 .. b - 1 PROVE y \in visits
    <3>1. y \in 0 .. b /\ y < b
      BY <1>b
    <3>2. Cardinality({z \in live : z < y}) = y
      BY <1>3, <1>4, <1>6, <3>1
    <3> QED BY <1>2, <1>3, <3>1, <3>2
  <2>2. ASSUME NEW y \in visits PROVE y \in 0 .. b - 1
    <3>1. y \in live /\ y \in Nat /\ Cardinality({z \in live : z < y}) < b
      BY <1>2, <1>4
    <3>2. ASSUME y >= b PROVE FALSE
      <4>1. 0 .. b - 1 \subseteq {z \in live : z < y}
        BY <1>b, <1>3, <3>1, <3>2
      <4>2. IsFiniteSet({z \in live : z < y})
        BY <1>5, FS_Subset
      <4>3. Cardinality(0 .. b - 1) <= Cardinality({z \in live : z < y})
        BY <4>1, <4>2, FS_Subset
      <4>4. Cardinality(0 .. b - 1) = b
        <5>1. b \in 0 .. b
          BY <1>b
        <5> QED BY <1>3, <1>4, <1>6, <5>1
      <4>5. Cardinality({z \in live : z < y}) \in Nat
        BY <4>2, FS_CardinalityType
      <4> QED BY <1>b, <3>1, <4>3, <4>4, <4>5
    <3> QED BY <1>b, <3>1, <3>2
  <2> QED BY <2>1, <2>2
<1> HIDE DEF visits
<1>8. \A y \in visits : Cardinality({z \in visits : z < y}) = y
  <2>1. ASSUME NEW y \in visits PROVE Cardinality({z \in visits : z < y}) = y
    <3>1. y \in 0 .. b
      BY <1>b, <1>7
    <3>2. \A z \in visits : z \in Nat
      BY <1>7
    <3> QED BY <1>6, <1>7, <3>1, <3>2
  <2> QED BY <2>1
<1>9. \A y \in visits : Cardinality({z \in visits : z < y}) = x <=> y = x
  BY <1>8
<1>10. x \in visits
  BY <1>b, <1>7
<1>11. NthVisit(i, n, x) = CHOOSE y \in visits : Cardinality({z \in visits : z < y}) = x
  BY Zenon DEF NthVisit, visits
<1> QED BY <1>9, <1>10, <1>11

LEMMA ReadIsRight == IInv => ReadsAll
<1> SUFFICES ASSUME IInv, NEW i \in inodeBitmap
             PROVE  ReadCells(i, inodes[i].size) = [k \in 0 .. inodes[i].size - 1 |-> EntryAt(i, k)]
  BY DEF ReadsAll
<1>n. PICK n \in Nat : n = inodes[i].size
  BY DEF IInv, TypeOK, InodeRecord
<1>b. PICK b \in Nat : b = Blocks(n) /\ b <= DIRECT_PTRS
  BY <1>n, BlocksBound DEF IInv, SizesFit
<1>1. Smaller(n, inodes[i].size) = n
  BY <1>n DEF Smaller
<1>2. ReadCells(i, n) = [k \in 0 .. n - 1 |->
        dataRegion[inodes[i].direct[NthVisit(i, n, k \div UFS_BLOCK_SIZE)]][k % UFS_BLOCK_SIZE]]
  <2> DEFINE R(m) == [k \in 0 .. m - 1 |->
                       dataRegion[inodes[i].direct[
                         (CHOOSE x \in ReadVisits(i, m) :
                            Cardinality({y \in ReadVisits(i, m) : y < x}) = k \div UFS_BLOCK_SIZE)]]
                         [k % UFS_BLOCK_SIZE]]
  <2>1. ReadCells(i, n) = R(Smaller(n, inodes[i].size))
    BY Zenon DEF ReadCells
  <2>2. R(Smaller(n, inodes[i].size)) = R(n)
    <3> HIDE DEF R
    <3> QED BY <1>1
  <2>3. R(n) = [k \in 0 .. n - 1 |->
                 dataRegion[inodes[i].direct[NthVisit(i, n, k \div UFS_BLOCK_SIZE)]][k % UFS_BLOCK_SIZE]]
    BY Zenon DEF NthVisit
  <2> HIDE DEF R
  <2> QED BY <2>1, <2>2, <2>3, Zenon
<1>3. ASSUME NEW k \in 0 .. n - 1
      PROVE  dataRegion[inodes[i].direct[NthVisit(i, n, k \div UFS_BLOCK_SIZE)]][k % UFS_BLOCK_SIZE]
               = EntryAt(i, k)
  <2>1. n > 0 /\ k \in Nat /\ k \in Used(i)
    BY <1>n DEF Used
  <2>2. k \in Positions(i)
    BY <2>1, UsedIsPosition
  <2>3. k \div UFS_BLOCK_SIZE \in 0 .. b - 1
    BY <1>b, <1>n, <2>2, PositionIsTyped
  <2>4. NthVisit(i, n, k \div UFS_BLOCK_SIZE) = k \div UFS_BLOCK_SIZE
    BY <1>n, <1>b, <2>1, <2>3, VisitsInOrder
  <2> QED BY <2>4 DEF EntryAt
<1>4. ReadCells(i, n) = [k \in 0 .. n - 1 |-> EntryAt(i, k)]
  BY <1>2, <1>3
<1> QED BY <1>n, <1>4
-----------------------------------------------------------------------------
(* The tree that is seen, from the entries.                                *)

\* The named entries of a directory, and the content of a file.
Entries(p) ==
  [n \in {m \in Names : \E k \in Used(p) : EntryAt(p, k).name = m} |->
     EntryAt(p, CHOOSE k \in Used(p) : EntryAt(p, k).name = n).inum]
Content(i) == [k \in 0 .. inodes[i].size - 1 |-> EntryAt(i, k)]

Node(i) ==
  IF i \notin inodeBitmap THEN [kind |-> "free"]
  ELSE IF i \in Directories
    THEN [kind |-> "directory", parent |-> EntryAt(i, 1).inum, entries |-> Entries(i)]
  ELSE [kind |-> "file", content |-> Content(i)]

\* The same after a step.
EntriesNext(p) ==
  [n \in {m \in Names : \E k \in UsedNext(p) : EntryNext(p, k).name = m} |->
     EntryNext(p, CHOOSE k \in UsedNext(p) : EntryNext(p, k).name = n).inum]
ContentNext(i) == [k \in 0 .. inodes'[i].size - 1 |-> EntryNext(i, k)]

NodeNext(i) ==
  IF i \notin inodeBitmap' THEN [kind |-> "free"]
  ELSE IF i \in Directories'
    THEN [kind |-> "directory", parent |-> EntryNext(i, 1).inum, entries |-> EntriesNext(i)]
  ELSE [kind |-> "file", content |-> ContentNext(i)]

TreeIsSeen == SeenTree = [i \in Inode |-> Node(i)]

LEMMA SeenTreeIs == TInv => TreeIsSeen
<1> SUFFICES ASSUME TInv, NEW i \in Inode PROVE SeenNode(i) = Node(i)
  BY DEF TreeIsSeen, SeenTree
<1>0. IInv
  BY DEF TInv
<1>1. CASE i \notin inodeBitmap
  BY <1>1 DEF SeenNode, Node, Allocated
<1>2. CASE i \in Directories
  <2>1. Allocated(i) /\ IsDirectory(i) /\ i \in inodeBitmap
    BY <1>2 DEF Directories, IsDirectory, Allocated
  <2>2. SeenNode(i) = [kind |-> "directory", parent |-> lookup(i, ".."),
                       entries |-> [n \in {m \in Names : lookup(i, m) >= 0} |-> lookup(i, n)]]
    BY <2>1, Zenon DEF SeenNode
  <2>3. /\ 1 \in Used(i) /\ EntryAt(i, 1).name = ".."
        /\ \A k \in Used(i) : EntryAt(i, k).inum \in inodeBitmap
    BY <1>2, DenseDirectory
  <2>4. lookup(i, "..") = EntryAt(i, 1).inum
    BY <1>2, <2>3, LookupIsRight DEF LookupFinds, NameArg
  <2>5. ASSUME NEW n \in Names
        PROVE  lookup(i, n) >= 0 <=> \E k \in Used(i) : EntryAt(i, k).name = n
    <3>1. ASSUME NEW k \in Used(i), EntryAt(i, k).name = n PROVE lookup(i, n) >= 0
      <4>1. lookup(i, n) = EntryAt(i, k).inum
        BY <1>2, <3>1, LookupIsRight DEF LookupFinds, NameArg
      <4>2. EntryAt(i, k).inum \in Inode
        BY <1>0, <2>3 DEF IInv, TypeOK
      <4> QED BY <4>1, <4>2 DEF Inode
    <3>2. ASSUME ~Holds(i, n) PROVE ~(lookup(i, n) >= 0)
      <4>1. lookup(i, n) = -ENOTFOUND
        BY <1>2, <3>2, LookupIsRight DEF LookupFinds, NameArg
      <4> QED BY <4>1 DEF ENOTFOUND
    <3> QED BY <3>1, <3>2 DEF Holds
  <2>6. ASSUME NEW n \in Names, \E k \in Used(i) : EntryAt(i, k).name = n
        PROVE  lookup(i, n) = EntryAt(i, CHOOSE k \in Used(i) : EntryAt(i, k).name = n).inum
    <3> DEFINE k == CHOOSE k \in Used(i) : EntryAt(i, k).name = n
    <3>1. k \in Used(i) /\ EntryAt(i, k).name = n
      BY <2>6
    <3> HIDE DEF k
    <3>2. lookup(i, n) = EntryAt(i, k).inum
      BY <1>2, <3>1, LookupIsRight DEF LookupFinds, NameArg
    <3> QED BY <3>2 DEF k
  <2>7. [n \in {m \in Names : lookup(i, m) >= 0} |-> lookup(i, n)] = Entries(i)
    <3>1. {m \in Names : lookup(i, m) >= 0} = {m \in Names : \E k \in Used(i) : EntryAt(i, k).name = m}
      BY <2>5
    <3> QED BY <2>6, <3>1 DEF Entries
  <2>8. Node(i) = [kind |-> "directory", parent |-> EntryAt(i, 1).inum, entries |-> Entries(i)]
    BY <1>2, <2>1, Zenon DEF Node
  <2> QED BY <2>2, <2>4, <2>7, <2>8
<1>3. CASE i \in inodeBitmap /\ i \notin Directories
  <2>1. Allocated(i) /\ ~IsDirectory(i)
    BY <1>3 DEF Directories, IsDirectory, Allocated
  <2>2. ReadCells(i, inodes[i].size) = Content(i)
    BY <1>0, <1>3, ReadIsRight DEF ReadsAll, Content
  <2>3. SeenNode(i) = [kind |-> "file", content |-> ReadCells(i, inodes[i].size)]
    BY <2>1, Zenon DEF SeenNode
  <2>4. Node(i) = [kind |-> "file", content |-> Content(i)]
    BY <1>3, Zenon DEF Node
  <2> QED BY <2>2, <2>3, <2>4
<1> QED BY <1>1, <1>2, <1>3

LEMMA SeenTreeNext ==
  ASSUME TInv'
  PROVE  SeenTree' = [i \in Inode |-> NodeNext(i)]
<1>1. TInv' => TreeIsSeen'
  BY SeenTreeIs, PTL
<1>2. TreeIsSeen'
  BY <1>1
<1> QED BY <1>2, Zenon DEF TreeIsSeen, Node, NodeNext, Entries, EntriesNext, Content, ContentNext,
           Used, UsedNext, EntryAt, EntryNext

\* A name leads to the inode of the one entry that has it.
EntriesAreFound ==
  \A p \in Directories : \A k \in Used(p) :
    EntryAt(p, k).name \in Names =>
      /\ EntryAt(p, k).name \in DOMAIN Entries(p)
      /\ Entries(p)[EntryAt(p, k).name] = EntryAt(p, k).inum

LEMMA EntriesLead == TInv => EntriesAreFound
<1> SUFFICES ASSUME TInv, NEW p \in Directories, NEW k \in Used(p), EntryAt(p, k).name \in Names
             PROVE  /\ EntryAt(p, k).name \in DOMAIN Entries(p)
                    /\ Entries(p)[EntryAt(p, k).name] = EntryAt(p, k).inum
  BY DEF EntriesAreFound
<1> DEFINE n == EntryAt(p, k).name
           j == CHOOSE j \in Used(p) : EntryAt(p, j).name = n
<1>1. j \in Used(p) /\ EntryAt(p, j).name = EntryAt(p, k).name
  OBVIOUS
<1> HIDE DEF j
<1>2. j = k
  BY <1>1, DenseDirectory
<1>3. n \in DOMAIN Entries(p) /\ Entries(p)[n] = EntryAt(p, j).inum
  BY DEF Entries, j
<1> QED BY <1>2, <1>3

LEMMA EntriesLeadNext ==
  ASSUME TInv', NEW p \in Directories', NEW k \in UsedNext(p), EntryNext(p, k).name \in Names
  PROVE  /\ EntryNext(p, k).name \in DOMAIN EntriesNext(p)
         /\ EntriesNext(p)[EntryNext(p, k).name] = EntryNext(p, k).inum
<1>1. TInv' => EntriesAreFound'
  BY EntriesLead, PTL
<1>2. EntriesAreFound'
  BY <1>1
<1>3. \A q \in Directories' : \A j \in UsedNext(q) :
        EntryNext(q, j).name \in Names =>
          /\ EntryNext(q, j).name \in DOMAIN EntriesNext(q)
          /\ EntriesNext(q)[EntryNext(q, j).name] = EntryNext(q, j).inum
  BY <1>2, Zenon DEF EntriesAreFound, Entries, EntriesNext, Used, UsedNext, EntryAt, EntryNext
<1> QED BY <1>3

\* What a step leaves alone looks the same.
LEMMA KeptNode ==
  ASSUME TInv, NEW q \in inodeBitmap, Kept(q), q \in inodeBitmap',
         q \in Directories' <=> q \in Directories
  PROVE  NodeNext(q) = Node(q)
<1>1. /\ inodes'[q].size = inodes[q].size
      /\ UsedNext(q) = Used(q)
      /\ \A k \in Positions(q) : EntryNext(q, k) = EntryAt(q, k)
  BY DEF Kept
<1>2. \A k \in Used(q) : EntryNext(q, k) = EntryAt(q, k)
  BY <1>1, UsedIsPosition DEF TInv
<1>3. CASE q \in Directories
  <2>1. EntryNext(q, 1) = EntryAt(q, 1)
    BY <1>2, <1>3, DenseDirectory
  <2>2. {m \in Names : \E k \in UsedNext(q) : EntryNext(q, k).name = m}
          = {m \in Names : \E k \in Used(q) : EntryAt(q, k).name = m}
    BY <1>1, <1>2
  <2>3. ASSUME NEW n \in Names, \E k \in Used(q) : EntryAt(q, k).name = n
        PROVE  EntryNext(q, CHOOSE k \in UsedNext(q) : EntryNext(q, k).name = n).inum
                 = EntryAt(q, CHOOSE k \in Used(q) : EntryAt(q, k).name = n).inum
    <3> DEFINE j == CHOOSE k \in UsedNext(q) : EntryNext(q, k).name = n
               h == CHOOSE k \in Used(q) : EntryAt(q, k).name = n
    <3>1. h \in Used(q) /\ EntryAt(q, h).name = n
      BY <2>3
    <3>2. j \in UsedNext(q) /\ EntryNext(q, j).name = n
      BY <1>1, <1>2, <2>3
    <3> HIDE DEF j, h
    <3>3. j \in Used(q) /\ EntryNext(q, j) = EntryAt(q, j)
      BY <1>1, <1>2, <3>2
    <3>4. j = h
      BY <1>3, <3>1, <3>2, <3>3, DenseDirectory
    <3>5. EntryNext(q, j).inum = EntryAt(q, h).inum
      BY <3>3, <3>4
    <3> QED BY <3>5 DEF j, h
  <2>4. EntriesNext(q) = Entries(q)
    BY <2>2, <2>3 DEF EntriesNext, Entries
  <2> QED BY <1>3, <2>1, <2>4, Zenon DEF Node, NodeNext
<1>4. CASE q \notin Directories
  <2>1. ContentNext(q) = Content(q)
    BY <1>1, <1>2 DEF Content, ContentNext, Used
  <2> QED BY <1>4, <2>1, Zenon DEF Node, NodeNext
<1> QED BY <1>3, <1>4
-----------------------------------------------------------------------------
(* The names in directories are given by clients.                          *)

NamesNext ==
  \A p \in Directories' : \A k \in UsedNext(p) : k >= 2 => EntryNext(p, k).name \in Names

LEMMA NextIsFInv ==
  ASSUME TInv', NamesNext
  PROVE  FInv'
<1>1. NamesAreGiven'
  BY Zenon DEF NamesNext, NamesAreGiven, Used, UsedNext, EntryAt, EntryNext
<1> QED BY <1>1 DEF FInv

LEMMA CreateKeepsFInv ==
  ASSUME FInv, NEW p \in InodeArg, NEW t \in {UFS_DIRECTORY, UFS_REGULAR_FILE},
         NEW n \in NameArg, Create(p, t, n)
  PROVE  FInv'
<1>0. TInv /\ IInv /\ DirectoriesAreDense
  BY DEF FInv, TInv
<1>1. TInv'
  BY <1>0, CreateKeepsTInv
<1>2. n \in Names /\ p \in Directories
  BY <1>0, CreateOnEntries
<1>3. PICK i \in Inode \ inodeBitmap : CreateEntries(p, t, n, i)
  BY <1>0, CreateOnEntries
<1>4. /\ Directories' = Directories \cup (IF t = UFS_DIRECTORY THEN {i} ELSE {})
      /\ \A q \in inodeBitmap \ {p} : Kept(q)
      /\ inodes'[p].size = inodes[p].size + 1
      /\ \A k \in Used(p) : EntryNext(p, k) = EntryAt(p, k)
      /\ EntryNext(p, inodes[p].size) = Entry(n, i)
      /\ t = UFS_DIRECTORY => inodes'[i].size = 2
  BY <1>3, Zenon DEF CreateEntries
<1>5. ASSUME NEW q \in Directories', NEW k \in UsedNext(q), k >= 2
      PROVE  EntryNext(q, k).name \in Names
  <2>1. CASE q = p
    <3>s. PICK size \in Nat : size = inodes[p].size
      BY <1>0, <1>2, DenseDirectory
    <3>1. k \in Used(p) \/ k = size
      BY <1>4, <1>5, <2>1, <3>s DEF Used, UsedNext
    <3>2. CASE k \in Used(p)
      BY <1>2, <1>4, <1>5, <2>1, <3>2 DEF FInv, NamesAreGiven
    <3>3. CASE k = size
      BY <1>2, <1>4, <2>1, <3>s, <3>3, EntryFields
    <3> QED BY <3>1, <3>2, <3>3
  <2>2. CASE q \in Directories \ {p}
    <3>1. q \in inodeBitmap
      BY <1>0, <2>2, DenseDirectory
    <3>2. UsedNext(q) = Used(q) /\ \A j \in Used(q) : EntryNext(q, j) = EntryAt(q, j)
      BY <1>0, <1>4, <2>2, <3>1, KeptDirectory
    <3> QED BY <1>5, <2>2, <3>2 DEF FInv, NamesAreGiven
  <2>3. CASE q \notin Directories
    <3>1. q = i /\ inodes'[i].size = 2
      BY <1>4, <2>3
    <3>2. k \in 0 .. 1
      BY <1>5, <3>1 DEF UsedNext
    <3> QED BY <1>5, <3>2
  <2> QED BY <2>1, <2>2, <2>3
<1> QED BY <1>1, <1>5, NextIsFInv DEF NamesNext

LEMMA WriteKeepsFInv ==
  ASSUME FInv, NEW i \in InodeArg, NEW v \in Values, NEW n \in Sizes, Write(i, v, n)
  PROVE  FInv'
<1>0. TInv /\ IInv
  BY DEF FInv, TInv
<1>1. TInv'
  BY <1>0, WriteKeepsTInv
<1>2. /\ Directories' = Directories
      /\ i \notin Directories
      /\ \A q \in inodeBitmap \ {i} : Kept(q)
  BY <1>0, WriteOnEntries
<1>3. ASSUME NEW q \in Directories'
      PROVE  UsedNext(q) = Used(q) /\ \A k \in Used(q) : EntryNext(q, k) = EntryAt(q, k)
  <2>1. q \in Directories /\ q \in inodeBitmap \ {i}
    BY <1>0, <1>2, DenseDirectory
  <2> QED BY <1>0, <1>2, <2>1, KeptDirectory
<1>4. NamesNext
  BY <1>2, <1>3 DEF NamesNext, FInv, NamesAreGiven
<1> QED BY <1>1, <1>4, NextIsFInv

LEMMA UnlinkKeepsFInv ==
  ASSUME FInv, NEW p \in InodeArg, NEW n \in NameArg, Unlink(p, n)
  PROVE  FInv'
<1>0. TInv /\ IInv /\ DirectoriesAreDense
  BY DEF FInv, TInv
<1>1. TInv'
  BY <1>0, UnlinkKeepsTInv
<1>2. PICK e \in Used(p), t \in inodeBitmap :
        /\ p \in Directories /\ e >= 2
        /\ UnlinkEntries(p, e, t)
  BY <1>0, UnlinkOnEntries
<1>3. /\ Directories' = Directories \ {t}
      /\ \A q \in inodeBitmap \ {p} : q # t => Kept(q)
      /\ inodes'[p].size = inodes[p].size - 1
      /\ \A k \in UsedNext(p) : EntryNext(p, k) = EntryAt(p, IF k < e THEN k ELSE k + 1)
  BY <1>2 DEF UnlinkEntries
<1>4. ASSUME NEW q \in Directories', NEW k \in UsedNext(q), k >= 2
      PROVE  EntryNext(q, k).name \in Names
  <2>1. CASE q = p
    <3>s. PICK size \in Nat : size = inodes[p].size
      BY <1>0, <1>2, DenseDirectory
    <3>1. k \in 0 .. size - 2 /\ e \in 0 .. size - 1
      BY <1>2, <1>3, <1>4, <2>1, <3>s DEF Used, UsedNext
    <3>2. PICK j : j = IF k < e THEN k ELSE k + 1
      OBVIOUS
    <3>3. j \in 0 .. size - 1 /\ j >= 2
      BY <1>4, <3>1, <3>2
    <3>4. j \in Used(p) /\ EntryNext(p, k) = EntryAt(p, j)
      BY <1>3, <1>4, <2>1, <3>s, <3>2, <3>3 DEF Used
    <3> QED BY <1>2, <2>1, <3>3, <3>4 DEF FInv, NamesAreGiven
  <2>2. CASE q # p
    <3>1. q \in Directories /\ q \in inodeBitmap \ {p} /\ q # t
      BY <1>0, <1>3, <2>2, DenseDirectory
    <3>2. UsedNext(q) = Used(q) /\ \A j \in Used(q) : EntryNext(q, j) = EntryAt(q, j)
      BY <1>0, <1>3, <3>1, KeptDirectory
    <3> QED BY <1>4, <3>1, <3>2 DEF FInv, NamesAreGiven
  <2> QED BY <2>1, <2>2
<1> QED BY <1>1, <1>4, NextIsFInv DEF NamesNext

LEMMA InitGivesFInv == Init => FInv
<1> SUFFICES ASSUME Init PROVE FInv
  OBVIOUS
<1>1. TInv
  BY InitGivesTInv
<1>2. \A p \in Directories : p = Root
  BY DEF Init, Directories, IsDirectory, Allocated
<1>3. inodes[Root].size = 2
  BY SizesAssumption DEF Init, Root, Inode
<1>4. ASSUME NEW k \in Used(Root) PROVE ~(k >= 2)
  <2>1. k \in 0 .. 1
    BY <1>3 DEF Used
  <2> QED BY <2>1
<1> QED BY <1>1, <1>2, <1>4 DEF FInv, NamesAreGiven

LEMMA NextKeepsFInv == FInv /\ [Next]_vars => FInv'
<1> SUFFICES ASSUME FInv, [Next]_vars PROVE FInv'
  OBVIOUS
<1>1. CASE \E p \in InodeArg, t \in {UFS_DIRECTORY, UFS_REGULAR_FILE}, n \in NameArg :
             Create(p, t, n)
  BY <1>1, CreateKeepsFInv
<1>2. CASE \E i \in InodeArg, v \in Values, n \in Sizes : Write(i, v, n)
  BY <1>2, WriteKeepsFInv
<1>3. CASE \E p \in InodeArg, n \in NameArg : Unlink(p, n)
  BY <1>3, UnlinkKeepsFInv
<1>4. CASE UNCHANGED vars
  <2>1. TInv'
    BY NextKeepsTInv DEF FInv
  <2>2. NamesAreGiven'
    BY <1>4 DEF FInv, vars, NamesAreGiven, Directories, IsDirectory, Allocated, Used, EntryAt
  <2> QED BY <2>1, <2>2 DEF FInv
<1> QED BY <1>1, <1>2, <1>3, <1>4 DEF Next
-----------------------------------------------------------------------------
(* Every call is a step of the tree.                                       *)

\* What a step makes of the tree, in terms of Node.
LEMMA TreeStep ==
  ASSUME TInv, TInv', NEW M, NEW N,
         M = [i \in Inode |-> Node(i)], N = [i \in Inode |-> NodeNext(i)]
  PROVE  SeenTree = M /\ SeenTree' = N
<1>1. SeenTree = [i \in Inode |-> Node(i)]
  BY SeenTreeIs DEF TreeIsSeen
<1>2. SeenTree' = [i \in Inode |-> NodeNext(i)]
  BY SeenTreeNext
<1> QED BY <1>1, <1>2

LEMMA NamesInEntries ==
  ASSUME TInv, NEW p \in Directories
  PROVE  \A m : m \in DOMAIN Entries(p) <=> m \in Names /\ Holds(p, m)
  BY DEF Entries, Holds

\* A directory with nothing but "." and ".." shows no entries.
LEMMA EmptyShowsNothing ==
  ASSUME TInv, NEW p \in Directories, IsEmptyDirectory(p)
  PROVE  Entries(p) = [x \in {} |-> x]
<1>1. ASSUME NEW k \in Used(p) PROVE EntryAt(p, k).name \notin Names
  <2>1. EntryAt(p, k).inum \in Inode
    BY DenseDirectory DEF TInv, IInv, TypeOK
  <2>2. EntryAt(p, k).inum # -1
    BY <2>1, SizesAssumption DEF Inode
  <2>3. EntryAt(p, k).name \in {".", ".."}
    BY <2>2 DEF IsEmptyDirectory
  <2> QED BY <2>3, NamesAssumption
<1>2. DOMAIN Entries(p) = {}
  BY <1>1, NamesInEntries DEF Holds
<1>3. Entries(p) = [n \in DOMAIN Entries(p) |-> Entries(p)[n]]
  BY DEF Entries
<1> HIDE DEF Entries
<1> QED BY <1>2, <1>3

\* create adds the new entry to those of the parent.
LEMMA EntriesGrow ==
  ASSUME TInv, TInv', NEW p \in Directories, NEW t \in {UFS_DIRECTORY, UFS_REGULAR_FILE},
         NEW n \in Names, NEW i \in Inode \ inodeBitmap, CreateEntries(p, t, n, i)
  PROVE  /\ n \notin DOMAIN Entries(p)
         /\ EntriesNext(p) = [m \in DOMAIN Entries(p) \cup {n} |-> IF m = n THEN i ELSE Entries(p)[m]]
         /\ EntryNext(p, 1) = EntryAt(p, 1)
<1>1. /\ Directories' = Directories \cup (IF t = UFS_DIRECTORY THEN {i} ELSE {})
      /\ inodes'[p].size = inodes[p].size + 1
      /\ \A k \in Used(p) : EntryAt(p, k).name # n /\ EntryNext(p, k) = EntryAt(p, k)
      /\ EntryNext(p, inodes[p].size) = Entry(n, i)
  BY Zenon DEF CreateEntries
<1>s. PICK size \in Nat : size = inodes[p].size
  BY DenseDirectory
<1>2. /\ UsedNext(p) = Used(p) \cup {size}
      /\ EntryNext(p, size).name = n /\ EntryNext(p, size).inum = i
      /\ p \in Directories'
  <2>1. UsedNext(p) = Used(p) \cup {size}
    BY <1>1, <1>s DEF Used, UsedNext
  <2> QED BY <1>1, <1>s, <2>1, EntryFields
<1>3. n \notin DOMAIN Entries(p)
  BY <1>1, NamesInEntries DEF Holds
<1>4. \A m : m \in DOMAIN EntriesNext(p) <=> m \in DOMAIN Entries(p) \cup {n}
  <2>1. \A m : m \in DOMAIN EntriesNext(p) <=>
                 m \in Names /\ \E k \in UsedNext(p) : EntryNext(p, k).name = m
    BY DEF EntriesNext
  <2> QED BY <1>1, <1>2, <2>1, NamesInEntries DEF Holds
<1>5. EntriesNext(p)[n] = i
  BY <1>2, EntriesLeadNext
<1>6. ASSUME NEW m \in DOMAIN Entries(p) PROVE EntriesNext(p)[m] = Entries(p)[m]
  <2>1. PICK k \in Used(p) : EntryAt(p, k).name = m /\ m \in Names
    BY NamesInEntries DEF Holds
  <2>2. Entries(p)[m] = EntryAt(p, k).inum
    BY <2>1, EntriesLead DEF EntriesAreFound
  <2>3. k \in UsedNext(p) /\ EntryNext(p, k) = EntryAt(p, k)
    BY <1>1, <1>2
  <2>4. EntriesNext(p)[m] = EntryNext(p, k).inum
    BY <1>2, <2>1, <2>3, EntriesLeadNext
  <2> QED BY <2>2, <2>3, <2>4
<1>7. EntriesNext(p) = [m \in DOMAIN EntriesNext(p) |-> EntriesNext(p)[m]]
  BY DEF EntriesNext
<1>8. EntriesNext(p) = [m \in DOMAIN Entries(p) \cup {n} |-> IF m = n THEN i ELSE Entries(p)[m]]
  <2> DEFINE E == EntriesNext(p)
             F == Entries(p)
  <2>1. DOMAIN E = DOMAIN F \cup {n}
    BY <1>4
  <2>2. E[n] = i /\ \A m \in DOMAIN F : E[m] = F[m]
    BY <1>5, <1>6
  <2>3. E = [m \in DOMAIN E |-> E[m]] /\ n \notin DOMAIN F
    BY <1>3, <1>7
  <2> HIDE DEF E, F
  <2>4. E = [m \in DOMAIN F \cup {n} |-> IF m = n THEN i ELSE F[m]]
    BY <2>1, <2>2, <2>3
  <2> QED BY <2>4 DEF E, F
<1>9. EntryNext(p, 1) = EntryAt(p, 1)
  BY <1>1, DenseDirectory
<1> QED BY <1>3, <1>8, <1>9

\* A tree with a new node is what create leads to.
LEMMA MakeFits ==
  ASSUME NEW p \in Inode, NEW n, NEW i \in Inode, NEW new, NEW q, NEW E, NEW M, NEW N,
         M = [j \in Inode |-> M[j]], N = [j \in Inode |-> N[j]],
         M[p] = [kind |-> "directory", parent |-> q, entries |-> E],
         M[i] = [kind |-> "free"],
         N[i] = new,
         N[p] = [kind |-> "directory", parent |-> q,
                 entries |-> [m \in DOMAIN E \cup {n} |-> IF m = n THEN i ELSE E[m]]],
         \A j \in Inode \ {p, i} : N[j] = M[j]
  PROVE  N = [M EXCEPT
           ![p].entries = [m \in DOMAIN @ \cup {n} |-> IF m = n THEN i ELSE @[m]], ![i] = new]
<1> DEFINE F == [m \in DOMAIN E \cup {n} |-> IF m = n THEN i ELSE E[m]]
<1>1. M[p].entries = E
  OBVIOUS
<1>2. [M[p] EXCEPT !.entries = [m \in DOMAIN @ \cup {n} |-> IF m = n THEN i ELSE @[m]]] = N[p]
  <2>1. [m \in DOMAIN M[p].entries \cup {n} |-> IF m = n THEN i ELSE M[p].entries[m]] = F
    BY <1>1
  <2> HIDE DEF F
  <2>2. [M[p] EXCEPT !.entries = F] = [kind |-> "directory", parent |-> q, entries |-> F]
    OBVIOUS
  <2> QED BY <2>1, <2>2 DEF F
<1>3. p # i
  OBVIOUS
<1> HIDE DEF F
<1> QED BY <1>2, <1>3

LEMMA TheTreesParts ==
  /\ Tree!Inode = Inode
  /\ Tree!Free = [kind |-> "free"]
  /\ Tree!Nothing = [x \in {} |-> x]
  /\ \A q, E : Tree!Directory(q, E) = [kind |-> "directory", parent |-> q, entries |-> E]
  /\ \A c : Tree!File(c) = [kind |-> "file", content |-> c]
  BY DEF Tree!Inode, Inode, Tree!Free, Tree!Nothing, Tree!Directory, Tree!File

LEMMA KindsOfNodes ==
  ASSUME TInv, NEW j \in Inode
  PROVE  /\ SeenTree[j] = Node(j)
         /\ SeenTree[j] = Tree!Free <=> j \notin inodeBitmap
         /\ Tree!IsDirectory(j) <=> j \in Directories
         /\ Tree!IsFile(j) <=> j \in inodeBitmap /\ j \notin Directories
<1>1. SeenTree[j] = Node(j)
  BY SeenTreeIs DEF TreeIsSeen
<1>2. Directories \subseteq inodeBitmap
  BY DenseDirectory
<1>3. CASE j \notin inodeBitmap
  <2>1. Node(j) = [kind |-> "free"] /\ Node(j).kind = "free"
    BY <1>3 DEF Node
  <2> QED BY <1>1, <1>2, <1>3, <2>1, TheTreesParts DEF Tree!IsDirectory, Tree!IsFile
<1>4. CASE j \in Directories
  <2>1. Node(j).kind = "directory"
    BY <1>2, <1>4 DEF Node
  <2>2. Node(j) # [kind |-> "free"]
    BY <2>1
  <2> QED BY <1>1, <1>2, <1>4, <2>1, <2>2, TheTreesParts DEF Tree!IsDirectory, Tree!IsFile
<1>5. CASE j \in inodeBitmap /\ j \notin Directories
  <2>1. Node(j).kind = "file"
    BY <1>5 DEF Node
  <2>2. Node(j) # [kind |-> "free"]
    BY <2>1
  <2> QED BY <1>1, <1>5, <2>1, <2>2, TheTreesParts DEF Tree!IsDirectory, Tree!IsFile
<1> QED BY <1>2, <1>3, <1>4, <1>5

\* create takes the lowest inode number whose bit is clear.
LEMMA CreateTakesLowest ==
  ASSUME IInv, NEW p \in InodeArg, NEW t \in {UFS_DIRECTORY, UFS_REGULAR_FILE},
         NEW n \in NameArg, Create(p, t, n),
         NEW i \in Inode \ inodeBitmap, inodeBitmap' = inodeBitmap \cup {i}
  PROVE  \A j \in Inode \ inodeBitmap : i <= j
<1>1. /\ IsDirectory(p) /\ lookup(p, n) = -ENOTFOUND
      /\ inodeBitmap' = inodeBitmap \cup {CreateReturn(p, t, n)}
  BY Zenon DEF Create
<1>2. n \in Names /\ CreateHasRoom(p, t) /\ CreateReturn(p, t, n) \in Inode \ inodeBitmap
  BY CreateChecks
<1>3. i = CreateReturn(p, t, n)
  BY <1>1, <1>2
<1>4. n \notin {"", LongName, ".", ".."}
  BY <1>2, NamesAssumption
<1>5. ~(lookup(p, n) >= 0)
  BY <1>1 DEF ENOTFOUND
<1>6. CreateReturn(p, t, n) = Min(Inode \ inodeBitmap)
  BY <1>1, <1>2, <1>4, <1>5, Zenon DEF CreateReturn
<1>7. Inode \ inodeBitmap \subseteq Nat
  BY DEF Inode
<1> QED BY <1>3, <1>6, <1>7, MinOfNaturals

LEMMA CreateIsMake ==
  ASSUME FInv, NEW p \in InodeArg, NEW t \in {UFS_DIRECTORY, UFS_REGULAR_FILE},
         NEW n \in NameArg, Create(p, t, n)
  PROVE  /\ p \in Inode /\ n \in Names
         /\ IF t = UFS_DIRECTORY THEN Tree!MakeDirectory(p, n) ELSE Tree!MakeFile(p, n)
<1>0. TInv /\ IInv /\ DirectoriesAreDense
  BY DEF FInv, TInv
<1>1. TInv'
  BY <1>0, CreateKeepsTInv
<1>2. n \in Names /\ p \in Directories
  BY <1>0, CreateOnEntries
<1>3. PICK i \in Inode \ inodeBitmap : CreateEntries(p, t, n, i)
  BY <1>0, CreateOnEntries
<1>4. /\ inodeBitmap' = inodeBitmap \cup {i}
      /\ Directories' = Directories \cup (IF t = UFS_DIRECTORY THEN {i} ELSE {})
      /\ \A q \in inodeBitmap \ {p} : Kept(q)
      /\ t # UFS_DIRECTORY => inodes'[i].size = 0
      /\ t = UFS_DIRECTORY =>
           inodes'[i].size = 2 /\ EntryNext(i, 0) = Entry(".", i) /\ EntryNext(i, 1) = Entry("..", p)
  BY <1>3, Zenon DEF CreateEntries
<1>5. \A j \in Inode \ inodeBitmap : i <= j
  BY <1>0, <1>4, CreateTakesLowest
<1>6. /\ n \notin DOMAIN Entries(p)
      /\ EntriesNext(p) = [m \in DOMAIN Entries(p) \cup {n} |-> IF m = n THEN i ELSE Entries(p)[m]]
      /\ EntryNext(p, 1) = EntryAt(p, 1)
  BY <1>0, <1>1, <1>2, <1>3, EntriesGrow
<1>7. p \in Inode /\ p \in inodeBitmap /\ i \notin Directories /\ p # i
  BY <1>0, <1>2, DenseDirectory
<1> DEFINE new == IF t = UFS_DIRECTORY
                  THEN [kind |-> "directory", parent |-> p, entries |-> [x \in {} |-> x]]
                  ELSE [kind |-> "file", content |-> [x \in {} |-> x]]
<1>8. NodeNext(i) = new
  <2>1. i \in inodeBitmap'
    BY <1>4
  <2>2. CASE t = UFS_DIRECTORY
    <3>1. UsedNext(i) = {0, 1} /\ i \in Directories'
      BY <1>4, <2>2 DEF UsedNext
    <3>2. /\ EntryNext(i, 0).name = "."
          /\ EntryNext(i, 1).name = ".." /\ EntryNext(i, 1).inum = p
      BY <1>4, <2>2, EntryFields
    <3>3. {m \in Names : \E k \in UsedNext(i) : EntryNext(i, k).name = m} = {}
      BY <3>1, <3>2, NamesAssumption
    <3>4. EntriesNext(i) = [x \in {} |-> x]
      BY <3>3 DEF EntriesNext
    <3>5. NodeNext(i) = [kind |-> "directory", parent |-> EntryNext(i, 1).inum, entries |-> EntriesNext(i)]
      BY <2>1, <3>1, Zenon DEF NodeNext
    <3> QED BY <2>2, <3>2, <3>4, <3>5
  <2>3. CASE t # UFS_DIRECTORY
    <3>1. i \notin Directories'
      BY <1>4, <1>7, <2>3
    <3>2. NodeNext(i) = [kind |-> "file", content |-> ContentNext(i)]
      BY <2>1, <3>1, Zenon DEF NodeNext
    <3>3. 0 .. inodes'[i].size - 1 = {}
      BY <1>4, <2>3
    <3>4. ContentNext(i) = [x \in {} |-> x]
      BY <3>3 DEF ContentNext
    <3> QED BY <2>3, <3>2, <3>4
  <2> QED BY <2>2, <2>3
<1> DEFINE M == [j \in Inode |-> Node(j)]
           N == [j \in Inode |-> NodeNext(j)]
<1>9. SeenTree = M /\ SeenTree' = N
  BY <1>0, <1>1, TreeStep
<1>10. /\ M[p] = [kind |-> "directory", parent |-> EntryAt(p, 1).inum, entries |-> Entries(p)]
       /\ N[p] = [kind |-> "directory", parent |-> EntryAt(p, 1).inum,
                  entries |-> [m \in DOMAIN Entries(p) \cup {n} |->
                                 IF m = n THEN i ELSE Entries(p)[m]]]
  <2>1. p \in inodeBitmap' /\ p \in Directories'
    BY <1>2, <1>4, <1>7
  <2>2. Node(p) = [kind |-> "directory", parent |-> EntryAt(p, 1).inum, entries |-> Entries(p)]
    BY <1>2, <1>7, Zenon DEF Node
  <2>3. NodeNext(p) = [kind |-> "directory", parent |-> EntryNext(p, 1).inum, entries |-> EntriesNext(p)]
    BY <2>1, Zenon DEF NodeNext
  <2> QED BY <1>6, <1>7, <2>2, <2>3
<1>11. M[i] = [kind |-> "free"] /\ N[i] = new
  BY <1>8 DEF Node
<1>12. ASSUME NEW j \in Inode \ {p, i} PROVE N[j] = M[j]
  <2>1. CASE j \in inodeBitmap
    <3>1. j \in inodeBitmap' /\ (j \in Directories' <=> j \in Directories) /\ Kept(j)
      BY <1>4, <1>12, <2>1
    <3>2. NodeNext(j) = Node(j)
      BY <1>0, <2>1, <3>1, KeptNode
    <3> QED BY <3>2
  <2>2. CASE j \notin inodeBitmap
    <3>1. NodeNext(j) = Node(j)
      BY <1>4, <1>12, <2>2 DEF Node, NodeNext
    <3> QED BY <3>1
  <2> QED BY <2>1, <2>2
<1>13. SeenTree[p].entries = Entries(p) /\ SeenTree[i] = Tree!Free
       /\ \A j \in Inode : SeenTree[j] = Tree!Free => i <= j
  <2>1. SeenTree[p].entries = Entries(p)
    BY <1>9, <1>10
  <2>2. SeenTree[i] = Tree!Free /\ \A j \in Inode : SeenTree[j] = Tree!Free => j \notin inodeBitmap
    BY <1>0, KindsOfNodes
  <2> QED BY <1>5, <2>1, <2>2
<1>14. M = [j \in Inode |-> M[j]] /\ N = [j \in Inode |-> N[j]]
  OBVIOUS
<1> HIDE DEF M, N, new
<1>15. N = [M EXCEPT
         ![p].entries = [m \in DOMAIN @ \cup {n} |-> IF m = n THEN i ELSE @[m]], ![i] = new]
  BY <1>7, <1>10, <1>11, <1>12, <1>14, MakeFits
<1>16. Tree!Make(p, n, new)
  <2>1. Tree!IsDirectory(p)
    BY <1>0, <1>2, <1>7, KindsOfNodes
  <2>2. n \notin DOMAIN SeenTree[p].entries
    BY <1>6, <1>13
  <2>3. SeenTree' = [SeenTree EXCEPT
          ![p].entries = [m \in DOMAIN @ \cup {n} |-> IF m = n THEN i ELSE @[m]], ![i] = new]
    BY <1>9, <1>15
  <2>4. i \in Tree!Inode /\ \A j \in Tree!Inode : SeenTree[j] = Tree!Free => i <= j
    BY <1>13, TheTreesParts
  <2> QED BY <1>13, <2>1, <2>2, <2>3, <2>4, Zenon DEF Tree!Make
<1>17. IF t = UFS_DIRECTORY THEN Tree!MakeDirectory(p, n) ELSE Tree!MakeFile(p, n)
  <2>1. new = IF t = UFS_DIRECTORY THEN Tree!Directory(p, Tree!Nothing) ELSE Tree!File(Tree!Nothing)
    BY TheTreesParts DEF new
  <2> QED BY <1>16, <2>1 DEF Tree!MakeDirectory, Tree!MakeFile
<1> QED BY <1>2, <1>7, <1>17

\* write replaces the content of one file.
LEMMA WriteIsOverwrite ==
  ASSUME FInv, NEW i \in InodeArg, NEW v \in Values, NEW n \in Sizes, Write(i, v, n)
  PROVE  /\ i \in Inode /\ [k \in 0 .. n - 1 |-> Entry(v, k)] \in Written
         /\ Tree!Overwrite(i, [k \in 0 .. n - 1 |-> Entry(v, k)])
<1>0. TInv /\ IInv
  BY DEF FInv, TInv
<1>1. TInv'
  BY <1>0, WriteKeepsTInv
<1>2. /\ inodeBitmap' = inodeBitmap
      /\ Directories' = Directories
      /\ i \in inodeBitmap \ Directories
      /\ \A q \in inodeBitmap \ {i} : Kept(q)
      /\ n \in Nat /\ inodes'[i].size = n
      /\ \A k \in 0 .. n - 1 : EntryNext(i, k) = Entry(v, k)
  BY <1>0, WriteOnEntries
<1>3. i \in Inode
  BY <1>0, <1>2 DEF IInv, TypeOK
<1> DEFINE c == [k \in 0 .. n - 1 |-> Entry(v, k)]
           M == [j \in Inode |-> Node(j)]
           N == [j \in Inode |-> NodeNext(j)]
<1>4. SeenTree = M /\ SeenTree' = N
  BY <1>0, <1>1, TreeStep
<1>5. NodeNext(i) = [kind |-> "file", content |-> c]
  <2>1. ContentNext(i) = c
    BY <1>2 DEF ContentNext
  <2> HIDE DEF c
  <2> QED BY <1>2, <2>1, Zenon DEF NodeNext
<1>6. ASSUME NEW j \in Inode \ {i} PROVE NodeNext(j) = Node(j)
  <2>1. CASE j \in inodeBitmap
    BY <1>0, <1>2, <1>6, <2>1, KeptNode
  <2>2. CASE j \notin inodeBitmap
    BY <1>2, <2>2 DEF Node, NodeNext
  <2> QED BY <2>1, <2>2
<1>7. SeenTree' = [SeenTree EXCEPT ![i] = Tree!File(c)]
  <2>1. N = [M EXCEPT ![i] = [kind |-> "file", content |-> c]]
    BY <1>3, <1>5, <1>6
  <2> QED BY <1>4, <2>1, TheTreesParts
<1>8. Tree!IsFile(i)
  BY <1>0, <1>2, <1>3, KindsOfNodes
<1>9. Tree!Overwrite(i, c)
  BY <1>7, <1>8 DEF Tree!Overwrite
<1>10. c \in Written
  BY <1>2 DEF Written
<1> QED BY <1>3, <1>9, <1>10

\* unlink takes the removed entry out of those of the parent.
LEMMA EntriesShrink ==
  ASSUME TInv, TInv', NEW p \in Directories, NEW n \in Names, NEW e \in Used(p),
         NEW t \in inodeBitmap, e >= 2, t # p, EntryAt(p, e).inum = t, EntryAt(p, e).name = n,
         UnlinkEntries(p, e, t)
  PROVE  /\ n \in DOMAIN Entries(p) /\ Entries(p)[n] = t
         /\ EntriesNext(p) = [m \in DOMAIN Entries(p) \ {n} |-> Entries(p)[m]]
         /\ EntryNext(p, 1) = EntryAt(p, 1)
<1> DEFINE sh(k) == IF k < e THEN k ELSE k + 1
<1>1. /\ Directories' = Directories \ {t}
      /\ inodes'[p].size = inodes[p].size - 1
      /\ \A k \in UsedNext(p) : EntryNext(p, k) = EntryAt(p, sh(k))
  BY DEF UnlinkEntries
<1>2. p \in Directories'
  BY <1>1
<1>s. PICK size \in Nat : size = inodes[p].size /\ size >= 2
  BY DenseDirectory
<1>3. /\ \A k : k \in UsedNext(p) <=> k \in Nat /\ k < size - 1
      /\ \A k : k \in Used(p) <=> k \in Nat /\ k < size
      /\ e \in Nat /\ e < size
  <2>1. UsedNext(p) = 0 .. size - 2 /\ Used(p) = 0 .. size - 1
    BY <1>1, <1>s DEF UsedNext, Used
  <2> QED BY <2>1
<1>4. \A k \in UsedNext(p) : sh(k) \in Used(p) /\ sh(k) # e
  BY <1>3
<1>5. ASSUME NEW m \in Used(p), m # e
      PROVE  \E k \in UsedNext(p) : sh(k) = m
  <2>1. CASE m < e
    BY <1>3, <2>1
  <2>2. CASE ~(m < e)
    <3>1. m - 1 \in UsedNext(p) /\ sh(m - 1) = m
      BY <1>3, <1>5, <2>2
    <3> QED BY <3>1
  <2> QED BY <2>1, <2>2
<1>6. 1 \in UsedNext(p) /\ sh(1) = 1
  BY <1>3
<1> HIDE DEF sh
<1>7. n \in DOMAIN Entries(p) /\ Entries(p)[n] = t
  BY EntriesLead DEF EntriesAreFound
<1>8. ASSUME NEW k \in Used(p), k # e PROVE EntryAt(p, k).name # n
  BY <1>8, DenseDirectory
<1>9. \A m : m \in DOMAIN EntriesNext(p) <=> m \in DOMAIN Entries(p) \ {n}
  <2>1. \A m : m \in DOMAIN EntriesNext(p) <=>
                 m \in Names /\ \E k \in UsedNext(p) : EntryNext(p, k).name = m
    BY DEF EntriesNext
  <2>2. ASSUME NEW m \in DOMAIN EntriesNext(p) PROVE m \in DOMAIN Entries(p) \ {n}
    <3>1. PICK k \in UsedNext(p) : EntryNext(p, k).name = m /\ m \in Names
      BY <2>1, <2>2
    <3>2. sh(k) \in Used(p) /\ sh(k) # e /\ EntryAt(p, sh(k)).name = m
      BY <1>1, <1>4, <3>1
    <3> QED BY <1>8, <3>1, <3>2, NamesInEntries DEF Holds
  <2>3. ASSUME NEW m \in DOMAIN Entries(p) \ {n} PROVE m \in DOMAIN EntriesNext(p)
    <3>1. PICK j \in Used(p) : EntryAt(p, j).name = m /\ m \in Names
      BY <2>3, NamesInEntries DEF Holds
    <3>2. PICK k \in UsedNext(p) : sh(k) = j
      BY <1>5, <2>3, <3>1
    <3> QED BY <1>1, <2>1, <3>1, <3>2
  <2> QED BY <2>2, <2>3
<1>10. ASSUME NEW m \in DOMAIN Entries(p) \ {n} PROVE EntriesNext(p)[m] = Entries(p)[m]
  <2>1. PICK j \in Used(p) : EntryAt(p, j).name = m /\ m \in Names
    BY <1>10, NamesInEntries DEF Holds
  <2>2. PICK k \in UsedNext(p) : sh(k) = j
    BY <1>5, <1>10, <2>1
  <2>3. EntryNext(p, k) = EntryAt(p, j)
    BY <1>1, <2>2
  <2>4. Entries(p)[m] = EntryAt(p, j).inum
    BY <2>1, EntriesLead DEF EntriesAreFound
  <2>5. EntriesNext(p)[m] = EntryNext(p, k).inum
    BY <1>2, <2>1, <2>3, EntriesLeadNext
  <2> QED BY <2>3, <2>4, <2>5
<1>11. EntriesNext(p) = [m \in DOMAIN EntriesNext(p) |-> EntriesNext(p)[m]]
  BY DEF EntriesNext
<1>12. EntriesNext(p) = [m \in DOMAIN Entries(p) \ {n} |-> Entries(p)[m]]
  <2> DEFINE E == EntriesNext(p)
             F == Entries(p)
  <2>1. DOMAIN E = DOMAIN F \ {n}
    BY <1>9
  <2>2. E = [m \in DOMAIN E |-> E[m]] /\ \A m \in DOMAIN F \ {n} : E[m] = F[m]
    BY <1>10, <1>11
  <2> HIDE DEF E, F
  <2>3. E = [m \in DOMAIN F \ {n} |-> F[m]]
    BY <2>1, <2>2
  <2> QED BY <2>3 DEF E, F
<1>13. EntryNext(p, 1) = EntryAt(p, 1)
  BY <1>1, <1>6
<1> QED BY <1>7, <1>12, <1>13

\* A tree without a node is what unlink leads to.
LEMMA RemoveFits ==
  ASSUME NEW p \in Inode, NEW n, NEW t \in Inode, NEW q, NEW E, NEW M, NEW N, t # p,
         M = [j \in Inode |-> M[j]], N = [j \in Inode |-> N[j]],
         M[p] = [kind |-> "directory", parent |-> q, entries |-> E],
         N[t] = [kind |-> "free"],
         N[p] = [kind |-> "directory", parent |-> q,
                 entries |-> [m \in DOMAIN E \ {n} |-> E[m]]],
         \A j \in Inode \ {p, t} : N[j] = M[j]
  PROVE  N = [M EXCEPT
           ![p].entries = [m \in DOMAIN @ \ {n} |-> @[m]], ![t] = [kind |-> "free"]]
<1> DEFINE F == [m \in DOMAIN E \ {n} |-> E[m]]
<1>1. [M[p] EXCEPT !.entries = [m \in DOMAIN @ \ {n} |-> @[m]]] = N[p]
  <2>1. M[p].entries = E
    OBVIOUS
  <2>2. [m \in DOMAIN M[p].entries \ {n} |-> M[p].entries[m]] = F
    BY <2>1
  <2> HIDE DEF F
  <2>3. [M[p] EXCEPT !.entries = F] = [kind |-> "directory", parent |-> q, entries |-> F]
    OBVIOUS
  <2> QED BY <2>2, <2>3 DEF F
<1> HIDE DEF F
<1> QED BY <1>1

LEMMA UnlinkIsRemove ==
  ASSUME FInv, NEW p \in InodeArg, NEW n \in NameArg, Unlink(p, n)
  PROVE  /\ p \in Inode /\ n \in Names
         /\ Tree!Remove(p, n)
<1>0. TInv /\ IInv /\ DirectoriesAreDense
  BY DEF FInv, TInv
<1>1. TInv'
  BY <1>0, UnlinkKeepsTInv
<1>2. PICK e \in Used(p), t \in inodeBitmap :
        /\ p \in Directories
        /\ e >= 2 /\ EntryAt(p, e).inum = t /\ t # p /\ EntryAt(p, e).name = n
        /\ t \in Directories => IsEmptyDirectory(t)
        /\ UnlinkEntries(p, e, t)
  BY <1>0, UnlinkOnEntries
<1>3. /\ inodeBitmap' = inodeBitmap \ {t}
      /\ Directories' = Directories \ {t}
      /\ \A q \in inodeBitmap \ {p} : Kept(q)
  BY <1>2, Zenon DEF UnlinkEntries
<1>4. n \in Names
  BY <1>2 DEF FInv, NamesAreGiven
<1>5. /\ n \in DOMAIN Entries(p) /\ Entries(p)[n] = t
      /\ EntriesNext(p) = [m \in DOMAIN Entries(p) \ {n} |-> Entries(p)[m]]
      /\ EntryNext(p, 1) = EntryAt(p, 1)
  BY <1>0, <1>1, <1>2, <1>4, SMTT(60), EntriesShrink
<1>6. p \in Inode /\ p \in inodeBitmap /\ t \in Inode
  BY <1>0, <1>2, DenseDirectory DEF IInv, TypeOK
<1> DEFINE M == [j \in Inode |-> Node(j)]
           N == [j \in Inode |-> NodeNext(j)]
<1>7. SeenTree = M /\ SeenTree' = N
  BY <1>0, <1>1, TreeStep
<1>8. /\ M[p] = [kind |-> "directory", parent |-> EntryAt(p, 1).inum, entries |-> Entries(p)]
      /\ N[p] = [kind |-> "directory", parent |-> EntryAt(p, 1).inum,
                 entries |-> [m \in DOMAIN Entries(p) \ {n} |-> Entries(p)[m]]]
  <2>1. p \in inodeBitmap' /\ p \in Directories'
    BY <1>2, <1>3, <1>6
  <2>2. Node(p) = [kind |-> "directory", parent |-> EntryAt(p, 1).inum, entries |-> Entries(p)]
    BY <1>2, <1>6, Zenon DEF Node
  <2>3. NodeNext(p) = [kind |-> "directory", parent |-> EntryNext(p, 1).inum, entries |-> EntriesNext(p)]
    BY <2>1, Zenon DEF NodeNext
  <2> QED BY <1>5, <1>6, <2>2, <2>3
<1>9. N[t] = [kind |-> "free"]
  BY <1>3, <1>6 DEF NodeNext
<1>10. ASSUME NEW j \in Inode \ {p, t} PROVE N[j] = M[j]
  <2>1. CASE j \in inodeBitmap
    <3>1. NodeNext(j) = Node(j)
      BY <1>0, <1>3, <1>10, <2>1, KeptNode
    <3> QED BY <3>1
  <2>2. CASE j \notin inodeBitmap
    <3>1. NodeNext(j) = Node(j)
      BY <1>3, <2>2 DEF Node, NodeNext
    <3> QED BY <3>1
  <2> QED BY <2>1, <2>2
<1>11. SeenTree[p].entries = Entries(p)
  BY <1>7, <1>8
<1>12. M = [j \in Inode |-> M[j]] /\ N = [j \in Inode |-> N[j]]
  OBVIOUS
<1> HIDE DEF M, N
<1>13. N = [M EXCEPT ![p].entries = [m \in DOMAIN @ \ {n} |-> @[m]], ![t] = [kind |-> "free"]]
  BY <1>2, <1>6, <1>8, <1>9, <1>10, <1>12, RemoveFits
<1>14. Tree!IsDirectory(t) => SeenTree[t].entries = Tree!Nothing
  <2>1. SUFFICES ASSUME t \in Directories PROVE SeenTree[t].entries = Tree!Nothing
    BY <1>0, <1>6, KindsOfNodes
  <2>2. Entries(t) = [x \in {} |-> x]
    BY <1>0, <1>2, <2>1, EmptyShowsNothing
  <2>3. Node(t) = [kind |-> "directory", parent |-> EntryAt(t, 1).inum, entries |-> Entries(t)]
    BY <1>2, <2>1, Zenon DEF Node
  <2>4. SeenTree[t] = Node(t)
    BY <1>0, <1>6, KindsOfNodes
  <2> QED BY <2>2, <2>3, <2>4, TheTreesParts
<1>15. Tree!Remove(p, n)
  <2>1. Tree!IsDirectory(p)
    BY <1>0, <1>2, <1>6, KindsOfNodes
  <2>2. n \in DOMAIN SeenTree[p].entries /\ SeenTree[p].entries[n] = t
    BY <1>5, <1>11
  <2>3. SeenTree' = [SeenTree EXCEPT
          ![p].entries = [m \in DOMAIN @ \ {n} |-> @[m]], ![t] = Tree!Free]
    BY <1>7, <1>13, TheTreesParts
  <2> QED BY <1>14, <2>1, <2>2, <2>3, Zenon DEF Tree!Remove
<1> QED BY <1>4, <1>6, <1>15

LEMMA InitIsTheEmptyTree == Init => Tree!Init
<1> SUFFICES ASSUME Init PROVE Tree!Init
  OBVIOUS
<1>0. TInv /\ FInv
  BY InitGivesFInv DEF FInv
<1>1. inodeBitmap = {Root} /\ Tree!Root = Root
  BY DEF Init, Tree!Root, Root
<1>2. Root \in Directories /\ EntryAt(Root, 1).inum = Root
  BY <1>0 DEF TInv, RootIsAbove
<1>3. inodes[Root].size = 2
  BY SizesAssumption DEF Init, Root, Inode
<1>4. IsEmptyDirectory(Root)
  <2>1. ASSUME NEW k \in Used(Root) PROVE EntryAt(Root, k).name \in {".", ".."}
    <3>1. k = 0 \/ k = 1
      BY <1>3 DEF Used
    <3> QED BY <1>0, <1>2, <3>1, DenseDirectory, EntryFields
  <2> QED BY <2>1 DEF IsEmptyDirectory
<1>5. Node(Root) = Tree!Directory(Root, Tree!Nothing)
  <2>1. Entries(Root) = Tree!Nothing
    BY <1>0, <1>2, <1>4, EmptyShowsNothing, TheTreesParts
  <2>2. Node(Root) = [kind |-> "directory", parent |-> EntryAt(Root, 1).inum, entries |-> Entries(Root)]
    BY <1>1, <1>2, Zenon DEF Node
  <2> QED BY <1>2, <2>1, <2>2, TheTreesParts
<1>6. ASSUME NEW i \in Inode, i # Root PROVE Node(i) = Tree!Free
  BY <1>1, <1>6, TheTreesParts DEF Node
<1>7. SeenTree = [i \in Inode |-> Node(i)]
  BY <1>0, SeenTreeIs DEF TreeIsSeen
<1>8. SeenTree = [i \in Inode |-> IF i = Root THEN Tree!Directory(Root, Tree!Nothing) ELSE Tree!Free]
  BY <1>5, <1>6, <1>7
<1> QED BY <1>1, <1>8, TheTreesParts DEF Tree!Init

LEMMA NextIsAStepOfTheTree == FInv /\ [Next]_vars => [Tree!Next]_SeenTree
<1> SUFFICES ASSUME FInv, [Next]_vars PROVE [Tree!Next]_SeenTree
  OBVIOUS
<1>1. CASE \E p \in InodeArg, t \in {UFS_DIRECTORY, UFS_REGULAR_FILE}, n \in NameArg :
             Create(p, t, n)
  <2>1. PICK p \in Inode, n \in Names : Tree!MakeDirectory(p, n) \/ Tree!MakeFile(p, n)
    BY <1>1, CreateIsMake
  <2> QED BY <2>1, TheTreesParts DEF Tree!Next
<1>2. CASE \E i \in InodeArg, v \in Values, n \in Sizes : Write(i, v, n)
  <2>1. PICK i \in Inode, c \in Written : Tree!Overwrite(i, c)
    BY <1>2, WriteIsOverwrite
  <2> QED BY <2>1, TheTreesParts DEF Tree!Next
<1>3. CASE \E p \in InodeArg, n \in NameArg : Unlink(p, n)
  <2>1. PICK p \in Inode, n \in Names : Tree!Remove(p, n)
    BY <1>3, UnlinkIsRemove
  <2> QED BY <2>1, TheTreesParts DEF Tree!Next
<1>4. CASE UNCHANGED vars
  <2>1. TInv /\ TInv'
    BY NextKeepsTInv DEF FInv
  <2>2. ASSUME NEW i \in Inode PROVE NodeNext(i) = Node(i)
    BY <1>4 DEF vars, Node, NodeNext, Entries, EntriesNext, Content, ContentNext,
                Used, UsedNext, EntryAt, EntryNext, Directories, IsDirectory, Allocated
  <2>3. [i \in Inode |-> NodeNext(i)] = [i \in Inode |-> Node(i)]
    BY <2>2
  <2> QED BY <2>1, <2>3, TreeStep
<1> QED BY <1>1, <1>2, <1>3, <1>4 DEF Next

\* The calls implement FileTree on an image of any size: create adds one node
\* with the lowest free number, write replaces the content of one file, unlink
\* removes one node, and what stat, lookup and read show of every other inode
\* stays the same, however the blocks and numbers of removed ones are reused.
THEOREM CallsImplementFileTree == Spec => ImplementsFileTree
<1>1. Init => Tree!Init
  BY InitIsTheEmptyTree
<1>2. FInv /\ [Next]_vars => [Tree!Next]_SeenTree
  BY NextIsAStepOfTheTree
<1>3. Spec => []FInv
  BY InitGivesFInv, NextKeepsFInv, PTL DEF Spec
<1> QED BY <1>1, <1>2, <1>3, PTL DEF Spec, ImplementsFileTree, Tree!Spec
=============================================================================
