----------------------------- MODULE UsersProofs ------------------------------
(***************************************************************************)
(* The two users of LocalFileSystem, the /ds3/ service and the command     *)
(* line utilities: whatever they answer or report, each of their steps is  *)
(* one call of LocalFileSystem that succeeds, or changes nothing of the    *)
(* image. So what is proved of the calls holds of the image they work on.  *)
(* Then paths: which inode a path of names leads to, and what the readers  *)
(* that follow paths (lookup, ds3ls, GET) find there. Last, what PUT and   *)
(* DELETE promise: a handler is where its path leads, and a call changes   *)
(* what one path leads to.                                                 *)
(***************************************************************************)
EXTENDS Ds3Utilities, DistributedFileSystemService, LocalFileSystemProofs, SequenceTheorems

-----------------------------------------------------------------------------
(* The command line utilities.                                             *)

LEMMA MakeIsACall ==
  ASSUME NEW p \in InodeArg, NEW t \in {UFS_DIRECTORY, UFS_REGULAR_FILE}, NEW n \in NameArg,
         Make(p, t, n)
  PROVE  [Next]_vars
  BY DEF Make, Next

LEMMA UtilityIsACall == [Ds3Next]_ds3vars => [Next]_vars
<1> SUFFICES ASSUME [Ds3Next]_ds3vars PROVE [Next]_vars
  OBVIOUS
<1>1. CASE \E p \in InodeArg, n \in NameArg : ds3mkdir(p, n) \/ ds3touch(p, n)
  BY <1>1, MakeIsACall DEF ds3mkdir, ds3touch
<1>2. CASE \E p \in InodeArg, n \in NameArg : ds3rm(p, n)
  BY <1>2 DEF ds3rm, Next
<1>3. CASE \E i \in InodeArg, v \in Values, n \in Sizes : ds3cp(i, v, n)
  BY <1>3 DEF ds3cp, Next
<1>4. CASE UNCHANGED ds3vars
  BY <1>4 DEF ds3vars
<1> QED BY <1>1, <1>2, <1>3, <1>4 DEF Ds3Next

\* Every history of the utilities is one of the file system: the exit codes
\* that ds3mkdir and ds3touch get wrong never stand for a call half made.
THEOREM UtilitiesUseTheFileSystem == Ds3Spec => Spec
<1>1. Ds3Init => Init
  BY DEF Ds3Init
<1> QED BY <1>1, UtilityIsACall, PTL DEF Ds3Spec, Spec

\* The data bitmap of an image stays exact under the utilities, so an image
\* they made is one the server can work on.
THEOREM ImagesAreExact == Ds3Spec => []BlocksHaveOneOwner
  BY UtilitiesUseTheFileSystem, BlocksAreOwned, PTL

\* And its inodes stay a tree: whatever utilities have run, there is one path
\* from the root for ds3ls to reach an inode in use.
THEOREM ImagesAreTrees == Ds3Spec => []NamespaceIsTree
  BY UtilitiesUseTheFileSystem, NamespaceTree, PTL
-----------------------------------------------------------------------------
(* The service.                                                            *)

\* A handler has a request, the components not yet consumed, and the number
\* of an inode that is in use.
HandlerIsTyped ==
  /\ phase \in {"idle", "walk", "write"}
  /\ phase # "idle" => request \in PutRequest
  /\ rest \in Seq(NameArg)
  /\ phase = "walk" => Len(rest) >= 1
  /\ phase = "idle" => inum = Root

LEMMA UnlinkNeedsDirectory ==
  ASSUME NEW p, NEW n, UnlinkReturn(p, n) = 0
  PROVE  IsDirectory(p)
<1>1. /\ -EINVALIDNAME # 0 /\ -EINVALIDINODE # 0 /\ -EUNLINKNOTALLOWED # 0
  BY DEF EINVALIDNAME, EINVALIDINODE, EUNLINKNOTALLOWED
<1> QED BY <1>1, Zenon DEF UnlinkReturn

LEMMA WriteNeedsInode ==
  ASSUME NEW i, NEW n, WriteReturn(i, n) > 0
  PROVE  Allocated(i)
<1>1. /\ ~(-EINVALIDSIZE > 0) /\ ~(-ENOTENOUGHSPACE > 0) /\ ~(-EINVALIDINODE > 0)
  BY DEF EINVALIDSIZE, ENOTENOUGHSPACE, EINVALIDINODE
<1> QED BY <1>1, Zenon DEF WriteReturn

LEMMA InodesAreArguments == Inode \subseteq InodeArg
  BY SizesAssumption DEF Inode, InodeArg

\* The components of a path, cut at one end or the other.
LEMMA PathParts ==
  ASSUME NEW path \in Paths
  PROVE  /\ path \in Seq(NameArg) /\ Len(path) >= 1
         /\ DelPath(path) \in Seq(NameArg) /\ Len(DelPath(path)) >= 1
<1>1. path \in Seq(NameArg) /\ path # <<>>
  BY PathsAssumption
<1>2. Len(path) >= 1
  BY <1>1
<1>3. CASE Len(path) > 1 /\ path[Len(path)] = ""
  <2> DEFINE l == Len(path)
  <2>0. \A i \in 1 .. l : path[i] \in NameArg
    BY <1>1
  <2>1. l \in Nat /\ l > 1 /\ \A i \in 1 .. l - 1 : path[i] \in NameArg
    <3>1. l \in Nat /\ l > 1
      BY <1>1, <1>3, Zenon, LenProperties
    <3> HIDE DEF l
    <3> QED BY <2>0, <3>1
  <2> HIDE DEF l
  <2>2. l - 1 \in Int /\ 1 \in Int
    BY <2>1
  <2>3. SubSeq(path, 1, l - 1) \in Seq(NameArg)
    BY <2>1, <2>2, SubSeqProperties
  <2>4. Len(SubSeq(path, 1, l - 1)) = IF 1 <= l - 1 THEN l - 1 - 1 + 1 ELSE 0
    BY <2>1, <2>2, SubSeqProperties
  <2>5. Len(SubSeq(path, 1, l - 1)) >= 1
    BY <2>1, <2>4
  <2>6. DelPath(path) = SubSeq(path, 1, l - 1)
    BY <1>3 DEF DelPath, l
  <2> QED BY <1>1, <1>2, <2>3, <2>5, <2>6
<1>4. CASE ~(Len(path) > 1 /\ path[Len(path)] = "")
  BY <1>1, <1>2, <1>4 DEF DelPath
<1> QED BY <1>1, <1>2, <1>3, <1>4

LEMMA DelIsACall ==
  ASSUME NEW path \in Paths, Del(path)
  PROVE  [Next]_vars
<1> DEFINE n == DelPath(path)[Len(DelPath(path))]
<1>1. n \in NameArg
  BY PathParts
<1> HIDE DEF n
<1>2. UNCHANGED fsvars \/ \E p : Unlink(p, n)
  BY Zenon DEF Del, n
<1>3. ASSUME NEW p, Unlink(p, n) PROVE Next
  <2>1. UnlinkReturn(p, n) = 0
    BY <1>3, Zenon DEF Unlink
  <2>2. p \in InodeArg
    BY <2>1, UnlinkNeedsDirectory, InodesAreArguments DEF IsDirectory, Allocated
  <2> QED BY <1>1, <1>3, <2>2, Zenon DEF Next
<1> QED BY <1>2, <1>3 DEF fsvars, vars

LEMMA PutIsACall ==
  ASSUME HandlerIsTyped, PutStep
  PROVE  [Next]_vars
<1>1. ASSUME NEW p, NEW t \in {UFS_DIRECTORY, UFS_REGULAR_FILE}, NEW n \in NameArg,
             Create(p, t, n)
      PROVE  Next
  <2>1. IsDirectory(p)
    BY <1>1, Zenon DEF Create
  <2>2. p \in InodeArg
    BY <2>1, InodesAreArguments DEF IsDirectory, Allocated
  <2> QED BY <1>1, <2>2, Zenon DEF Next
<1>2. phase = "walk" => Head(rest) \in NameArg
  BY DEF HandlerIsTyped
<1>3. CASE PutComponent
  <2>1. UNCHANGED fsvars \/ Create(inum, UFS_DIRECTORY, Head(rest))
    BY <1>3, Zenon DEF PutComponent
  <2>2. phase = "walk"
    BY <1>3, Zenon DEF PutComponent
  <2> QED BY <1>1, <1>2, <2>1, <2>2 DEF fsvars, vars
<1>4. CASE PutFile
  <2>1. UNCHANGED fsvars \/ Create(inum, UFS_REGULAR_FILE, Head(rest))
    BY <1>4, Zenon DEF PutFile
  <2>2. phase = "walk"
    BY <1>4, Zenon DEF PutFile
  <2> QED BY <1>1, <1>2, <2>1, <2>2 DEF fsvars, vars
<1>5. CASE PutWrite
  <2>1. phase = "write" /\ (UNCHANGED fsvars \/ Write(inum, request.body, request.size))
    BY <1>5 DEF PutWrite
  <2>2. request.body \in Values /\ request.size \in Sizes
    BY <2>1 DEF HandlerIsTyped, PutRequest
  <2>3. CASE Write(inum, request.body, request.size)
    <3>1. inum \in InodeArg
      BY <2>3, WriteNeedsInode, InodesAreArguments DEF Write, Allocated
    <3> QED BY <2>2, <2>3, <3>1 DEF Next
  <2> QED BY <2>1, <2>3 DEF fsvars, vars
<1> QED BY <1>3, <1>4, <1>5 DEF PutStep

LEMMA ServiceStepIsACall == HandlerIsTyped /\ [ServiceNext]_allvars => [Next]_vars
<1> SUFFICES ASSUME HandlerIsTyped, [ServiceNext]_allvars PROVE [Next]_vars
  OBVIOUS
<1>1. CASE \E path \in Paths : Get(path)
  BY <1>1 DEF Get, fsvars, vars
<1>2. CASE \E path \in Paths : Del(path)
  BY <1>2, DelIsACall
<1>3. CASE \E r \in PutRequest : Put(r)
  BY <1>3 DEF Put, fsvars, vars
<1>4. CASE PutStep
  BY <1>4, PutIsACall
<1>5. CASE Refuse \/ Crash
  BY <1>5 DEF Refuse, Crash, fsvars, vars
<1>6. CASE UNCHANGED allvars
  BY <1>6 DEF allvars, vars
<1> QED BY <1>1, <1>2, <1>3, <1>4, <1>5, <1>6 DEF ServiceNext

LEMMA AnswerIsTyped ==
  ASSUME NEW s, Answer(s)
  PROVE  HandlerIsTyped'
<1>1. phase' = "idle" /\ rest' = <<>> /\ inum' = Root
  BY DEF Answer
<1> QED BY <1>1 DEF HandlerIsTyped, Root

LEMMA HandlerStaysTyped == HandlerIsTyped /\ [ServiceNext]_allvars => HandlerIsTyped'
<1> SUFFICES ASSUME HandlerIsTyped, [ServiceNext]_allvars PROVE HandlerIsTyped'
  OBVIOUS
<1>1. CASE \E path \in Paths : Get(path) \/ Del(path)
  BY <1>1, AnswerIsTyped, Zenon DEF Get, Del
<1>2. CASE Refuse \/ Crash
  BY <1>2, AnswerIsTyped DEF Refuse, Crash
<1>3. ASSUME NEW r \in PutRequest, Put(r) PROVE HandlerIsTyped'
  <2>1. r.path \in Paths
    BY DEF PutRequest
  <2>2. phase' = "walk" /\ request' = r /\ rest' = r.path
    BY <1>3 DEF Put
  <2> QED BY <2>1, <2>2, PathParts DEF HandlerIsTyped
<1>4. CASE PutComponent
  <2>1. /\ phase = "walk" /\ Len(rest) > 1
        /\ \/ \E s : Answer(s)
           \/ phase' = phase /\ request' = request /\ rest' = Tail(rest)
    BY <1>4, Zenon DEF PutComponent
  <2>2. Tail(rest) \in Seq(NameArg) /\ Len(Tail(rest)) = Len(rest) - 1 /\ Len(rest) \in Nat
    BY <2>1 DEF HandlerIsTyped
  <2> QED BY <2>1, <2>2, AnswerIsTyped DEF HandlerIsTyped
<1>5. CASE PutFile
  <2>1. /\ phase = "walk"
        /\ \/ \E s : Answer(s)
           \/ phase' = "write" /\ request' = request /\ rest' = rest
    BY <1>5, Zenon DEF PutFile
  <2> QED BY <2>1, AnswerIsTyped DEF HandlerIsTyped
<1>6. CASE PutWrite
  BY <1>6, AnswerIsTyped DEF PutWrite
<1>7. CASE UNCHANGED allvars
  BY <1>7 DEF allvars, HandlerIsTyped
<1> QED BY <1>1, <1>2, <1>3, <1>4, <1>5, <1>6, <1>7 DEF ServiceNext, PutStep

LEMMA HandlerTyped == ServiceSpec => []HandlerIsTyped
<1>1. ServiceInit => HandlerIsTyped
  BY DEF ServiceInit, HandlerIsTyped, Root
<1> QED BY <1>1, HandlerStaysTyped, PTL DEF ServiceSpec

\* Every history of the service, failed requests and crashes included, is one
\* of the file system.
THEOREM ServiceUsesTheFileSystem == ServiceSpec => Spec
<1>1. ServiceInit => Init
  BY DEF ServiceInit
<1> QED BY <1>1, ServiceStepIsACall, HandlerTyped, PTL DEF ServiceSpec, Spec

\* So the image of a running server keeps an exact data bitmap through any
\* sequence of requests, those that fail half way and those cut off by a
\* crash included: what a failed PUT leaves behind has an owner.
THEOREM ServedImagesAreExact == ServiceSpec => []BlocksHaveOneOwner
  BY ServiceUsesTheFileSystem, BlocksAreOwned, PTL

\* Its inodes stay a tree: the directories a failed PUT has made, and the
\* empty file it could not write, are reached from the root.
THEOREM ServedImagesAreTrees == ServiceSpec => []NamespaceIsTree
  BY ServiceUsesTheFileSystem, NamespaceTree, PTL

\* Seen from outside, a server adds, overwrites and removes single nodes of
\* FileTree, whatever the requests.
THEOREM ServiceImplementsFileTree == ServiceSpec => ImplementsFileTree
  BY ServiceUsesTheFileSystem, CallsImplementFileTree, PTL
-----------------------------------------------------------------------------
(* What ds3cat prints.                                                     *)

CatWorks(i) == i \in inodeBitmap /\ i \notin Directories /\ inodes[i].size > 0
Cat(i) ==
  [exit |-> 0,
   blocks |-> [x \in 0 .. Blocks(inodes[i].size) - 1 |-> inodes[i].direct[x]],
   data |-> Content(i)]

\* The same after a step.
CatWorksNext(i) == i \in inodeBitmap' /\ i \notin Directories' /\ inodes'[i].size > 0
CatNext(i) ==
  [exit |-> 0,
   blocks |-> [x \in 0 .. Blocks(inodes'[i].size) - 1 |-> inodes'[i].direct[x]],
   data |-> ContentNext(i)]

CatIsSeen ==
  \A i \in Inode : /\ ds3cat(i).exit = 0 <=> CatWorks(i)
                   /\ CatWorks(i) => ds3cat(i) = Cat(i)

LEMMA CatOfFile == IInv => CatIsSeen
<1> SUFFICES ASSUME IInv, NEW i \in Inode
             PROVE  /\ ds3cat(i).exit = 0 <=> CatWorks(i)
                    /\ CatWorks(i) => ds3cat(i) = Cat(i)
  BY DEF CatIsSeen
<1>1. IsFile(i) <=> i \in inodeBitmap /\ i \notin Directories
  BY DEF IsFile, Directories, IsDirectory, Allocated, IInv, TypeOK, InodeRecord,
         UFS_REGULAR_FILE, UFS_DIRECTORY
<1>n. PICK n \in Nat : n = inodes[i].size
  BY DEF IInv, TypeOK, InodeRecord
<1>2. CASE ~IsFile(i)
  <2>1. ds3cat(i) = [exit |-> 1]
    BY <1>2 DEF ds3cat
  <2> QED BY <1>1, <1>2, <2>1 DEF CatWorks
<1>3. CASE IsFile(i) /\ n = 0
  <2>1. ReadReturn(i, inodes[i].size) = -EINVALIDSIZE
    BY <1>n, <1>3 DEF ReadReturn
  <2>2. ds3cat(i) = [exit |-> 1, blocks |-> <<>>]
    BY <1>3, <2>1 DEF ds3cat, EINVALIDSIZE
  <2>3. ds3cat(i).exit = 1
    BY <2>2
  <2> QED BY <1>n, <1>3, <2>3 DEF CatWorks
<1>4. CASE IsFile(i) /\ n > 0
  <2>1. Allocated(i) /\ i \in inodeBitmap
    BY <1>4 DEF IsFile, Allocated
  <2>2. ReadCells(i, inodes[i].size) = [k \in 0 .. n - 1 |-> EntryAt(i, k)]
    BY <1>n, <2>1, ReadIsRight DEF ReadsAll
  <2>3. Cardinality(DOMAIN ReadCells(i, inodes[i].size)) = n
    <3>1. DOMAIN ReadCells(i, inodes[i].size) = 0 .. n - 1
      BY <2>2
    <3>2. Cardinality(0 .. n - 1) = IF 0 > n - 1 THEN 0 ELSE n - 1 - 0 + 1
      BY FS_Interval
    <3> QED BY <1>4, <3>1, <3>2
  <2>4. ReadReturn(i, inodes[i].size) = n
    <3>1. ~(inodes[i].size <= 0)
      BY <1>4, <1>n
    <3> QED BY <2>1, <2>3, <3>1, Zenon DEF ReadReturn
  <2>5. ~(ReadReturn(i, inodes[i].size) < 0)
    BY <2>4
  <2>6. ds3cat(i) = [exit |-> 0,
          blocks |-> [x \in 0 .. Blocks(inodes[i].size) - 1 |-> inodes[i].direct[x]],
          data |-> ReadCells(i, inodes[i].size)]
    BY <1>4, <2>5, Zenon DEF ds3cat
  <2>7. ds3cat(i) = Cat(i)
    BY <1>n, <2>2, <2>6 DEF Cat, Content
  <2>8. Cat(i).exit = 0 /\ CatWorks(i)
    BY <1>1, <1>4, <1>n DEF Cat, CatWorks
  <2> QED BY <2>7, <2>8
<1> QED BY <1>n, <1>2, <1>3, <1>4

LEMMA CatOfFileNext ==
  ASSUME IInv', NEW i \in Inode
  PROVE  /\ ds3cat(i)'.exit = 0 <=> CatWorksNext(i)
         /\ CatWorksNext(i) => ds3cat(i)' = CatNext(i)
<1>1. IInv' => CatIsSeen'
  BY CatOfFile, PTL
<1>2. CatIsSeen'
  BY <1>1
<1> QED BY <1>2, Zenon DEF CatIsSeen, CatWorks, CatWorksNext, Cat, CatNext, Content, ContentNext,
           EntryAt, EntryNext

\* What a file that a call does not touch shows.
LEMMA CatStays ==
  ASSUME TInv, NEW q \in inodeBitmap \ Directories, Kept(q), inodes'[q] = inodes[q],
         q \in inodeBitmap', q \notin Directories'
  PROVE  CatNext(q) = Cat(q) /\ (CatWorksNext(q) <=> CatWorks(q))
<1>1. NodeNext(q) = Node(q)
  BY KeptNode
<1>2. NodeNext(q).content = ContentNext(q) /\ Node(q).content = Content(q)
  BY DEF NodeNext, Node
<1> QED BY <1>1, <1>2 DEF CatNext, Cat, CatWorks, CatWorksNext

\* What a call does to the files: those it leaves alone, the one it writes,
\* and the empty one it makes.
FilesStay(A) ==
  /\ \A q \in inodeBitmap' \ Directories' :
       \/ q \in A
       \/ /\ q \in inodeBitmap \ Directories
          /\ Kept(q) /\ inodes'[q] = inodes[q]
       \/ inodes'[q].size = 0 /\ q \notin inodeBitmap

LEMMA CreateFiles ==
  ASSUME TInv, NEW p \in InodeArg, NEW t \in {UFS_DIRECTORY, UFS_REGULAR_FILE},
         NEW n \in NameArg, Create(p, t, n)
  PROVE  FilesStay({})
<1>0. IInv /\ DirectoriesAreDense /\ inodes \in [Inode -> InodeRecord] /\ inodeBitmap \subseteq Inode
  BY DEF TInv, IInv, TypeOK
<1>1. PICK i \in Inode \ inodeBitmap : p \in Directories /\ CreateEntries(p, t, n, i)
  BY <1>0, CreateOnEntries
<1>2. /\ inodeBitmap' = inodeBitmap \cup {i}
      /\ Directories' = Directories \cup (IF t = UFS_DIRECTORY THEN {i} ELSE {})
      /\ \A q \in inodeBitmap \ {p} : Kept(q)
      /\ t # UFS_DIRECTORY => inodes'[i].size = 0
  BY <1>1, Zenon DEF CreateEntries
<1>3. PICK j, a, b : /\ inodeBitmap' = inodeBitmap \cup {j}
                     /\ inodes' = [inodes EXCEPT ![p] = a, ![j] = b]
  BY Zenon DEF Create
<1>4. ASSUME NEW q \in inodeBitmap \ {p}, q \notin Directories, q # j
      PROVE  inodes'[q] = inodes[q]
  BY <1>0, <1>3, <1>4
<1> QED
  <2>1. SUFFICES ASSUME NEW q \in inodeBitmap' \ Directories'
                 PROVE  \/ /\ q \in inodeBitmap \ Directories
                           /\ Kept(q) /\ inodes'[q] = inodes[q]
                        \/ inodes'[q].size = 0 /\ q \notin inodeBitmap
    BY DEF FilesStay
  <2>2. CASE q = i
    BY <1>1, <1>2, <2>1, <2>2
  <2>3. CASE q # i
    <3>1. q \in inodeBitmap \ {p} /\ q \notin Directories /\ i = j
      BY <1>1, <1>2, <1>3, <2>1, <2>3
    <3> QED BY <1>2, <1>4, <2>3, <3>1
  <2> QED BY <2>2, <2>3

LEMMA WriteFiles ==
  ASSUME TInv, NEW i \in InodeArg, NEW v \in Values, NEW n \in Sizes, Write(i, v, n)
  PROVE  /\ FilesStay({i})
         /\ i \in inodeBitmap' \ Directories' /\ CatWorksNext(i)
         /\ CatNext(i).data = [k \in 0 .. n - 1 |-> Entry(v, k)]
<1>0. IInv /\ inodes \in [Inode -> InodeRecord] /\ inodeBitmap \subseteq Inode
  BY DEF TInv, IInv, TypeOK
<1>1. /\ inodeBitmap' = inodeBitmap
      /\ Directories' = Directories
      /\ i \in inodeBitmap \ Directories
      /\ \A q \in inodeBitmap \ {i} : Kept(q)
      /\ n \in Nat /\ inodes'[i].size = n
      /\ \A k \in 0 .. n - 1 : EntryNext(i, k) = Entry(v, k)
  BY <1>0, WriteOnEntries
<1>2. PICK a : inodes' = [inodes EXCEPT ![i] = a]
  BY Zenon DEF Write
<1>3. \A q \in inodeBitmap \ {i} : inodes'[q] = inodes[q]
  BY <1>0, <1>2
<1>4. n > 0
  <2>1. WriteReturn(i, n) > 0
    BY DEF Write
  <2>2. ~(n <= 0)
    BY <2>1 DEF WriteReturn, EINVALIDSIZE
  <2> QED BY <1>1, <2>2
<1>5. CatNext(i).data = [k \in 0 .. n - 1 |-> Entry(v, k)]
  <2>1. CatNext(i).data = ContentNext(i)
    BY DEF CatNext
  <2> QED BY <1>1, <2>1 DEF ContentNext
<1> QED BY <1>1, <1>3, <1>4, <1>5 DEF FilesStay, CatWorksNext

LEMMA UnlinkFiles ==
  ASSUME TInv, NEW p \in InodeArg, NEW n \in NameArg, Unlink(p, n)
  PROVE  FilesStay({})
<1>0. IInv /\ DirectoriesAreDense /\ inodes \in [Inode -> InodeRecord] /\ inodeBitmap \subseteq Inode
  BY DEF TInv, IInv, TypeOK
<1>1. PICK e \in Used(p), t \in inodeBitmap : p \in Directories /\ UnlinkEntries(p, e, t)
  BY <1>0, UnlinkOnEntries
<1>2. /\ inodeBitmap' = inodeBitmap \ {t}
      /\ Directories' = Directories \ {t}
      /\ \A q \in inodeBitmap \ {p} : Kept(q)
  BY <1>1, Zenon DEF UnlinkEntries
<1>3. PICK a : inodes' = [inodes EXCEPT ![p] = a]
  BY Zenon DEF Unlink
<1>4. \A q \in inodeBitmap \ {p} : inodes'[q] = inodes[q]
  BY <1>0, <1>3
<1> QED BY <1>1, <1>2, <1>4 DEF FilesStay

\* What a step shows of the files it leaves alone.
LEMMA OtherFilesShow ==
  ASSUME TInv, TInv', NEW A, FilesStay(A), NEW i \in Inode, i \notin A
  PROVE  /\ ds3cat(i).exit = 0 /\ i \in inodeBitmap' /\ i \notin Directories' => ds3cat(i)'.exit = 0
         /\ ds3cat(i)'.exit = 0 => ds3cat(i)' = ds3cat(i)
<1>0. IInv /\ IInv'
  BY DEF TInv
<1>1. /\ ds3cat(i).exit = 0 <=> CatWorks(i)
      /\ CatWorks(i) => ds3cat(i) = Cat(i)
  BY <1>0, CatOfFile DEF CatIsSeen
<1>2. /\ ds3cat(i)'.exit = 0 <=> CatWorksNext(i)
      /\ CatWorksNext(i) => ds3cat(i)' = CatNext(i)
  BY <1>0, CatOfFileNext
<1>3. ASSUME i \in inodeBitmap' \ Directories'
      PROVE  \/ CatNext(i) = Cat(i) /\ (CatWorksNext(i) <=> CatWorks(i))
             \/ ~CatWorksNext(i) /\ ~CatWorks(i)
  <2>1. CASE i \in inodeBitmap \ Directories /\ Kept(i) /\ inodes'[i] = inodes[i]
    BY <1>3, <2>1, CatStays
  <2>2. CASE inodes'[i].size = 0 /\ i \notin inodeBitmap
    BY <2>2 DEF CatWorks, CatWorksNext
  <2> QED BY <1>3, <2>1, <2>2 DEF FilesStay
<1>4. CatWorksNext(i) => i \in inodeBitmap' \ Directories'
  BY DEF CatWorksNext
<1> QED BY <1>1, <1>2, <1>3, <1>4

\* One step of a utility, for the output of ds3cat.
CopyShown ==
  \A i \in Inode :
    /\ ds3cat(i).exit = 0 /\ i \in inodeBitmap' /\ i \notin Directories' => ds3cat(i)'.exit = 0
    /\ ds3cat(i)'.exit = 0 /\ ds3cat(i)' # ds3cat(i) =>
         \E v \in Values, n \in Sizes :
           ds3cp(i, v, n) /\ ds3cat(i)'.data = [k \in 0 .. n - 1 |-> Entry(v, k)]

LEMMA UtilityShows == TInv /\ TInv' /\ Ds3Next => CopyShown \/ UNCHANGED vars
<1> SUFFICES ASSUME TInv, TInv', Ds3Next PROVE CopyShown \/ UNCHANGED vars
  OBVIOUS
<1>1. ASSUME FilesStay({}) PROVE CopyShown
  BY <1>1, OtherFilesShow DEF CopyShown
<1>2. ASSUME NEW p \in InodeArg, NEW n \in NameArg, ds3mkdir(p, n) \/ ds3touch(p, n)
      PROVE  FilesStay({}) \/ UNCHANGED vars
  <2>1. PICK t \in {UFS_DIRECTORY, UFS_REGULAR_FILE} : Create(p, t, n) \/ UNCHANGED vars
    BY <1>2, Zenon DEF ds3mkdir, ds3touch, Make
  <2> QED BY <2>1, CreateFiles
<1>3. ASSUME NEW p \in InodeArg, NEW n \in NameArg, ds3rm(p, n)
      PROVE  FilesStay({}) \/ UNCHANGED vars
  BY <1>3, UnlinkFiles DEF ds3rm
<1>4. ASSUME NEW j \in InodeArg, NEW v \in Values, NEW n \in Sizes, ds3cp(j, v, n)
      PROVE  CopyShown \/ UNCHANGED vars
  <2>1. Write(j, v, n) \/ UNCHANGED vars
    BY <1>4 DEF ds3cp
  <2>2. SUFFICES ASSUME Write(j, v, n) PROVE CopyShown
    BY <2>1
  <2>3. /\ FilesStay({j})
        /\ j \in inodeBitmap' \ Directories' /\ CatWorksNext(j)
        /\ CatNext(j).data = [k \in 0 .. n - 1 |-> Entry(v, k)]
    BY <2>2, WriteFiles
  <2>4. j \in Inode
    BY <2>2, WriteNeedsInode DEF Write, Allocated
  <2>5. ds3cat(j)'.exit = 0 /\ ds3cat(j)'.data = [k \in 0 .. n - 1 |-> Entry(v, k)]
    <3>1. IInv'
      BY DEF TInv
    <3>2. ds3cat(j)'.exit = 0 /\ ds3cat(j)' = CatNext(j)
      BY <2>3, <2>4, <3>1, CatOfFileNext
    <3> QED BY <2>3, <3>2
  <2>6. ASSUME NEW i \in Inode
        PROVE  /\ ds3cat(i).exit = 0 /\ i \in inodeBitmap' /\ i \notin Directories' =>
                    ds3cat(i)'.exit = 0
               /\ ds3cat(i)'.exit = 0 /\ ds3cat(i)' # ds3cat(i) =>
                    \E w \in Values, m \in Sizes :
                      ds3cp(i, w, m) /\ ds3cat(i)'.data = [k \in 0 .. m - 1 |-> Entry(w, k)]
    <3>1. CASE i = j
      <4>1. \E w \in Values, m \in Sizes :
              ds3cp(i, w, m) /\ ds3cat(i)'.data = [k \in 0 .. m - 1 |-> Entry(w, k)]
        BY <1>4, <2>5, <3>1
      <4>2. ds3cat(i)'.exit = 0
        BY <2>5, <3>1
      <4> QED BY <4>1, <4>2
    <3>2. CASE i # j
      BY <2>3, <3>2, OtherFilesShow
    <3> QED BY <3>1, <3>2
  <2> QED BY <2>6 DEF CopyShown
<1> QED BY <1>1, <1>2, <1>3, <1>4 DEF Ds3Next

\* What ds3cat prints of a file is the last copy: other files, directories and
\* removals may use and free any blocks in between.
THEOREM CopiesStay == Ds3Spec => CatShowsLastCopy
<1>1. TInv /\ TInv' /\ [Ds3Next]_ds3vars =>
        [\A i \in Inode :
           /\ ds3cat(i).exit = 0 /\ IsFile(i)' => ds3cat(i)'.exit = 0
           /\ ds3cat(i)'.exit = 0 /\ ds3cat(i)' # ds3cat(i) =>
                \E v \in Values, n \in Sizes :
                  ds3cp(i, v, n) /\ ds3cat(i)'.data = [k \in 0 .. n - 1 |-> Entry(v, k)]]_ds3vars
  <2> SUFFICES ASSUME TInv, TInv', Ds3Next
               PROVE  \A i \in Inode :
           /\ ds3cat(i).exit = 0 /\ IsFile(i)' => ds3cat(i)'.exit = 0
           /\ ds3cat(i)'.exit = 0 /\ ds3cat(i)' # ds3cat(i) =>
                \E v \in Values, n \in Sizes :
                  ds3cp(i, v, n) /\ ds3cat(i)'.data = [k \in 0 .. n - 1 |-> Entry(v, k)]
    OBVIOUS
  <2>1. \A i \in Inode : IsFile(i)' => i \in inodeBitmap' /\ i \notin Directories'
    BY DEF IsFile, Directories, IsDirectory, Allocated, UFS_REGULAR_FILE, UFS_DIRECTORY
  <2>2. CASE CopyShown
    BY <2>1, <2>2 DEF CopyShown
  <2>3. CASE UNCHANGED vars
    <3>1. ASSUME NEW i \in Inode
          PROVE  /\ ds3cat(i)' = ds3cat(i)
      BY <2>3 DEF vars, ds3cat, IsFile, Allocated, ReadReturn, ReadCells, ReadVisits
    <3> QED BY <3>1
  <2> QED BY <2>2, <2>3, UtilityShows
<1>2. Spec => []TInv
  BY NamespaceInvariant
<1> QED BY <1>1, <1>2, UtilitiesUseTheFileSystem, PTL DEF Ds3Spec, CatShowsLastCopy
-----------------------------------------------------------------------------
(* Functions defined from each number to the next.                         *)

\* The values a function takes one after the other, from a.
Iterates(f, N, S, a, step) ==
  /\ f \in [0 .. N -> S]
  /\ f = [k \in 0 .. N |-> IF k = 0 THEN a ELSE step[<<k, f[k - 1]>>]]

LEMMA IteratesExist ==
  ASSUME NEW N \in Nat, NEW S, NEW a \in S, NEW step \in [(1 .. N) \X S -> S]
  PROVE  \E f : Iterates(f, N, S, a, step)
<1> DEFINE Part(f, m) ==
             /\ f \in [0 .. m -> S] /\ f[0] = a
             /\ \A k \in 1 .. m : f[k] = step[<<k, f[k - 1]>>]
           Bad == {m \in Nat : m <= N /\ ~\E f : Part(f, m)}
<1>1. ASSUME Bad # {} PROVE FALSE
  <2>1. PICK m \in Bad : \A j \in Bad : m <= j
    <3>1. Bad \subseteq Nat
      OBVIOUS
    <3> HIDE DEF Bad
    <3> QED BY <1>1, <3>1, MinOfNaturals
  <2>2. m \in Nat /\ m <= N /\ ~\E f : Part(f, m)
    OBVIOUS
  <2>3. m # 0
    <3>1. Part([k \in 0 .. 0 |-> a], 0)
      OBVIOUS
    <3> QED BY <2>2, <3>1
  <2>4. m - 1 \in Nat /\ m - 1 <= N /\ m - 1 \notin Bad
    <3> HIDE DEF Bad
    <3> QED BY <2>1, <2>2, <2>3
  <2>5. PICK f : Part(f, m - 1)
    BY <2>4
  <2> DEFINE g == [k \in 0 .. m |-> IF k = m THEN step[<<m, f[m - 1]>>] ELSE f[k]]
  <2>6. m - 1 \in 0 .. m - 1 /\ m \in 1 .. N
    BY <2>2, <2>3
  <2>7. f[m - 1] \in S
    BY <2>5, <2>6
  <2>8. step[<<m, f[m - 1]>>] \in S
    BY <2>6, <2>7
  <2>9. \A k \in 0 .. m : k # m => k \in 0 .. m - 1
    BY <2>2
  <2>10. g \in [0 .. m -> S] /\ g[0] = a
    <3>1. 0 \in 0 .. m
      BY <2>2
    <3> QED BY <2>3, <2>5, <2>8, <2>9, <3>1
  <2>11. ASSUME NEW k \in 1 .. m PROVE g[k] = step[<<k, g[k - 1]>>]
    <3>1. k \in 0 .. m /\ k - 1 \in 0 .. m /\ k - 1 # m
      BY <2>2
    <3>2. CASE k = m
      BY <3>1, <3>2
    <3>3. CASE k # m
      <4>1. k \in 1 .. m - 1
        BY <2>2, <3>3
      <4> QED BY <2>5, <3>1, <3>3, <4>1
    <3> QED BY <3>2, <3>3
  <2>12. Part(g, m)
    <3> HIDE DEF g
    <3> QED BY <2>10, <2>11
  <2> QED BY <2>2, <2>12
<1>2. PICK f : Part(f, N)
  <2>1. N \in Nat /\ N <= N
    OBVIOUS
  <2>2. N \notin Bad
    <3> HIDE DEF Bad
    <3> QED BY <1>1
  <2> QED BY <2>1, <2>2
<1>3. \A k \in 0 .. N : k # 0 => k \in 1 .. N
  OBVIOUS
<1>4. f = [k \in 0 .. N |-> IF k = 0 THEN a ELSE step[<<k, f[k - 1]>>]]
  BY <1>2, <1>3
<1> QED BY <1>2, <1>4 DEF Iterates

-----------------------------------------------------------------------------
(* What lookup returns for every argument, as one value.                   *)

Lookups == [r \in LookupResult |-> [n \in NameArg |-> lookup(r, n)]]

\* lk leads from p by the name n to i.
Child(lk, p, n, i) == p \in Inode /\ n \in Names /\ i \in Inode /\ lk[p][n] = i

\* The names in the directories D form a tree: "." and ".." lead to the
\* directory and to its parent, and every inode has one name.
TreeOfNames(lk, D) ==
  /\ lk \in [LookupResult -> [NameArg -> LookupResult]]
  /\ D \subseteq Inode /\ Root \in D /\ lk[Root][".."] = Root
  /\ \A r \in LookupResult, n \in NameArg :
       lk[r][n] \in Inode => r \in D /\ n \in Names \cup {".", ".."}
  /\ \A p \in D : lk[p]["."] = p
  /\ \A p \in Inode, n \in Names, i \in Inode : Child(lk, p, n, i) =>
       /\ i # Root
       /\ i \in D => lk[i][".."] = p
       /\ \A q \in Inode, m \in Names : Child(lk, q, m, i) => p = q /\ n = m

\* A value for each name in each directory: the inode of its entry.
LookupsFind ==
  /\ \A p \in Directories, n \in NameArg :
       /\ \A k \in Used(p) : EntryAt(p, k).name = n => Lookups[p][n] = EntryAt(p, k).inum
       /\ (\A k \in Used(p) : EntryAt(p, k).name # n) => Lookups[p][n] = -ENOTFOUND
  /\ \A r \in LookupResult \ Directories : \A n \in NameArg : Lookups[r][n] = -EINVALIDINODE

LEMMA FailuresAreNoInodes ==
  -ENOTFOUND \notin Inode /\ -EINVALIDINODE \notin Inode /\ -ENOTFOUND < 0 /\ -EINVALIDINODE < 0
  BY SizesAssumption DEF Inode, ENOTFOUND, EINVALIDINODE

LEMMA LookupIsTyped ==
  ASSUME FInv, NEW r, NEW n \in NameArg
  PROVE  /\ lookup(r, n) \in LookupResult
         /\ r \notin Directories => lookup(r, n) = -EINVALIDINODE /\ lookup(r, n) \notin Inode
<1>0. TInv /\ inodeBitmap \subseteq Inode
  BY DEF FInv, TInv, IInv, TypeOK
<1>1. CASE r \notin Directories
  <2>1. ~IsDirectory(r)
    BY <1>1 DEF Directories, IsDirectory, Allocated
  <2>2. lookup(r, n) = -EINVALIDINODE
    BY <2>1, Zenon DEF lookup
  <2> QED BY <1>1, <2>2, FailuresAreNoInodes DEF LookupResult
<1>2. CASE r \in Directories /\ Holds(r, n)
  <2>1. PICK k \in Used(r) : EntryAt(r, k).name = n
    BY <1>2 DEF Holds
  <2>2. lookup(r, n) = EntryAt(r, k).inum
    BY <1>0, <1>2, <2>1, LookupIsRight DEF LookupFinds
  <2>3. EntryAt(r, k).inum \in inodeBitmap
    BY <1>0, <1>2, DenseDirectory
  <2> QED BY <1>0, <1>2, <2>2, <2>3 DEF LookupResult
<1>3. CASE r \in Directories /\ ~Holds(r, n)
  BY <1>0, <1>3, LookupIsRight DEF LookupFinds, LookupResult
<1> QED BY <1>1, <1>2, <1>3

LEMMA LookupsAre ==
  ASSUME FInv
  PROVE  /\ Lookups \in [LookupResult -> [NameArg -> LookupResult]]
         /\ \A r \in LookupResult, n \in NameArg : Lookups[r][n] = lookup(r, n)
         /\ Directories \subseteq LookupResult
         /\ LookupsFind
<1>1. Lookups \in [LookupResult -> [NameArg -> LookupResult]]
  BY LookupIsTyped DEF Lookups
<1>2. \A r \in LookupResult, n \in NameArg : Lookups[r][n] = lookup(r, n)
  BY DEF Lookups
<1>3. Directories \subseteq LookupResult
  BY DEF Directories, LookupResult
<1>4. LookupsFind
  <2>1. TInv
    BY DEF FInv
  <2>2. LookupFinds
    BY <2>1, LookupIsRight
  <2>3. \A r \in LookupResult \ Directories : \A n \in NameArg : lookup(r, n) = -EINVALIDINODE
    BY LookupIsTyped
  <2> QED BY <1>2, <1>3, <2>2, <2>3 DEF LookupsFind, LookupFinds, Holds
<1> QED BY <1>1, <1>2, <1>3, <1>4

\* A lookup that finds an inode has met an entry.
LEMMA LookupMeetsEntry ==
  ASSUME FInv, NEW r \in LookupResult, NEW n \in NameArg, Lookups[r][n] \in Inode
  PROVE  /\ r \in Directories
         /\ \E k \in Used(r) : /\ k \in Nat /\ EntryAt(r, k).name = n
                               /\ EntryAt(r, k).inum = Lookups[r][n]
                               /\ Lookups[r][n] \in inodeBitmap
<1>0. TInv /\ LookupsFind
  BY LookupsAre DEF FInv
<1>1. r \in Directories
  BY <1>0, FailuresAreNoInodes DEF LookupsFind
<1>2. PICK k \in Used(r) : EntryAt(r, k).name = n
  BY <1>0, <1>1, FailuresAreNoInodes DEF LookupsFind
<1>3. EntryAt(r, k).inum = Lookups[r][n]
  BY <1>0, <1>1, <1>2 DEF LookupsFind
<1>4. EntryAt(r, k).inum \in inodeBitmap /\ k \in Nat
  BY <1>0, <1>1, DenseDirectory
<1> QED BY <1>1, <1>2, <1>3, <1>4

\* A name leads to a named entry.
LEMMA ChildIsNamed ==
  ASSUME FInv, NEW p \in Inode, NEW n \in Names, NEW i \in Inode, Child(Lookups, p, n, i)
  PROVE  \E k \in Nat : Named(p, k, i) /\ EntryAt(p, k).name = n
<1>0. TInv
  BY DEF FInv
<1>1. n \in NameArg /\ p \in LookupResult /\ Lookups[p][n] = i
  BY DEF Child, NameArg, LookupResult
<1>2. PICK k \in Used(p) : k \in Nat /\ EntryAt(p, k).name = n /\ EntryAt(p, k).inum = i
  BY <1>1, LookupMeetsEntry
<1>3. p \in Directories
  BY <1>1, LookupMeetsEntry
<1>4. k >= 2
  <2>1. EntryAt(p, 0).name = "." /\ EntryAt(p, 1).name = ".."
    BY <1>0, <1>3, DenseDirectory, EntryFields
  <2>2. k # 0 /\ k # 1
    BY <1>2, <2>1, NamesAssumption
  <2> QED BY <1>2, <2>2
<1> QED BY <1>2, <1>3, <1>4 DEF Named

LEMMA NamedIsChild ==
  ASSUME FInv, NEW p, NEW k, NEW i, Named(p, k, i)
  PROVE  /\ Child(Lookups, p, EntryAt(p, k).name, i)
         /\ p \in Directories /\ p \in Inode /\ i \in Inode /\ EntryAt(p, k).name \in Names
<1>0. TInv /\ LookupsFind /\ Directories \subseteq LookupResult
  BY LookupsAre DEF FInv
<1>1. /\ p \in Directories /\ k \in Used(p) /\ k >= 2 /\ EntryAt(p, k).inum = i
      /\ i \in Inode /\ p \in Inode
  BY <1>0, NamedFacts DEF Named
<1>2. EntryAt(p, k).name \in Names
  BY <1>1 DEF FInv, NamesAreGiven
<1>3. EntryAt(p, k).name \in NameArg
  BY <1>2 DEF NameArg
<1>4. Lookups[p][EntryAt(p, k).name] = i
  BY <1>0, <1>1, <1>3 DEF LookupsFind
<1> QED BY <1>1, <1>2, <1>4 DEF Child

NamesFormATree == TreeOfNames(Lookups, Directories)

LEMMA DirectoriesFormATree == FInv => NamesFormATree
<1> SUFFICES ASSUME FInv PROVE TreeOfNames(Lookups, Directories)
  BY DEF NamesFormATree
<1>0. TInv /\ LookupsFind /\ Lookups \in [LookupResult -> [NameArg -> LookupResult]]
  BY LookupsAre DEF FInv
<1>1. Directories \subseteq Inode /\ Root \in Directories
  BY <1>0 DEF Directories, TInv, RootIsAbove
<1>2. ASSUME NEW p \in Directories
      PROVE  Lookups[p]["."] = p /\ Lookups[p][".."] = EntryAt(p, 1).inum
  <2>1. /\ 0 \in Used(p) /\ EntryAt(p, 0).name = "." /\ EntryAt(p, 0).inum = p
        /\ 1 \in Used(p) /\ EntryAt(p, 1).name = ".."
    BY <1>0, DenseDirectory, EntryFields
  <2>2. "." \in NameArg /\ ".." \in NameArg
    BY DEF NameArg
  <2> QED BY <1>0, <2>1, <2>2 DEF LookupsFind
<1>3. Lookups[Root][".."] = Root
  BY <1>0, <1>1, <1>2 DEF TInv, RootIsAbove
<1>4. ASSUME NEW r \in LookupResult, NEW n \in NameArg, Lookups[r][n] \in Inode
      PROVE  r \in Directories /\ n \in Names \cup {".", ".."}
  <2>1. PICK k \in Used(r) : r \in Directories /\ k \in Nat /\ EntryAt(r, k).name = n
    BY <1>4, LookupMeetsEntry
  <2>2. EntryAt(r, 0).name = "." /\ EntryAt(r, 1).name = ".."
    BY <1>0, <2>1, DenseDirectory, EntryFields
  <2>3. k >= 2 => n \in Names
    BY <2>1 DEF FInv, NamesAreGiven
  <2>4. k = 0 \/ k = 1 \/ k >= 2
    BY <2>1
  <2> QED BY <2>1, <2>2, <2>3, <2>4
<1>5. ASSUME NEW p \in Inode, NEW n \in Names, NEW i \in Inode, Child(Lookups, p, n, i)
      PROVE  /\ i # Root
             /\ i \in Directories => Lookups[i][".."] = p
             /\ \A q \in Inode, m \in Names : Child(Lookups, q, m, i) => p = q /\ n = m
  <2>1. PICK k \in Nat : Named(p, k, i) /\ EntryAt(p, k).name = n
    BY <1>5, ChildIsNamed
  <2>2. i \in inodeBitmap /\ i # Root
    BY <1>0, <2>1, NamedFacts DEF TInv, RootIsAbove
  <2>3. ASSUME i \in Directories PROVE EntryAt(i, 1).inum = p
    <3>1. PICK r \in Inode, j \in Nat : Named(r, j, i) /\ EntryAt(i, 1).inum = r
      BY <1>0, <2>2, <2>3 DEF TInv, AllAreNamed
    <3> QED BY <1>0, <2>1, <3>1 DEF TInv, NamedOnce
  <2>4. ASSUME NEW q \in Inode, NEW m \in Names, Child(Lookups, q, m, i) PROVE p = q /\ n = m
    <3>1. PICK j \in Nat : Named(q, j, i) /\ EntryAt(q, j).name = m
      BY <2>4, ChildIsNamed
    <3>2. p = q /\ k = j
      BY <1>0, <2>1, <3>1 DEF TInv, NamedOnce
    <3> QED BY <2>1, <3>1, <3>2
  <2> QED BY <1>2, <2>2, <2>3, <2>4
<1> QED BY <1>0, <1>1, <1>2, <1>3, <1>4, <1>5 DEF TreeOfNames
-----------------------------------------------------------------------------
(* Paths of names.                                                         *)

\* The inodes met from the root along d names.
Trail(lk, f, names, d) ==
  /\ f \in [0 .. d -> Inode] /\ f[0] = Root
  /\ \A k \in 1 .. d : Child(lk, f[k - 1], names[k], f[k])

LEMMA OneName ==
  ASSUME NEW lk, NEW D, TreeOfNames(lk, D),
         NEW p, NEW n, NEW i, Child(lk, p, n, i)
  PROVE  /\ p \in Inode /\ n \in Names /\ i \in Inode /\ i # Root
         /\ i \in D => lk[i][".."] = p
         /\ \A q, m : Child(lk, q, m, i) => p = q /\ n = m
<1>1. /\ p \in Inode /\ n \in Names /\ i \in Inode
      /\ \A q, m : Child(lk, q, m, i) => q \in Inode /\ m \in Names
  BY DEF Child
<1> QED BY <1>1 DEF TreeOfNames

\* Two paths to one inode are the same: seen from their ends, they meet the
\* same inodes.
LEMMA TrailsMeet ==
  ASSUME NEW lk, NEW D, TreeOfNames(lk, D),
         NEW d \in Nat, NEW e \in Nat, NEW f, NEW g, NEW P, NEW Q,
         Trail(lk, f, P, d), Trail(lk, g, Q, e), f[d] = g[e]
  PROVE  \A j \in Nat : j <= d /\ j <= e => f[d - j] = g[e - j]
<1> DEFINE Bad == {j \in Nat : j <= d /\ j <= e /\ f[d - j] # g[e - j]}
<1> SUFFICES ASSUME Bad # {} PROVE FALSE
  OBVIOUS
<1>1. PICK j \in Bad : \A k \in Bad : j <= k
  <2>1. Bad \subseteq Nat
    OBVIOUS
  <2> HIDE DEF Bad
  <2> QED BY <2>1, MinOfNaturals
<1>2. j \in Nat /\ j <= d /\ j <= e /\ f[d - j] # g[e - j] /\ j # 0
  OBVIOUS
<1> DEFINE a == d - (j - 1)
           b == e - (j - 1)
<1>3. j - 1 \in Nat /\ j - 1 <= d /\ j - 1 <= e /\ j - 1 \notin Bad
  <2> HIDE DEF Bad
  <2> QED BY <1>1, <1>2
<1>4. f[a] = g[b]
  BY <1>3
<1>5. a \in 1 .. d /\ b \in 1 .. e /\ a - 1 = d - j /\ b - 1 = e - j
  BY <1>2
<1> HIDE DEF a, b, Bad
<1>6. Child(lk, f[a - 1], P[a], f[a]) /\ Child(lk, g[b - 1], Q[b], g[b])
  BY <1>5 DEF Trail
<1>7. f[a - 1] = g[b - 1]
  BY <1>4, <1>6, OneName
<1> QED BY <1>2, <1>5, <1>7

\* The root is at the start of a trail only.
LEMMA RootIsFirst ==
  ASSUME NEW lk, NEW D, TreeOfNames(lk, D), NEW d \in Nat, NEW f, NEW P, Trail(lk, f, P, d),
         NEW k \in 0 .. d, f[k] = Root
  PROVE  k = 0
<1> SUFFICES ASSUME k # 0 PROVE FALSE
  OBVIOUS
<1>1. k \in 1 .. d
  OBVIOUS
<1>2. Child(lk, f[k - 1], P[k], f[k])
  BY <1>1 DEF Trail
<1> QED BY <1>2 DEF TreeOfNames, Child

LEMMA TrailIsUnique ==
  ASSUME NEW lk, NEW D, TreeOfNames(lk, D),
         NEW d \in Nat, NEW e \in Nat, NEW f, NEW g, NEW P, NEW Q,
         Trail(lk, f, P, d), Trail(lk, g, Q, e), f[d] = g[e]
  PROVE  /\ d = e
         /\ \A k \in 0 .. d : f[k] = g[k]
         /\ \A k \in 1 .. d : P[k] = Q[k]
<1>1. \A j \in Nat : j <= d /\ j <= e => f[d - j] = g[e - j]
  BY TrailsMeet
<1>0. f[0] = Root /\ g[0] = Root
  BY DEF Trail
<1>2. ASSUME d < e PROVE FALSE
  <2>1. d \in Nat /\ d <= d /\ d <= e /\ d - d = 0
    BY <1>2
  <2>2. f[0] = g[e - d]
    BY <1>1, <2>1
  <2>3. e - d \in 0 .. e /\ e - d # 0
    BY <1>2
  <2> QED BY <1>0, <2>2, <2>3, RootIsFirst
<1>3. ASSUME e < d PROVE FALSE
  <2>1. e \in Nat /\ e <= d /\ e <= e /\ e - e = 0
    BY <1>3
  <2>2. g[0] = f[d - e]
    BY <1>1, <2>1
  <2>3. d - e \in 0 .. d /\ d - e # 0
    BY <1>3
  <2> QED BY <1>0, <2>2, <2>3, RootIsFirst
<1>4. d = e
  BY <1>2, <1>3
<1>5. ASSUME NEW k \in 0 .. d PROVE f[k] = g[k]
  <2>1. d - k \in Nat /\ d - k <= d /\ d - (d - k) = k
    OBVIOUS
  <2> QED BY <1>1, <1>4, <2>1
<1>6. ASSUME NEW k \in 1 .. d PROVE P[k] = Q[k]
  <2>1. k \in 0 .. d /\ k - 1 \in 0 .. d
    OBVIOUS
  <2>2. Child(lk, f[k - 1], P[k], f[k]) /\ Child(lk, g[k - 1], Q[k], g[k])
    BY <1>4 DEF Trail
  <2> QED BY <1>5, <2>1, <2>2, OneName
<1> QED BY <1>4, <1>5, <1>6

LEMMA TrailPart ==
  ASSUME NEW lk, NEW d \in Nat, NEW f, NEW P, Trail(lk, f, P, d), NEW c \in 0 .. d
  PROVE  \E g : Trail(lk, g, P, c) /\ \A k \in 0 .. c : g[k] = f[k]
<1> DEFINE g == [k \in 0 .. c |-> f[k]]
<1>1. g \in [0 .. c -> Inode] /\ g[0] = Root
  BY DEF Trail
<1>2. ASSUME NEW k \in 1 .. c PROVE Child(lk, g[k - 1], P[k], g[k])
  <2>1. k \in 1 .. d /\ k \in 0 .. c /\ k - 1 \in 0 .. c
    OBVIOUS
  <2> QED BY <2>1 DEF Trail
<1> HIDE DEF g
<1>3. Trail(lk, g, P, c)
  BY <1>1, <1>2 DEF Trail
<1> QED BY <1>3 DEF g

\* A path meets no inode twice, so there are fewer names than inodes.
LEMMA TrailIsShort ==
  ASSUME NEW lk, NEW D, TreeOfNames(lk, D), NEW d \in Nat, NEW f, NEW P, Trail(lk, f, P, d)
  PROVE  d <= NumInodes - 1
<1>1. ASSUME NEW j \in 0 .. d, NEW k \in 0 .. d, f[j] = f[k] PROVE j = k
  <2>1. PICK g : Trail(lk, g, P, j) /\ g[j] = f[j]
    BY TrailPart
  <2>2. PICK h : Trail(lk, h, P, k) /\ h[k] = f[k]
    BY TrailPart
  <2>3. j \in Nat /\ k \in Nat /\ g[j] = h[k]
    BY <1>1, <2>1, <2>2
  <2> QED BY <2>1, <2>2, <2>3, TrailIsUnique
<1>2. f \in Injection(0 .. d, Inode)
  BY <1>1, Zenon DEF Trail, Injection, IsInjective
<1>3. /\ IsFiniteSet(Inode) /\ Cardinality(Inode) = NumInodes
      /\ Cardinality(0 .. d) = d + 1
  <2>1. NumInodes \in Nat \ {0}
    BY SizesAssumption
  <2>2. /\ IsFiniteSet(0 .. NumInodes - 1)
        /\ Cardinality(0 .. NumInodes - 1)
             = IF 0 > NumInodes - 1 THEN 0 ELSE NumInodes - 1 - 0 + 1
        /\ Cardinality(0 .. d) = IF 0 > d THEN 0 ELSE d - 0 + 1
    BY <2>1, FS_Interval
  <2> QED BY <2>1, <2>2 DEF Inode
<1>4. Cardinality(0 .. d) <= Cardinality(Inode)
  BY <1>2, <1>3, FS_Injection
<1> QED BY <1>3, <1>4, SizesAssumption

\* A path can be extended by a name below its end.
Longer(f, d, i) == [k \in 0 .. d + 1 |-> IF k = d + 1 THEN i ELSE f[k]]
Further(P, d, n) == [k \in 1 .. d + 1 |-> IF k = d + 1 THEN n ELSE P[k]]

LEMMA TrailGrows ==
  ASSUME NEW lk, NEW d \in Nat, NEW f, NEW P, Trail(lk, f, P, d),
         NEW n, NEW i, Child(lk, f[d], n, i)
  PROVE  Trail(lk, Longer(f, d, i), Further(P, d, n), d + 1) /\ Longer(f, d, i)[d + 1] = i
<1> DEFINE e == d + 1
           g == [k \in 0 .. e |-> IF k = e THEN i ELSE f[k]]
           Q == [k \in 1 .. e |-> IF k = e THEN n ELSE P[k]]
<1>0. /\ f \in [0 .. d -> Inode] /\ f[0] = Root
      /\ \A k \in 1 .. d : Child(lk, f[k - 1], P[k], f[k])
  BY DEF Trail
<1>1. /\ \A k \in 0 .. e : k # e => k \in 0 .. d
      /\ \A k \in 1 .. e : k # e => k \in 1 .. d
      /\ \A k \in 1 .. e : k \in 0 .. e /\ k - 1 \in 0 .. e /\ k - 1 # e
      /\ 0 \in 0 .. e /\ 0 # e /\ e \in 0 .. e /\ e - 1 = d
  OBVIOUS
<1> HIDE DEF e
<1>2. i \in Inode
  BY DEF Child
<1>3. g \in [0 .. e -> Inode] /\ g[0] = Root /\ g[e] = i
  BY <1>0, <1>1, <1>2
<1>4. ASSUME NEW k \in 1 .. e PROVE Child(lk, g[k - 1], Q[k], g[k])
  <2>1. g[k - 1] = f[k - 1]
    BY <1>1
  <2>2. CASE k = e
    BY <1>1, <2>1, <2>2
  <2>3. CASE k # e
    BY <1>0, <1>1, <2>1, <2>3
  <2> QED BY <2>2, <2>3
<1> HIDE DEF g, Q
<1>5. Trail(lk, g, Q, e)
  BY <1>3, <1>4 DEF Trail
<1> QED BY <1>3, <1>5 DEF e, g, Q, Longer, Further

\* A path of names that leads to i.
Reached(lk, i) ==
  \E d \in Nat : \E P \in [1 .. d -> Names] : \E f : Trail(lk, f, P, d) /\ f[d] = i

LEMMA ChildIsReached ==
  ASSUME NEW lk, NEW p, NEW n, NEW i, Reached(lk, p), Child(lk, p, n, i)
  PROVE  Reached(lk, i)
<1>1. PICK d \in Nat : \E P \in [1 .. d -> Names] : \E f : Trail(lk, f, P, d) /\ f[d] = p
  BY DEF Reached
<1>2. PICK P \in [1 .. d -> Names] : \E f : Trail(lk, f, P, d) /\ f[d] = p
  BY <1>1
<1>3. PICK f : Trail(lk, f, P, d) /\ f[d] = p
  BY <1>2
<1>4. Child(lk, f[d], n, i) /\ n \in Names
  BY <1>3 DEF Child
<1>5. Trail(lk, Longer(f, d, i), Further(P, d, n), d + 1) /\ Longer(f, d, i)[d + 1] = i
  BY <1>3, <1>4, TrailGrows
<1>6. Further(P, d, n) \in [1 .. d + 1 -> Names] /\ d + 1 \in Nat
  <2>1. \A k \in 1 .. d + 1 : k # d + 1 => k \in 1 .. d
    OBVIOUS
  <2> QED BY <1>4, <2>1 DEF Further
<1> QED BY <1>5, <1>6 DEF Reached

LEMMA AllAreReached ==
  ASSUME FInv, NEW i \in inodeBitmap
  PROVE  Reached(Lookups, i)
<1>0. TInv
  BY DEF FInv
<1>1. Reached(Lookups, Root)
  <2>1. Root \in Inode
    BY SizesAssumption DEF Root, Inode
  <2>2. PICK P, f : P = [k \in 1 .. 0 |-> ""] /\ f = [k \in 0 .. 0 |-> Root]
    OBVIOUS
  <2>3. P \in [1 .. 0 -> Names] /\ Trail(Lookups, f, P, 0) /\ f[0] = Root
    BY <2>1, <2>2 DEF Trail
  <2> QED BY <2>3 DEF Reached
<1> DEFINE S == {q \in Directories : ~Reached(Lookups, q)}
<1>2. ASSUME NEW q \in inodeBitmap \ {Root}
      PROVE  \E p \in Directories, n \in Names :
               Child(Lookups, p, n, q) /\ (q \in Directories => EntryAt(q, 1).inum = p)
  <2>1. PICK p \in Inode, k \in Nat : Named(p, k, q) /\ (q \in Directories => EntryAt(q, 1).inum = p)
    BY <1>0, <1>2 DEF TInv, AllAreNamed
  <2> QED BY <2>1, NamedIsChild
<1>3. S = {}
  <2> SUFFICES ASSUME S # {} PROVE FALSE
    OBVIOUS
  <2>1. S \in SUBSET (Directories \ {Root})
    BY <1>1
  <2>2. PICK q \in S : EntryAt(q, 1).inum \notin S
    BY <1>0, <2>1 DEF TInv, ParentsLeadToRoot
  <2>3. q \in Directories /\ q \in inodeBitmap \ {Root} /\ ~Reached(Lookups, q)
    BY <1>0, <2>1, DenseDirectory
  <2>4. PICK p \in Directories, n \in Names : Child(Lookups, p, n, q) /\ EntryAt(q, 1).inum = p
    BY <1>2, <2>3
  <2>5. Reached(Lookups, p)
    BY <2>2, <2>4
  <2> QED BY <2>3, <2>4, <2>5, ChildIsReached
<1>4. CASE i = Root
  BY <1>1, <1>4
<1>5. CASE i # Root
  <2>1. PICK p \in Directories, n \in Names : Child(Lookups, p, n, i)
    BY <1>2, <1>5
  <2> QED BY <1>3, <2>1, ChildIsReached
<1> QED BY <1>4, <1>5
-----------------------------------------------------------------------------
(* A walk looks up one name after the other, until nothing is found.       *)

\* An empty part at the end is not looked up.
Follows(lk, at, path, d) ==
  /\ at[0] = Root
  /\ \A k \in 1 .. d :
       IF at[k - 1] \in Inode
       THEN at[k] = IF k = d /\ path[k] = "" THEN at[k - 1] ELSE lk[at[k - 1]][path[k]]
       ELSE at[k] \notin Inode

LEMMA TrailIsFollowed ==
  ASSUME NEW lk, NEW d \in Nat, NEW f, NEW at, NEW P, Trail(lk, f, P, d), Follows(lk, at, P, d)
  PROVE  at[d] = f[d] /\ \A k \in 0 .. d : at[k] = f[k]
<1> DEFINE Bad == {k \in 0 .. d : at[k] # f[k]}
<1>1. ASSUME Bad # {} PROVE FALSE
  <2>1. PICK k \in Bad : \A j \in Bad : k <= j
    <3>1. Bad \subseteq Nat
      OBVIOUS
    <3> HIDE DEF Bad
    <3> QED BY <1>1, <3>1, MinOfNaturals
  <2>2. k \in 0 .. d /\ at[k] # f[k] /\ k # 0
    BY DEF Follows, Trail
  <2>3. k \in 1 .. d /\ k - 1 \in 0 .. d /\ k - 1 \notin Bad
    <3> HIDE DEF Bad
    <3> QED BY <2>1, <2>2
  <2>4. at[k - 1] = f[k - 1] /\ f[k - 1] \in Inode
    BY <2>3 DEF Trail
  <2>5. P[k] \in Names /\ lk[f[k - 1]][P[k]] = f[k]
    BY <2>3 DEF Trail, Child
  <2>6. P[k] # ""
    BY <2>5, NamesAssumption
  <2>7. at[k] = lk[at[k - 1]][P[k]]
    BY <2>3, <2>4, <2>6 DEF Follows
  <2> QED BY <2>2, <2>4, <2>5, <2>7
<1>2. d \in 0 .. d
  OBVIOUS
<1> QED BY <1>1, <1>2

\* What is no inode stays none to the end of the walk.
LEMMA LostStaysLost ==
  ASSUME NEW lk, NEW d \in Nat, NEW at, NEW P, Follows(lk, at, P, d),
         NEW c \in 0 .. d, at[c] \notin Inode
  PROVE  at[d] \notin Inode
<1> DEFINE Bad == {k \in c .. d : at[k] \in Inode}
<1> SUFFICES ASSUME Bad # {} PROVE FALSE
  OBVIOUS
<1>1. PICK k \in Bad : \A j \in Bad : k <= j
  <2>1. Bad \subseteq Nat
    OBVIOUS
  <2> HIDE DEF Bad
  <2> QED BY <2>1, MinOfNaturals
<1>2. k \in c .. d /\ at[k] \in Inode /\ k # c
  OBVIOUS
<1>3. k \in 1 .. d /\ k - 1 \in c .. d /\ k - 1 \notin Bad
  <2> HIDE DEF Bad
  <2> QED BY <1>1, <1>2
<1>4. at[k - 1] \notin Inode
  BY <1>3
<1> QED BY <1>2, <1>3, <1>4 DEF Follows

LEMMA FollowedIsTrail ==
  ASSUME NEW lk, NEW d \in Nat, NEW at, NEW P, \A k \in 1 .. d : P[k] \in Names,
         Follows(lk, at, P, d), at[d] \in Inode
  PROVE  \E f : Trail(lk, f, P, d) /\ f[d] = at[d] /\ \A k \in 0 .. d : f[k] = at[k]
<1> DEFINE f == [k \in 0 .. d |-> at[k]]
<1>1. \A k \in 0 .. d : at[k] \in Inode
  BY LostStaysLost
<1>2. f \in [0 .. d -> Inode] /\ f[0] = Root
  <2>1. at[0] = Root
    BY DEF Follows
  <2>2. 0 \in 0 .. d
    OBVIOUS
  <2> QED BY <1>1, <2>1, <2>2
<1>3. ASSUME NEW k \in 1 .. d PROVE Child(lk, f[k - 1], P[k], f[k])
  <2>1. k \in 0 .. d /\ k - 1 \in 0 .. d
    OBVIOUS
  <2>2. P[k] \in Names /\ P[k] # ""
    BY NamesAssumption
  <2>3. at[k] = lk[at[k - 1]][P[k]] /\ at[k] \in Inode /\ at[k - 1] \in Inode
    BY <1>1, <2>1, <2>2 DEF Follows
  <2> QED BY <2>1, <2>2, <2>3 DEF Child
<1>4. f[d] = at[d] /\ \A k \in 0 .. d : f[k] = at[k]
  OBVIOUS
<1> HIDE DEF f
<1> QED BY <1>2, <1>3, <1>4 DEF Trail

LEMMA FoundFollows ==
  ASSUME FInv, NEW path, NEW L \in Nat, Len(path) = L, \A k \in 1 .. L : path[k] \in Names
  PROVE  \E at : /\ at \in [0 .. L -> LookupResult]
                 /\ Follows(Lookups, at, path, L) /\ Found(path) = at[L]
                 /\ \A k \in 1 .. L : at[k] = lookup(at[k - 1], path[k])
<1> DEFINE S == LookupResult
           step == [x \in (1 .. L) \X S |-> lookup(x[2], path[x[1]])]
<1>1. Root \in S /\ Root \in Inode
  BY SizesAssumption DEF LookupResult, Root, Inode
<1>2. \A k \in 1 .. L : path[k] \in NameArg /\ path[k] # ""
  BY NamesAssumption DEF NameArg
<1>3. step \in [(1 .. L) \X S -> S]
  <2>1. ASSUME NEW x \in (1 .. L) \X S PROVE lookup(x[2], path[x[1]]) \in S
    <3>1. path[x[1]] \in NameArg
      BY <1>2
    <3> QED BY <3>1, LookupIsTyped
  <2> QED BY <2>1
<1>4. \A k \in 1 .. L : \A r \in S : step[<<k, r>>] = lookup(r, path[k])
  OBVIOUS
<1> HIDE DEF step, S
<1>5. PICK f : Iterates(f, L, S, Root, step)
  BY <1>1, <1>3, IteratesExist
<1>6. /\ f \in [0 .. L -> S]
      /\ f = [k \in 0 .. L |-> IF k = 0 THEN Root ELSE step[<<k, f[k - 1]>>]]
  BY <1>5 DEF Iterates
<1>7. \A k \in 0 .. L : k # 0 => k \in 1 .. L /\ k - 1 \in 0 .. L
  OBVIOUS
<1>8. \A k \in 0 .. L : k # 0 => step[<<k, f[k - 1]>>] = lookup(f[k - 1], path[k])
  BY <1>4, <1>6, <1>7
<1>9. f = [k \in 0 .. L |-> IF k = 0 THEN Root ELSE lookup(f[k - 1], path[k])]
  BY <1>6, <1>8
<1> DEFINE at == CHOOSE h : h = [k \in 0 .. L |-> IF k = 0 THEN Root ELSE lookup(h[k - 1], path[k])]
<1>10. at = [k \in 0 .. L |-> IF k = 0 THEN Root ELSE lookup(at[k - 1], path[k])]
  BY <1>9, Zenon
<1>11. Found(path) = (CHOOSE h : h = [k \in 0 .. Len(path) |->
           IF k = 0 THEN Root ELSE lookup(h[k - 1], path[k])])[Len(path)]
  BY Zenon DEF Found
<1>12. Found(path) = at[L]
  BY <1>11, Zenon
<1> HIDE DEF at
<1>13. at[0] = Root /\ DOMAIN at = 0 .. L
  BY <1>10
<1>14. ASSUME NEW k \in 1 .. L PROVE at[k] = lookup(at[k - 1], path[k])
  <2>1. k \in 0 .. L /\ k # 0
    OBVIOUS
  <2> QED BY <1>10, <2>1
<1>15. \A k \in 0 .. L : at[k] \in LookupResult
  <2>1. ASSUME NEW k \in 0 .. L PROVE at[k] \in LookupResult
    <3>1. CASE k = 0
      BY <1>1, <1>13, <3>1 DEF S
    <3>2. CASE k # 0
      <4>1. k \in 1 .. L
        BY <3>2
      <4>2. at[k] = lookup(at[k - 1], path[k]) /\ path[k] \in NameArg
        BY <1>2, <1>14, <4>1
      <4> QED BY <4>2, LookupIsTyped
    <3> QED BY <3>1, <3>2
  <2> QED BY <2>1
<1>16. at \in [0 .. L -> LookupResult]
  BY <1>10, <1>15
<1>17. ASSUME NEW k \in 1 .. L
       PROVE  IF at[k - 1] \in Inode
              THEN at[k] = IF k = L /\ path[k] = "" THEN at[k - 1] ELSE Lookups[at[k - 1]][path[k]]
              ELSE at[k] \notin Inode
  <2>0. path[k] \in NameArg /\ path[k] # ""
    BY <1>2
  <2>1. k - 1 \in 0 .. L /\ path[k] \in NameArg /\ path[k] # ""
    <3>1. k - 1 \in 0 .. L
      OBVIOUS
    <3> QED BY <2>0, <3>1
  <2>2. at[k] = Lookups[at[k - 1]][path[k]]
    BY <1>14, <1>15, <2>1, LookupsAre
  <2>3. at[k - 1] \notin Inode => at[k] \notin Inode
    <3>1. at[k - 1] \notin Inode => at[k - 1] \notin Directories
      BY DEF Directories
    <3> QED BY <1>14, <2>1, <3>1, LookupIsTyped
  <2> QED BY <2>1, <2>2, <2>3
<1>18. Follows(Lookups, at, path, L)
  BY <1>13, <1>17 DEF Follows
<1> QED BY <1>12, <1>14, <1>16, <1>18

\* A walk that ends in a directory has come from directories only.
LEMMA DirectoriesAbove ==
  ASSUME FInv, NEW path, NEW L \in Nat, \A k \in 1 .. L : path[k] \in Names, NEW at,
         Follows(Lookups, at, path, L), \A k \in 1 .. L : at[k] = lookup(at[k - 1], path[k]),
         NEW c \in 0 .. L, at[c] \notin Directories
  PROVE  at[L] \notin Directories
<1>1. CASE c = L
  BY <1>1
<1>2. CASE c # L
  <2>1. c + 1 \in 1 .. L /\ c + 1 \in 0 .. L /\ (c + 1) - 1 = c
    BY <1>2
  <2>2. path[c + 1] \in NameArg
    BY <2>1 DEF NameArg
  <2>3. at[c + 1] = lookup(at[c], path[c + 1])
    BY <2>1
  <2>4. at[c + 1] \notin Inode
    BY <2>2, <2>3, LookupIsTyped
  <2>5. at[L] \notin Inode
    BY <2>1, <2>4, LostStaysLost
  <2> QED BY <2>5 DEF Directories
<1> QED BY <1>1, <1>2

\* What ds3ls finds for each inode from part k on, given what it finds from
\* the next part on.
LsPart(path, L, k, next) ==
  [i \in Inode |->
     IF k > L \/ path[k] = ""
     THEN [exit |-> 0, out |-> IF k < L THEN {} ELSE ReadEntries(i)]
     ELSE LET subs == {next[j] : j \in Steps(i, path[k])}
          IN [exit |-> Max({s.exit : s \in subs} \cup {IF subs = {} THEN 1 ELSE 0}),
              out |-> UNION {s.out : s \in subs}]]

LEMMA LsPartEnds ==
  ASSUME NEW path, NEW L \in Nat, NEW k \in Nat, k > L, NEW next
  PROVE  LsPart(path, L, k, next) = [i \in Inode |-> [exit |-> 0, out |-> ReadEntries(i)]]
<1>1. k > L /\ ~(k < L)
  OBVIOUS
<1> QED BY <1>1, Zenon DEF LsPart

LEMMA LsIsFromTheEnd ==
  ASSUME NEW path, NEW L \in Nat, Len(path) = L
  PROVE  \E from : /\ \A k \in 1 .. L + 1 : from[k] = LsPart(path, L, k, from[k + 1])
                   /\ ds3ls(path) = from[1][Root]
<1> DEFINE FromEnd(f, m) == /\ f = [k \in L + 1 - m .. L + 1 |-> f[k]]
                         /\ \A k \in L + 1 - m .. L + 1 : f[k] = LsPart(path, L, k, f[k + 1])
           Bad == {m \in Nat : m <= L /\ ~\E f : FromEnd(f, m)}
<1>1. ASSUME Bad # {} PROVE FALSE
  <2>1. PICK m \in Bad : \A j \in Bad : m <= j
    <3>1. Bad \subseteq Nat
      OBVIOUS
    <3> HIDE DEF Bad
    <3> QED BY <1>1, <3>1, MinOfNaturals
  <2>2. m \in Nat /\ m <= L /\ ~\E f : FromEnd(f, m)
    OBVIOUS
  <2>3. PICK h, c : c = L + 1 - m /\ (m # 0 => FromEnd(h, m - 1))
    <3>1. CASE m = 0
      BY <3>1
    <3>2. CASE m # 0
      <4>1. m - 1 \in Nat /\ m - 1 <= L /\ m - 1 \notin Bad
        <5> HIDE DEF Bad
        <5> QED BY <2>1, <2>2, <3>2
      <4> QED BY <4>1
    <3> QED BY <3>1, <3>2
  <2>4. c \in Nat /\ c <= L + 1 /\ (m = 0 => c = L + 1) /\ (m # 0 => c <= L)
    BY <2>2, <2>3
  <2>5. ASSUME NEW k \in c .. L + 1, k # c
        PROVE  m # 0 /\ k \in L + 1 - (m - 1) .. L + 1
    BY <2>2, <2>3, <2>4, <2>5
  <2> DEFINE g == [k \in c .. L + 1 |-> IF k = c THEN LsPart(path, L, c, h[c + 1]) ELSE h[k]]
  <2>6. ASSUME NEW k \in c .. L + 1 PROVE g[k] = LsPart(path, L, k, g[k + 1])
    <3>1. CASE k # L + 1
      <4>1. k + 1 \in c .. L + 1 /\ k + 1 # c
        BY <2>4, <3>1
      <4>2. g[k + 1] = h[k + 1]
        BY <4>1
      <4>3. CASE k = c
        BY <4>2, <4>3
      <4>4. CASE k # c
        <5>1. g[k] = h[k] /\ h[k] = LsPart(path, L, k, h[k + 1])
          BY <2>3, <2>5, <4>4
        <5> QED BY <4>2, <5>1
      <4> QED BY <4>3, <4>4
    <3>2. CASE k = L + 1
      <4>1. LsPart(path, L, k, g[k + 1]) = LsPart(path, L, k, h[k + 1])
        <5>1. L \in Nat /\ k \in Nat /\ k > L
          BY <3>2
        <5>2. \A next : LsPart(path, L, k, next) = [i \in Inode |-> [exit |-> 0, out |-> ReadEntries(i)]]
          <6> HIDE DEF g
          <6> QED BY <5>1, LsPartEnds
        <5> HIDE DEF g
        <5> QED BY <5>2
      <4>2. CASE k = c
        BY <4>1, <4>2
      <4>3. CASE k # c
        <5>1. g[k] = h[k] /\ h[k] = LsPart(path, L, k, h[k + 1])
          BY <2>3, <2>5, <4>3
        <5> QED BY <4>1, <5>1
      <4> QED BY <4>2, <4>3
    <3> QED BY <3>1, <3>2
  <2>7. g = [k \in c .. L + 1 |-> g[k]]
    OBVIOUS
  <2>8. FromEnd(g, m)
    <3> HIDE DEF g
    <3> QED BY <2>3, <2>6, <2>7
  <2> QED BY <2>2, <2>8
<1>2. PICK f : FromEnd(f, L)
  <2>1. L \in Nat /\ L <= L
    OBVIOUS
  <2>2. L \notin Bad
    <3> HIDE DEF Bad
    <3> QED BY <1>1
  <2> QED BY <2>1, <2>2
<1>3. /\ f = [k \in 1 .. L + 1 |-> f[k]]
      /\ \A k \in 1 .. L + 1 : f[k] = LsPart(path, L, k, f[k + 1])
  <2>1. L + 1 - L = 1
    OBVIOUS
  <2> QED BY <1>2, <2>1
<1>4. f = [k \in 1 .. L + 1 |-> LsPart(path, L, k, f[k + 1])]
  BY <1>3
<1> DEFINE from == CHOOSE h : h = [k \in 1 .. L + 1 |-> LsPart(path, L, k, h[k + 1])]
<1>5. from = [k \in 1 .. L + 1 |-> LsPart(path, L, k, from[k + 1])]
  BY <1>4, Zenon
<1>6. \A k \in 1 .. L + 1 : from[k] = LsPart(path, L, k, from[k + 1])
  <2> HIDE DEF from
  <2> QED BY <1>5
<1>7. ds3ls(path) = from[1][Root]
  <2>1. ds3ls(path) = (CHOOSE h : h = [k \in 1 .. Len(path) + 1 |->
           LsPart(path, Len(path), k, h[k + 1])])[1][Root]
    BY Zenon DEF ds3ls, LsPart
  <2> QED BY <2>1, Zenon
<1> HIDE DEF from
<1> QED BY <1>6, <1>7

\* A directory reads as its entries, and each is what lookup finds.
LEMMA DirectoryReads ==
  ASSUME FInv, NEW p \in Directories
  PROVE  /\ \A e : e \in ReadEntries(p) <=> \E k \in Used(p) : e = EntryAt(p, k)
         /\ \A e \in ReadEntries(p) :
              /\ e = Entry(e.name, e.inum)
              /\ e.name \in Names \cup {".", ".."}
              /\ e.inum \in inodeBitmap /\ e.inum >= 0
              /\ lookup(p, e.name) = e.inum
         /\ \A n \in Names \cup {".", ".."} :
              lookup(p, n) >= 0 => Entry(n, lookup(p, n)) \in ReadEntries(p)
<1>0. TInv /\ IInv /\ TypeOK
  BY DEF FInv, TInv, IInv
<1>1. p \in inodeBitmap /\ p \in Inode
  BY <1>0, DenseDirectory
<1>2. ReadCells(p, inodes[p].size) = [k \in Used(p) |-> EntryAt(p, k)]
  BY <1>0, <1>1, ReadIsRight DEF ReadsAll, Used
<1>3. \A e : e \in Range(ReadCells(p, inodes[p].size)) <=> \E k \in Used(p) : e = EntryAt(p, k)
  BY <1>2 DEF Range
<1>4. ASSUME NEW k \in Used(p)
      PROVE  /\ EntryAt(p, k) = Entry(EntryAt(p, k).name, EntryAt(p, k).inum)
             /\ EntryAt(p, k).name \in Names \cup {".", ".."}
             /\ EntryAt(p, k).name # ""
             /\ EntryAt(p, k).inum \in inodeBitmap /\ EntryAt(p, k).inum >= 0
             /\ lookup(p, EntryAt(p, k).name) = EntryAt(p, k).inum
  <2>1. k \in Positions(p) /\ EntryAt(p, k).inum \in inodeBitmap
    BY <1>0, DenseDirectory
  <2>2. EntryAt(p, k) \in Cell
    BY <1>0, <1>1, <2>1, PositionIsTyped
  <2>3. EntryAt(p, k) = Entry(EntryAt(p, k).name, EntryAt(p, k).inum)
    BY <2>2 DEF Cell, Entry
  <2>4. EntryAt(p, k).name \in Names \cup {".", ".."}
    <3>1. k \in Nat
      BY <1>0, DenseDirectory
    <3>2. EntryAt(p, 0).name = "." /\ EntryAt(p, 1).name = ".."
      BY <1>0, DenseDirectory, EntryFields
    <3>3. k >= 2 => EntryAt(p, k).name \in Names
      BY DEF FInv, NamesAreGiven
    <3>4. k = 0 \/ k = 1 \/ k >= 2
      BY <3>1
    <3> QED BY <3>2, <3>3, <3>4
  <2>5. EntryAt(p, k).name # "" /\ EntryAt(p, k).name \in NameArg
    BY <2>4, NamesAssumption DEF NameArg
  <2>6. lookup(p, EntryAt(p, k).name) = EntryAt(p, k).inum
    BY <1>0, <2>5, LookupIsRight DEF LookupFinds
  <2>7. EntryAt(p, k).inum >= 0
    <3>1. EntryAt(p, k).inum \in Inode
      BY <1>0, <2>1 DEF TypeOK
    <3>2. \A i \in Inode : i >= 0
      BY SizesAssumption DEF Inode
    <3> QED BY <3>1, <3>2
  <2> QED BY <2>1, <2>3, <2>4, <2>5, <2>6, <2>7
<1>5. \A e : e \in ReadEntries(p) <=> \E k \in Used(p) : e = EntryAt(p, k)
  BY <1>3, <1>4 DEF ReadEntries
<1>6. ASSUME NEW n \in Names \cup {".", ".."}, lookup(p, n) >= 0
      PROVE  Entry(n, lookup(p, n)) \in ReadEntries(p)
  <2>1. n \in NameArg
    BY DEF NameArg
  <2>2. Holds(p, n)
    <3>1. lookup(p, n) # -ENOTFOUND
      BY <1>6 DEF ENOTFOUND
    <3> QED BY <1>0, <2>1, <3>1, LookupIsRight DEF LookupFinds
  <2>3. PICK k \in Used(p) : EntryAt(p, k).name = n
    BY <2>2 DEF Holds
  <2>4. EntryAt(p, k) = Entry(n, lookup(p, n))
    BY <1>4, <2>3
  <2> QED BY <1>5, <2>4
<1> QED BY <1>4, <1>5, <1>6

\* ds3ls goes on in the directory that lookup finds, if it finds one.
LEMMA StepsLookup ==
  ASSUME FInv, NEW p \in Directories, NEW n \in Names
  PROVE  \A j : j \in Steps(p, n) <=> j = lookup(p, n) /\ j \in Directories
<1>1. /\ \A e \in ReadEntries(p) : lookup(p, e.name) = e.inum
      /\ \A m \in Names \cup {".", ".."} :
           lookup(p, m) >= 0 => Entry(m, lookup(p, m)) \in ReadEntries(p)
  BY DirectoryReads
<1>2. n \notin {".", ".."}
  BY NamesAssumption
<1>3. ASSUME NEW j \in Steps(p, n) PROVE j = lookup(p, n) /\ j \in Directories
  <2>1. PICK e \in ReadEntries(p) : e.name = n /\ IsDirectory(e.inum) /\ j = e.inum
    BY <1>3 DEF Steps
  <2> QED BY <1>1, <2>1 DEF Directories, IsDirectory, Allocated
<1>4. ASSUME NEW j, j = lookup(p, n), j \in Directories PROVE j \in Steps(p, n)
  <2>1. j >= 0 /\ IsDirectory(j)
    BY <1>4 DEF Directories, Inode
  <2>2. Entry(n, j) \in ReadEntries(p)
    BY <1>1, <1>4, <2>1
  <2>3. PICK e : e = Entry(n, j)
    OBVIOUS
  <2>4. e.name = n /\ e.inum = j
    BY <2>3, EntryFields
  <2> QED BY <1>2, <2>1, <2>2, <2>3, <2>4 DEF Steps
<1> QED BY <1>3, <1>4

\* What ds3ls answers for a path: the entries of the directory that lookup
\* finds, or failure.
LsAnswer(i) ==
  IF i \in Directories THEN [exit |-> 0, out |-> ReadEntries(i)] ELSE [exit |-> 1, out |-> {}]

LEMMA LsAnswers ==
  ASSUME FInv, NEW path, NEW L \in Nat, Len(path) = L, \A k \in 1 .. L : path[k] \in Names
  PROVE  ds3ls(path) = LsAnswer(Found(path))
<1>1. PICK at : /\ Follows(Lookups, at, path, L) /\ Found(path) = at[L]
                /\ \A k \in 1 .. L : at[k] = lookup(at[k - 1], path[k])
  BY FoundFollows
<1>2. PICK from : /\ \A k \in 1 .. L + 1 : from[k] = LsPart(path, L, k, from[k + 1])
                  /\ ds3ls(path) = from[1][Root]
  BY LsIsFromTheEnd
<1> DEFINE Bad == {m \in Nat : /\ m <= L /\ at[L - m] \in Directories
                               /\ from[L + 1 - m][at[L - m]] # LsAnswer(at[L])}
<1>3. ASSUME Bad # {} PROVE FALSE
  <2>1. PICK m \in Bad : \A j \in Bad : m <= j
    <3>1. Bad \subseteq Nat
      OBVIOUS
    <3> HIDE DEF Bad
    <3> QED BY <1>3, <3>1, MinOfNaturals
  <2>2. PICK k, p, q : k = L + 1 - m /\ p = at[L - m] /\ q = at[k]
    OBVIOUS
  <2>3. /\ m \in Nat /\ m <= L /\ k \in 1 .. L + 1 /\ k - 1 = L - m /\ at[k - 1] = p
        /\ p \in Directories /\ p \in Inode /\ from[k][p] # LsAnswer(at[L])
    BY <2>2 DEF Directories
  <2>4. from[k] = LsPart(path, L, k, from[k + 1])
    BY <1>2, <2>3
  <2>5. CASE m = 0
    <3>1. k = L + 1 /\ k \in Nat /\ k > L /\ p = at[L]
      BY <2>2, <2>3, <2>5
    <3>2. \A next : LsPart(path, L, k, next) = [i \in Inode |-> [exit |-> 0, out |-> ReadEntries(i)]]
      BY <3>1, LsPartEnds
    <3>3. from[k][p] = [exit |-> 0, out |-> ReadEntries(p)]
      BY <2>3, <2>4, <3>2
    <3> QED BY <2>3, <3>1, <3>3 DEF LsAnswer
  <2>6. CASE m # 0
    <3>1. m - 1 \in Nat /\ m - 1 <= L /\ k \in 1 .. L
          /\ L - (m - 1) = k /\ L + 1 - (m - 1) = k + 1 /\ k \in 0 .. L
      BY <2>2, <2>3, <2>6
    <3>2. m - 1 \notin Bad
      <4> HIDE DEF Bad
      <4> QED BY <2>1, <2>3, <3>1
    <3>3. q \in Directories => from[k + 1][q] = LsAnswer(at[L])
      BY <2>2, <3>1, <3>2
    <3>4. q = lookup(p, path[k]) /\ path[k] \in Names
      BY <1>1, <2>2, <2>3, <3>1
    <3>5. \A j : j \in Steps(p, path[k]) <=> j = q /\ q \in Directories
      BY <2>3, <3>4, StepsLookup
    <3>6. PICK subs : subs = {from[k + 1][j] : j \in Steps(p, path[k])}
      OBVIOUS
    <3>7. ~(k > L) /\ path[k] # ""
      <4>1. ~(k > L)
        BY <3>1
      <4>2. path[k] # ""
        BY <3>4, NamesAssumption
      <4> QED BY <4>1, <4>2
    <3>8. from[k][p] = [exit |-> Max({s.exit : s \in subs} \cup {IF subs = {} THEN 1 ELSE 0}),
                        out |-> UNION {s.out : s \in subs}]
      BY <2>3, <2>4, <3>6, <3>7, Zenon DEF LsPart
    <3>9. CASE q \in Directories
      <4>1. subs = {LsAnswer(at[L])}
        BY <3>3, <3>5, <3>6, <3>9
      <4>2. PICK e, o : LsAnswer(at[L]) = [exit |-> e, out |-> o] /\ e \in {0, 1}
        BY DEF LsAnswer
      <4>3. {s.exit : s \in subs} \cup {IF subs = {} THEN 1 ELSE 0} = {e, 0}
        BY <4>1, <4>2
      <4>4. UNION {s.out : s \in subs} = o
        BY <4>1, <4>2
      <4>5. Max({e, 0}) = e
        BY <4>2 DEF Max
      <4> QED BY <2>3, <3>8, <4>2, <4>3, <4>4, <4>5
    <3>10. CASE q \notin Directories
      <4>1. subs = {}
        BY <3>5, <3>6, <3>10
      <4>2. /\ {s.exit : s \in subs} \cup {IF subs = {} THEN 1 ELSE 0} = {1}
            /\ UNION {s.out : s \in subs} = {}
        BY <4>1
      <4>3. Max({1}) = 1
        BY DEF Max
      <4>4. at[L] \notin Directories
        BY <1>1, <2>2, <3>1, <3>10, DirectoriesAbove
      <4> QED BY <2>3, <3>8, <4>2, <4>3, <4>4 DEF LsAnswer
    <3> QED BY <3>9, <3>10
  <2> QED BY <2>5, <2>6
<1>4. L \notin Bad
  <2> HIDE DEF Bad
  <2> QED BY <1>3
<1>5. at[0] = Root /\ Root \in Directories
  BY <1>1 DEF Follows, FInv, TInv, RootIsAbove
<1>6. L <= L /\ L - L = 0 /\ L + 1 - L = 1
  OBVIOUS
<1> QED BY <1>1, <1>2, <1>4, <1>5, <1>6

LEMMA NamePathsAre ==
  ASSUME NEW path \in NamePaths
  PROVE  \E L \in Nat : /\ L <= NumInodes - 1 /\ Len(path) = L
                        /\ \A k \in 1 .. L : path[k] \in Names
<1>1. PICK d \in 0 .. NumInodes - 1 : path \in [1 .. d -> Names]
  BY DEF NamePaths
<1>2. d \in Nat /\ d <= NumInodes - 1
  BY SizesAssumption
<1>3. path \in Seq(Names)
  BY <1>1, <1>2
<1>4. Len(path) \in Nat /\ DOMAIN path = 1 .. Len(path)
  BY <1>3, LenProperties
<1>5. Len(path) = d
  BY <1>1, <1>2, <1>4
<1> QED BY <1>1, <1>2, <1>5

LEMMA LsFindsWhatLookupFinds == FInv => LsAgreesWithLookup
<1> SUFFICES ASSUME FInv, NEW path \in NamePaths
             PROVE  LET i == Found(path)
                        there == {n \in Names \cup {".", ".."} : lookup(i, n) >= 0}
                    IN /\ ds3ls(path).exit = 0 <=> IsDirectory(i)
                       /\ IsDirectory(i) => ds3ls(path).out = {Entry(n, lookup(i, n)) : n \in there}
  BY DEF LsAgreesWithLookup
<1>1. PICK L \in Nat : Len(path) = L /\ \A k \in 1 .. L : path[k] \in Names
  BY NamePathsAre
<1>2. PICK i : i = Found(path)
  OBVIOUS
<1>3. ds3ls(path) = LsAnswer(i)
  BY <1>1, <1>2, LsAnswers
<1>4. IsDirectory(i) <=> i \in Directories
  BY DEF Directories, IsDirectory, Allocated
<1>5. ds3ls(path).exit = 0 <=> IsDirectory(i)
  BY <1>3, <1>4 DEF LsAnswer
<1>6. ASSUME i \in Directories
      PROVE  ds3ls(path).out = {Entry(n, lookup(i, n)) : n \in {n \in Names \cup {".", ".."} : lookup(i, n) >= 0}}
  <2>1. ds3ls(path).out = ReadEntries(i)
    BY <1>3, <1>6 DEF LsAnswer
  <2>2. /\ \A e \in ReadEntries(i) :
              /\ e = Entry(e.name, e.inum)
              /\ e.name \in Names \cup {".", ".."}
              /\ e.inum >= 0
              /\ lookup(i, e.name) = e.inum
        /\ \A n \in Names \cup {".", ".."} :
              lookup(i, n) >= 0 => Entry(n, lookup(i, n)) \in ReadEntries(i)
    BY <1>6, DirectoryReads
  <2>3. ReadEntries(i) = {Entry(n, lookup(i, n)) : n \in {n \in Names \cup {".", ".."} : lookup(i, n) >= 0}}
    BY <2>2
  <2> QED BY <2>1, <2>3
<1> QED BY <1>2, <1>4, <1>5, <1>6

\* Each directory is found by a path of fewer names than there are inodes.
LEMMA DirectoryIsFound ==
  ASSUME FInv, NEW p \in Directories
  PROVE  \E path \in NamePaths : ds3ls(path).out = ReadEntries(p)
<1>0. p \in inodeBitmap
  BY DenseDirectory DEF FInv
<1>1. Reached(Lookups, p)
  BY <1>0, AllAreReached
<1>2. PICK d \in Nat : \E P \in [1 .. d -> Names] : \E f : Trail(Lookups, f, P, d) /\ f[d] = p
  BY <1>1 DEF Reached
<1>3. PICK P \in [1 .. d -> Names] : \E f : Trail(Lookups, f, P, d) /\ f[d] = p
  BY <1>2
<1>4. PICK f : Trail(Lookups, f, P, d) /\ f[d] = p
  BY <1>3
<1>5. d <= NumInodes - 1
  BY <1>4, DirectoriesFormATree, TrailIsShort DEF NamesFormATree
<1>6. P \in NamePaths
  <2>1. d \in 0 .. NumInodes - 1
    BY <1>5, SizesAssumption
  <2> QED BY <2>1 DEF NamePaths
<1>7. Len(P) = d /\ \A k \in 1 .. d : P[k] \in Names
  <2>1. P \in Seq(Names)
    OBVIOUS
  <2>2. Len(P) \in Nat /\ DOMAIN P = 1 .. Len(P)
    BY <2>1, LenProperties
  <2> QED BY <2>2
<1>8. ds3ls(P) = LsAnswer(Found(P))
  BY <1>7, LsAnswers
<1>9. PICK at : Follows(Lookups, at, P, d) /\ Found(P) = at[d]
  BY <1>7, FoundFollows
<1>10. Found(P) = p
  <2>1. at[d] = f[d]
    <3>1. d \in Nat /\ Trail(Lookups, f, P, d) /\ Follows(Lookups, at, P, d)
      BY <1>4, <1>9
    <3> QED BY ONLY <3>1, TrailIsFollowed
  <2> QED BY <1>4, <1>9, <2>1
<1>11. ds3ls(P).out = ReadEntries(p)
  BY <1>8, <1>10 DEF LsAnswer
<1> QED BY <1>6, <1>11

LEMMA EveryInodeIsPrinted ==
  ASSUME FInv
  PROVE  UNION {{e.inum : e \in ds3ls(path).out} : path \in NamePaths} = inodeBitmap
<1>0. TInv
  BY DEF FInv
<1>1. ASSUME NEW path \in NamePaths, NEW e \in ds3ls(path).out
      PROVE  e.inum \in inodeBitmap
  <2>1. PICK L \in Nat : Len(path) = L /\ \A k \in 1 .. L : path[k] \in Names
    BY NamePathsAre
  <2>2. PICK i : i = Found(path)
    OBVIOUS
  <2>3. ds3ls(path) = LsAnswer(i)
    BY <2>1, <2>2, LsAnswers
  <2>4. i \in Directories /\ e \in ReadEntries(i)
    BY <1>1, <2>3 DEF LsAnswer
  <2> QED BY <2>4, DirectoryReads
<1>2. ASSUME NEW j \in inodeBitmap
      PROVE  \E path \in NamePaths : \E e \in ds3ls(path).out : e.inum = j
  <2>1. PICK p \in Directories : \E k \in Used(p) : EntryAt(p, k).inum = j
    <3>1. CASE j \in Directories
      BY <1>0, <3>1, DenseDirectory
    <3>2. CASE j \notin Directories
      <4>1. j # Root
        BY <1>0, <3>2 DEF TInv, RootIsAbove
      <4> QED BY <1>0, <1>2, <4>1 DEF TInv, AllAreNamed, Named
    <3> QED BY <3>1, <3>2
  <2>2. PICK e \in ReadEntries(p) : e.inum = j
    BY <2>1, DirectoryReads
  <2>3. PICK path \in NamePaths : ds3ls(path).out = ReadEntries(p)
    BY DirectoryIsFound
  <2> QED BY <2>2, <2>3
<1> QED BY <1>1, <1>2

LEMMA ReadersTellOneStory == FInv => ReadersAgree
<1> SUFFICES ASSUME FInv PROVE ReadersAgree
  OBVIOUS
<1> DEFINE files == {i \in Inode : ds3cat(i).exit = 0}
<1>0. IInv
  BY DEF FInv, TInv
<1>1. UNION {{e.inum : e \in ds3ls(path).out} : path \in NamePaths} = inodeBitmap
  BY EveryInodeIsPrinted
<1>2. ASSUME NEW i \in files, NEW x \in DOMAIN ds3cat(i).blocks
      PROVE  /\ i \in inodeBitmap /\ x \in Nat /\ x < Blocks(inodes[i].size)
             /\ ds3cat(i).blocks[x] = inodes[i].direct[x]
             /\ inodes[i].direct[x] \in dataBitmap
  <2>1. i \in Inode /\ CatWorks(i) /\ ds3cat(i) = Cat(i)
    BY <1>0, CatOfFile DEF CatIsSeen
  <2>2. ds3cat(i).blocks = [y \in 0 .. Blocks(inodes[i].size) - 1 |-> inodes[i].direct[y]]
    BY <2>1 DEF Cat
  <2>3. i \in inodeBitmap
    BY <2>1 DEF CatWorks
  <2>4. inodes[i].size \in Nat
    BY <1>0, <2>1 DEF IInv, TypeOK, InodeRecord
  <2>5. Blocks(inodes[i].size) \in Nat
    BY <2>4, BlocksBound
  <2>6. x \in 0 .. Blocks(inodes[i].size) - 1
    BY <2>2
  <2>7. x \in Nat /\ x < Blocks(inodes[i].size)
    BY <2>5, <2>6
  <2> QED BY <1>0, <2>2, <2>3, <2>6, <2>7, OwnedPointer
<1>3. ASSUME NEW i \in files, NEW x \in DOMAIN ds3cat(i).blocks,
             NEW j \in files, NEW y \in DOMAIN ds3cat(j).blocks,
             ds3cat(j).blocks[y] = ds3cat(i).blocks[x]
      PROVE  j = i /\ y = x
  <2>1. /\ i \in inodeBitmap /\ x \in Nat /\ x < Blocks(inodes[i].size)
        /\ ds3cat(i).blocks[x] = inodes[i].direct[x]
    BY <1>2
  <2>2. /\ j \in inodeBitmap /\ y \in Nat /\ y < Blocks(inodes[j].size)
        /\ ds3cat(j).blocks[y] = inodes[j].direct[y]
    BY <1>2
  <2> QED BY <1>0, <1>3, <2>1, <2>2, BlocksDiffer
<1> HIDE DEF files
<1>4. \A i \in files : \A x \in DOMAIN ds3cat(i).blocks :
        LET b == ds3cat(i).blocks[x]
        IN /\ b \in InWholeBytes(NumData) => b \in ds3bits(dataBitmap, NumData)
           /\ \A j \in files : \A y \in DOMAIN ds3cat(j).blocks :
                ds3cat(j).blocks[y] = b => j = i /\ y = x
  BY <1>2, <1>3 DEF ds3bits
<1> QED BY <1>1, <1>4, Zenon DEF ReadersAgree, files

LEMMA CallsKeepFInv == Spec => []FInv
  BY InitGivesFInv, NextKeepsFInv, PTL DEF Spec

\* In each image the utilities can make, ds3ls and lookup find the same
\* directories and the same names in them, to any depth.
THEOREM LsFindsAll == Ds3Spec => []LsAgreesWithLookup
  BY UtilitiesUseTheFileSystem, CallsKeepFInv, LsFindsWhatLookupFinds, PTL

\* And ds3ls, ds3cat and ds3bits show one state: every inode in use is below
\* some path, and every block of a file is set and printed once.
THEOREM ReadersTellTheTruth == Ds3Spec => []ReadersAgree
  BY UtilitiesUseTheFileSystem, CallsKeepFInv, ReadersTellOneStory, PTL
-----------------------------------------------------------------------------
(* Lookups and the tree that is seen.                                      *)

\* The names that lead on from a directory, with what they lead to.
EntriesOf(lk, r) == [n \in {m \in Names : lk[r][m] \in Inode} |-> lk[r][n]]

\* The tree T has the directories D, with the entries that lk finds.
Shows(T, lk, D) ==
  /\ DOMAIN T = Inode
  /\ \A r \in D : T[r] = [kind |-> "directory", parent |-> lk[r][".."], entries |-> EntriesOf(lk, r)]
  /\ \A r \in Inode \ D : T[r] = [kind |-> "free"] \/ \E c : T[r] = [kind |-> "file", content |-> c]

TreeShowsLookups == Shows(SeenTree, Lookups, Directories)

LEMMA SeenTreeShowsLookups == FInv => TreeShowsLookups
<1> SUFFICES ASSUME FInv PROVE Shows(SeenTree, Lookups, Directories)
  BY DEF TreeShowsLookups
<1>0. /\ Lookups \in [LookupResult -> [NameArg -> LookupResult]]
      /\ \A r \in LookupResult, n \in NameArg : Lookups[r][n] = lookup(r, n)
      /\ Directories \subseteq LookupResult
  BY LookupsAre
<1>1. Directories \subseteq Inode /\ Names \subseteq NameArg /\ ".." \in NameArg
  BY DEF Directories, NameArg
<1>2. DOMAIN SeenTree = Inode /\ \A r \in Inode : SeenTree[r] = SeenNode(r)
  BY DEF SeenTree
<1>3. ASSUME NEW r \in Directories
      PROVE  SeenTree[r] = [kind |-> "directory", parent |-> Lookups[r][".."],
                            entries |-> EntriesOf(Lookups, r)]
  <2>1. IsDirectory(r) /\ Allocated(r)
    BY DEF Directories, IsDirectory, Allocated
  <2>2. lookup(r, "..") = Lookups[r][".."]
    BY <1>0, <1>1
  <2>3. \A m \in Names : lookup(r, m) = Lookups[r][m] /\ (lookup(r, m) >= 0 <=> lookup(r, m) \in Inode)
    <3>1. ASSUME NEW m \in Names PROVE lookup(r, m) = Lookups[r][m] /\ lookup(r, m) \in LookupResult
      BY <1>0, <1>1
    <3>2. \A x \in LookupResult : x >= 0 <=> x \in Inode
      BY FailuresAreNoInodes, SizesAssumption DEF LookupResult, Inode
    <3> QED BY <3>1, <3>2
  <2>4. {m \in Names : lookup(r, m) >= 0} = {m \in Names : Lookups[r][m] \in Inode}
    BY <2>3
  <2>5. [n \in {m \in Names : lookup(r, m) >= 0} |-> lookup(r, n)] = EntriesOf(Lookups, r)
    BY <2>3, <2>4 DEF EntriesOf
  <2>6. SeenNode(r) = [kind |-> "directory", parent |-> lookup(r, ".."),
          entries |-> [n \in {m \in Names : lookup(r, m) >= 0} |-> lookup(r, n)]]
    BY <2>1, Zenon DEF SeenNode
  <2> QED BY <1>1, <1>2, <2>2, <2>5, <2>6
<1>4. ASSUME NEW r \in Inode \ Directories
      PROVE  SeenTree[r] = [kind |-> "free"] \/ \E c : SeenTree[r] = [kind |-> "file", content |-> c]
  <2>1. ~IsDirectory(r)
    BY DEF Directories, IsDirectory, Allocated
  <2>2. SeenNode(r) = [kind |-> "free"] \/ SeenNode(r) = [kind |-> "file", content |-> ReadCells(r, inodes[r].size)]
    BY <2>1, Zenon DEF SeenNode
  <2> QED BY <1>2, <2>2
<1> QED BY <1>2, <1>3, <1>4, Zenon DEF Shows

\* The children of a directory are its entries.
LEMMA ChildrenAreEntries ==
  ASSUME NEW T, NEW lk, NEW D, Shows(T, lk, D), TreeOfNames(lk, D)
  PROVE  /\ \A r \in D : /\ T[r].kind = "directory" /\ T[r].parent = lk[r][".."]
                         /\ DOMAIN T[r].entries = {m \in Names : lk[r][m] \in Inode}
                         /\ \A m \in DOMAIN T[r].entries : T[r].entries[m] = lk[r][m]
         /\ \A r, m, x : Child(lk, r, m, x) <=> /\ r \in D /\ m \in DOMAIN T[r].entries
                                                /\ x = T[r].entries[m]
<1>1. ASSUME NEW r \in D
      PROVE  /\ T[r].kind = "directory" /\ T[r].parent = lk[r][".."]
             /\ DOMAIN T[r].entries = {m \in Names : lk[r][m] \in Inode}
             /\ \A m \in DOMAIN T[r].entries : T[r].entries[m] = lk[r][m]
  <2>1. T[r] = [kind |-> "directory", parent |-> lk[r][".."], entries |-> EntriesOf(lk, r)]
    BY DEF Shows
  <2>2. T[r].kind = "directory" /\ T[r].parent = lk[r][".."] /\ T[r].entries = EntriesOf(lk, r)
    BY <2>1
  <2> QED BY <2>2 DEF EntriesOf
<1>2. D \subseteq Inode /\ Names \subseteq NameArg /\ Inode \subseteq LookupResult
  BY DEF TreeOfNames, NameArg, LookupResult
<1>3. \A r \in LookupResult, n \in NameArg : lk[r][n] \in Inode => r \in D
  BY DEF TreeOfNames
<1>4. ASSUME NEW r, NEW m, NEW x
      PROVE  Child(lk, r, m, x) <=> r \in D /\ m \in DOMAIN T[r].entries /\ x = T[r].entries[m]
  BY <1>1, <1>2, <1>3 DEF Child
<1> QED BY <1>1, <1>4

-----------------------------------------------------------------------------
(* What the calls do to lookups and files.                                 *)

Files(T) == {j \in Inode : T[j].kind = "file"}

\* No file but those in A appears, changes or goes.
FilesKept(T, T2, A) ==
  /\ Files(T2) \subseteq Files(T) \cup A
  /\ \A j \in Files(T) \ A : j \in Files(T2) /\ T2[j] = T[j]

\* Inode i is new, below p, and nothing is lost.
Grown(lk, lk2, p, n, i) ==
  /\ \A r \in LookupResult, m \in NameArg : lk[r][m] \in Inode => lk2[r][m] = lk[r][m]
  /\ Child(lk2, p, n, i)
  /\ \A r, m, x : Child(lk2, r, m, x) => r # i /\ (x # i => Child(lk, r, m, x))

\* Inode t, with nothing below it, is not below p any more, and nothing else
\* is lost.
Shrunk(lk, lk2, p, n, t) ==
  /\ Child(lk, p, n, t)
  /\ \A m, x : ~Child(lk, t, m, x) /\ ~Child(lk2, p, n, x)
  /\ \A r, m, x : Child(lk2, r, m, x) => Child(lk, r, m, x)
  /\ \A r, m, x : Child(lk, r, m, x) => x = t \/ Child(lk2, r, m, x)

\* Names lead where they led.
NamesKept(lk, lk2) ==
  /\ \A r \in LookupResult, m \in NameArg : lk[r][m] \in Inode => lk2[r][m] = lk[r][m]
  /\ \A r, m, x : Child(lk2, r, m, x) <=> Child(lk, r, m, x)

LEMMA ValuesSeen ==
  ASSUME FInv
  PROVE  \E T, lk, D : /\ T = SeenTree /\ lk = Lookups /\ D = Directories
                       /\ Shows(T, lk, D) /\ TreeOfNames(lk, D)
  BY SeenTreeShowsLookups, DirectoriesFormATree DEF TreeShowsLookups, NamesFormATree

LEMMA ValuesSeenNext ==
  ASSUME FInv'
  PROVE  \E T, lk, D : /\ T = SeenTree' /\ lk = Lookups' /\ D = Directories'
                       /\ Shows(T, lk, D) /\ TreeOfNames(lk, D)
<1>1. FInv' => TreeShowsLookups' /\ NamesFormATree'
  BY SeenTreeShowsLookups, DirectoriesFormATree, PTL
<1>2. Shows(SeenTree', Lookups', Directories') /\ TreeOfNames(Lookups', Directories')
  BY <1>1, Zenon DEF TreeShowsLookups, NamesFormATree
<1> QED BY <1>2

\* Directories and files are told apart by their kind.
LEMMA KindsShown ==
  ASSUME NEW T, NEW lk, NEW D, Shows(T, lk, D), TreeOfNames(lk, D)
  PROVE  /\ D \subseteq Inode /\ DOMAIN T = Inode
         /\ \A r \in Inode : r \in D <=> T[r].kind = "directory"
<1>1. D \subseteq Inode /\ DOMAIN T = Inode
  BY DEF Shows, TreeOfNames
<1>2. ASSUME NEW r \in D PROVE T[r].kind = "directory"
  <2>1. T[r] = [kind |-> "directory", parent |-> lk[r][".."], entries |-> EntriesOf(lk, r)]
    BY DEF Shows
  <2> QED BY <2>1
<1>3. \A r \in Inode \ D : T[r].kind # "directory"
  BY DEF Shows
<1> QED BY <1>1, <1>2, <1>3

\* A tree with one more node.
WithNode(T, p, n, i, new) ==
  [T EXCEPT ![p].entries = [m \in DOMAIN @ \cup {n} |-> IF m = n THEN i ELSE @[m]], ![i] = new]

EmptyNode(p, new) ==
  \/ new = [kind |-> "file", content |-> [x \in {} |-> x]]
  \/ new = [kind |-> "directory", parent |-> p, entries |-> [x \in {} |-> x]]

LEMMA MakeGrows ==
  ASSUME NEW T, NEW lk, NEW D, Shows(T, lk, D), TreeOfNames(lk, D),
         NEW T2, NEW lk2, NEW D2, Shows(T2, lk2, D2), TreeOfNames(lk2, D2),
         NEW p \in D, NEW n \in Names, n \notin DOMAIN T[p].entries,
         NEW i \in Inode, T[i] = [kind |-> "free"],
         NEW new, EmptyNode(p, new),
         T2 = WithNode(T, p, n, i, new)
  PROVE  Grown(lk, lk2, p, n, i) /\ FilesKept(T, T2, {i}) /\ T2[i] = new
<1>1. /\ \A r \in D : /\ T[r].kind = "directory" /\ T[r].parent = lk[r][".."]
                      /\ DOMAIN T[r].entries = {m \in Names : lk[r][m] \in Inode}
                      /\ \A m \in DOMAIN T[r].entries : T[r].entries[m] = lk[r][m]
      /\ \A r, m, x : Child(lk, r, m, x) <=> /\ r \in D /\ m \in DOMAIN T[r].entries
                                             /\ x = T[r].entries[m]
  BY ChildrenAreEntries
<1>2. /\ \A r \in D2 : /\ T2[r].kind = "directory" /\ T2[r].parent = lk2[r][".."]
                       /\ DOMAIN T2[r].entries = {m \in Names : lk2[r][m] \in Inode}
                       /\ \A m \in DOMAIN T2[r].entries : T2[r].entries[m] = lk2[r][m]
      /\ \A r, m, x : Child(lk2, r, m, x) <=> /\ r \in D2 /\ m \in DOMAIN T2[r].entries
                                              /\ x = T2[r].entries[m]
  BY ChildrenAreEntries
<1>3. /\ D \subseteq Inode /\ D2 \subseteq Inode /\ DOMAIN T = Inode /\ DOMAIN T2 = Inode
      /\ \A r \in Inode : (r \in D <=> T[r].kind = "directory") /\ (r \in D2 <=> T2[r].kind = "directory")
  BY KindsShown
<1>4. T[p].kind = "directory" /\ T[i].kind = "free" /\ p \in Inode /\ p # i
  <2>1. T[i].kind = "free" /\ T[p].kind = "directory"
    BY <1>1
  <2> QED BY <1>3, <2>1
<1> DEFINE F == [m \in DOMAIN T[p].entries \cup {n} |-> IF m = n THEN i ELSE T[p].entries[m]]
<1>5. T2[i] = new /\ \A j \in Inode \ {p, i} : T2[j] = T[j]
  BY <1>3, <1>4 DEF WithNode
<1>6. T2[p].kind = "directory" /\ T2[p].parent = T[p].parent /\ T2[p].entries = F
  <2>1. T[p] = [kind |-> "directory", parent |-> lk[p][".."], entries |-> EntriesOf(lk, p)]
    BY DEF Shows
  <2>2. T2[p] = [T[p] EXCEPT !.entries = F]
    BY <1>3, <1>4 DEF WithNode
  <2> HIDE DEF F
  <2>3. [T[p] EXCEPT !.entries = F]
          = [kind |-> "directory", parent |-> lk[p][".."], entries |-> F]
    BY <2>1
  <2> QED BY <1>1, <2>2, <2>3
<1>7. DOMAIN F = DOMAIN T[p].entries \cup {n} /\ F[n] = i
      /\ \A m \in DOMAIN T[p].entries : F[m] = T[p].entries[m]
  OBVIOUS
<1> HIDE DEF F
<1>8. p \in D2 /\ \A j \in Inode \ {i} : j \in D2 <=> j \in D
  BY <1>3, <1>4, <1>5, <1>6
<1>9. i \in D2 => DOMAIN T2[i].entries = {}
  <2>1. CASE new = [kind |-> "file", content |-> [x \in {} |-> x]]
    <3>1. T2[i].kind = "file"
      BY <1>5, <2>1
    <3> QED BY <1>3, <3>1
  <2>2. CASE new = [kind |-> "directory", parent |-> p, entries |-> [x \in {} |-> x]]
    <3>1. T2[i].entries = [x \in {} |-> x]
      BY <1>5, <2>2
    <3> QED BY <3>1
  <2> QED BY <2>1, <2>2 DEF EmptyNode
<1>10. ASSUME NEW r \in LookupResult, NEW m \in NameArg, lk[r][m] \in Inode
       PROVE  lk2[r][m] = lk[r][m]
  <2>1. r \in D /\ m \in Names \cup {".", ".."}
    BY <1>10 DEF TreeOfNames
  <2>2. r \in D2 /\ r # i
    BY <1>3, <1>4, <1>8, <2>1
  <2>3. CASE m = "."
    BY <2>1, <2>2, <2>3 DEF TreeOfNames
  <2>4. CASE m = ".."
    <3>1. T2[r].parent = T[r].parent
      BY <1>3, <1>5, <1>6, <2>1, <2>2
    <3> QED BY <1>1, <1>2, <2>1, <2>2, <2>4, <3>1
  <2>5. CASE m \in Names
    <3>1. m \in DOMAIN T[r].entries
      BY <1>1, <1>10, <2>1, <2>5
    <3>2. m \in DOMAIN T2[r].entries /\ T2[r].entries[m] = T[r].entries[m]
      BY <1>3, <1>5, <1>6, <1>7, <2>1, <2>2, <3>1
    <3> QED BY <1>1, <1>2, <2>1, <2>2, <3>1, <3>2
  <2> QED BY <2>1, <2>3, <2>4, <2>5
<1>11. Child(lk2, p, n, i)
  BY <1>2, <1>6, <1>7, <1>8
<1>12. ASSUME NEW r, NEW m, NEW x, Child(lk2, r, m, x)
       PROVE  r # i /\ (x # i => Child(lk, r, m, x))
  <2>1. r \in D2 /\ m \in DOMAIN T2[r].entries /\ x = T2[r].entries[m]
    BY <1>2, <1>12
  <2>2. r # i /\ r \in D
    BY <1>3, <1>8, <1>9, <2>1
  <2>3. ASSUME x # i PROVE m \in DOMAIN T[r].entries /\ x = T[r].entries[m]
    BY <1>3, <1>5, <1>6, <1>7, <2>1, <2>2, <2>3
  <2> QED BY <1>1, <2>2, <2>3
<1>13. FilesKept(T, T2, {i})
  <2>1. \A j \in Inode \ {i} : /\ T2[j].kind = T[j].kind
                               /\ T[j].kind = "file" => T2[j] = T[j]
    BY <1>4, <1>5, <1>6
  <2> QED BY <2>1 DEF FilesKept, Files
<1> QED BY <1>5, <1>10, <1>11, <1>12, <1>13 DEF Grown

\* A tree without a node.
WithoutNode(T, p, n, t) ==
  [T EXCEPT ![p].entries = [m \in DOMAIN @ \ {n} |-> @[m]], ![t] = [kind |-> "free"]]

LEMMA RemoveShrinks ==
  ASSUME NEW T, NEW lk, NEW D, Shows(T, lk, D), TreeOfNames(lk, D),
         NEW T2, NEW lk2, NEW D2, Shows(T2, lk2, D2), TreeOfNames(lk2, D2),
         NEW p \in D, NEW n \in DOMAIN T[p].entries, NEW t, t = T[p].entries[n],
         t \in D => T[t].entries = [x \in {} |-> x],
         T2 = WithoutNode(T, p, n, t)
  PROVE  /\ Shrunk(lk, lk2, p, n, t) /\ FilesKept(T, T2, {t}) /\ t \in Inode
         /\ T2[t] = [kind |-> "free"]
<1>1. /\ \A r \in D : /\ T[r].kind = "directory" /\ T[r].parent = lk[r][".."]
                      /\ DOMAIN T[r].entries = {m \in Names : lk[r][m] \in Inode}
                      /\ \A m \in DOMAIN T[r].entries : T[r].entries[m] = lk[r][m]
      /\ \A r, m, x : Child(lk, r, m, x) <=> /\ r \in D /\ m \in DOMAIN T[r].entries
                                             /\ x = T[r].entries[m]
  BY ChildrenAreEntries
<1>2. /\ \A r \in D2 : /\ T2[r].kind = "directory" /\ T2[r].parent = lk2[r][".."]
                       /\ DOMAIN T2[r].entries = {m \in Names : lk2[r][m] \in Inode}
                       /\ \A m \in DOMAIN T2[r].entries : T2[r].entries[m] = lk2[r][m]
      /\ \A r, m, x : Child(lk2, r, m, x) <=> /\ r \in D2 /\ m \in DOMAIN T2[r].entries
                                              /\ x = T2[r].entries[m]
  BY ChildrenAreEntries
<1>3. /\ D \subseteq Inode /\ D2 \subseteq Inode /\ DOMAIN T = Inode /\ DOMAIN T2 = Inode
      /\ \A r \in Inode : (r \in D <=> T[r].kind = "directory") /\ (r \in D2 <=> T2[r].kind = "directory")
  BY KindsShown
<1>4. Child(lk, p, n, t) /\ t \in Inode /\ p \in Inode
  <2>1. Child(lk, p, n, t)
    BY <1>1
  <2> QED BY <2>1 DEF Child
<1>5. p # t /\ (t \in D => DOMAIN T[t].entries = {})
  <2>1. ASSUME t \in D PROVE DOMAIN T[t].entries = {}
    BY <2>1
  <2> QED BY <2>1
<1> DEFINE F == [m \in DOMAIN T[p].entries \ {n} |-> T[p].entries[m]]
<1>6. T2[t] = [kind |-> "free"] /\ \A j \in Inode \ {p, t} : T2[j] = T[j]
  BY <1>3, <1>4, <1>5 DEF WithoutNode
<1>7. T2[p].kind = "directory" /\ T2[p].entries = F
  <2>1. T[p] = [kind |-> "directory", parent |-> lk[p][".."], entries |-> EntriesOf(lk, p)]
    BY DEF Shows
  <2>2. T2[p] = [T[p] EXCEPT !.entries = F]
    BY <1>3, <1>4, <1>5 DEF WithoutNode
  <2> HIDE DEF F
  <2>3. [T[p] EXCEPT !.entries = F]
          = [kind |-> "directory", parent |-> lk[p][".."], entries |-> F]
    BY <2>1
  <2> QED BY <1>1, <2>2, <2>3
<1>8. DOMAIN F = DOMAIN T[p].entries \ {n}
      /\ \A m \in DOMAIN T[p].entries : m # n => F[m] = T[p].entries[m]
  OBVIOUS
<1> HIDE DEF F
<1>9. T2[t].kind = "free"
  BY <1>6
<1>10. p \in D2 /\ t \notin D2 /\ \A j \in Inode \ {t} : j \in D2 <=> j \in D
  BY <1>3, <1>4, <1>6, <1>7, <1>9
<1>11. ASSUME NEW m, NEW x PROVE ~Child(lk, t, m, x) /\ ~Child(lk2, p, n, x)
  BY <1>1, <1>2, <1>5, <1>7, <1>8
<1>12. ASSUME NEW r, NEW m, NEW x, Child(lk2, r, m, x)
       PROVE  Child(lk, r, m, x)
  <2>1. r \in D2 /\ m \in DOMAIN T2[r].entries /\ x = T2[r].entries[m]
    BY <1>2, <1>12
  <2>2. r \in D /\ r # t
    BY <1>3, <1>10, <2>1
  <2>3. m \in DOMAIN T[r].entries /\ x = T[r].entries[m]
    BY <1>3, <1>6, <1>7, <1>8, <2>1, <2>2
  <2> QED BY <1>1, <2>2, <2>3
<1>13. ASSUME NEW r, NEW m, NEW x, Child(lk, r, m, x), x # t
       PROVE  Child(lk2, r, m, x)
  <2>1. r \in D /\ m \in DOMAIN T[r].entries /\ x = T[r].entries[m]
    BY <1>1, <1>13
  <2>2. r # t /\ r \in D2 /\ ~(r = p /\ m = n)
    BY <1>3, <1>5, <1>10, <1>13, <2>1
  <2>3. m \in DOMAIN T2[r].entries /\ x = T2[r].entries[m]
    BY <1>3, <1>6, <1>7, <1>8, <2>1, <2>2
  <2> QED BY <1>2, <2>2, <2>3
<1>14. FilesKept(T, T2, {t})
  <2>1. \A j \in Inode \ {t} : /\ T2[j].kind = T[j].kind
                               /\ T[j].kind = "file" => T2[j] = T[j]
    BY <1>1, <1>6, <1>7
  <2> QED BY <1>9, <2>1 DEF FilesKept, Files
<1> QED BY <1>4, <1>6, <1>11, <1>12, <1>13, <1>14 DEF Shrunk

\* A tree with another content of a file.
WithContent(T, i, c) == [T EXCEPT ![i] = [kind |-> "file", content |-> c]]

LEMMA OverwriteKeepsNames ==
  ASSUME NEW T, NEW lk, NEW D, Shows(T, lk, D), TreeOfNames(lk, D),
         NEW T2, NEW lk2, NEW D2, Shows(T2, lk2, D2), TreeOfNames(lk2, D2),
         NEW i \in Inode, T[i].kind = "file", NEW c,
         T2 = WithContent(T, i, c)
  PROVE  /\ NamesKept(lk, lk2)
         /\ FilesKept(T, T2, {i}) /\ Files(T2) = Files(T)
         /\ T2[i] = [kind |-> "file", content |-> c]
<1>1. /\ \A r \in D : /\ T[r].parent = lk[r][".."]
                      /\ DOMAIN T[r].entries = {m \in Names : lk[r][m] \in Inode}
                      /\ \A m \in DOMAIN T[r].entries : T[r].entries[m] = lk[r][m]
      /\ \A r, m, x : Child(lk, r, m, x) <=> /\ r \in D /\ m \in DOMAIN T[r].entries
                                             /\ x = T[r].entries[m]
  BY ChildrenAreEntries
<1>2. /\ \A r \in D2 : /\ T2[r].parent = lk2[r][".."]
                       /\ DOMAIN T2[r].entries = {m \in Names : lk2[r][m] \in Inode}
                       /\ \A m \in DOMAIN T2[r].entries : T2[r].entries[m] = lk2[r][m]
      /\ \A r, m, x : Child(lk2, r, m, x) <=> /\ r \in D2 /\ m \in DOMAIN T2[r].entries
                                              /\ x = T2[r].entries[m]
  BY ChildrenAreEntries
<1>3. /\ D \subseteq Inode /\ D2 \subseteq Inode /\ DOMAIN T = Inode /\ DOMAIN T2 = Inode
      /\ \A r \in Inode : (r \in D <=> T[r].kind = "directory") /\ (r \in D2 <=> T2[r].kind = "directory")
  BY KindsShown
<1>4. T2[i] = [kind |-> "file", content |-> c] /\ \A j \in Inode \ {i} : T2[j] = T[j]
  BY <1>3 DEF WithContent
<1>5. T2[i].kind = "file"
  BY <1>4
<1>6. D2 = D /\ i \notin D
  BY <1>3, <1>4, <1>5
<1>7. \A r \in D : T2[r] = T[r]
  BY <1>3, <1>4, <1>6
<1>8. ASSUME NEW r \in LookupResult, NEW m \in NameArg, lk[r][m] \in Inode
      PROVE  lk2[r][m] = lk[r][m]
  <2>1. r \in D /\ m \in Names \cup {".", ".."}
    BY <1>8 DEF TreeOfNames
  <2>2. CASE m = "."
    BY <1>6, <2>1, <2>2 DEF TreeOfNames
  <2>3. CASE m = ".."
    BY <1>1, <1>2, <1>6, <1>7, <2>1, <2>3
  <2>4. CASE m \in Names
    <3>1. m \in DOMAIN T[r].entries
      BY <1>1, <1>8, <2>1, <2>4
    <3> QED BY <1>1, <1>2, <1>6, <1>7, <2>1, <3>1
  <2> QED BY <2>1, <2>2, <2>3, <2>4
<1>9. \A r, m, x : Child(lk2, r, m, x) <=> Child(lk, r, m, x)
  BY <1>1, <1>2, <1>6, <1>7
<1>10. FilesKept(T, T2, {i}) /\ Files(T2) = Files(T)
  BY <1>3, <1>4, <1>5 DEF FilesKept, Files
<1> QED BY <1>4, <1>8, <1>9, <1>10 DEF NamesKept

\* The calls of LocalFileSystem in these terms.
LEMMA CreateGrows ==
  ASSUME FInv, NEW p \in InodeArg, NEW t \in {UFS_DIRECTORY, UFS_REGULAR_FILE},
         NEW n \in NameArg, Create(p, t, n), NEW i, i = CreateReturn(p, t, n)
  PROVE  /\ Grown(Lookups, Lookups', p, n, i) /\ i \in Inode
         /\ FilesKept(SeenTree, SeenTree', {i}) /\ i \notin Files(SeenTree)
         /\ t = UFS_DIRECTORY => i \notin Files(SeenTree')
<1>0. TInv /\ IInv /\ DirectoriesAreDense
  BY DEF FInv, TInv
<1>1. FInv'
  BY CreateKeepsFInv
<1>2. p \in Inode /\ n \in Names /\ p \in Directories
      /\ IF t = UFS_DIRECTORY THEN Tree!MakeDirectory(p, n) ELSE Tree!MakeFile(p, n)
  BY <1>0, CreateIsMake, CreateOnEntries
<1> DEFINE new == IF t = UFS_DIRECTORY
                  THEN [kind |-> "directory", parent |-> p, entries |-> [x \in {} |-> x]]
                  ELSE [kind |-> "file", content |-> [x \in {} |-> x]]
<1>3. Tree!Make(p, n, new)
  BY <1>2, TheTreesParts DEF Tree!MakeDirectory, Tree!MakeFile
<1> HIDE DEF new
<1>4. PICK j \in Inode :
        /\ n \notin DOMAIN SeenTree[p].entries
        /\ SeenTree[j] = [kind |-> "free"]
        /\ \A k \in Inode : SeenTree[k] = [kind |-> "free"] => j <= k
        /\ SeenTree' = WithNode(SeenTree, p, n, j, new)
  BY <1>3, TheTreesParts, Zenon DEF Tree!Make, WithNode
<1>5. j = i
  <2>1. /\ IsDirectory(p) /\ lookup(p, n) = -ENOTFOUND
        /\ inodeBitmap' = inodeBitmap \cup {i}
    BY Zenon DEF Create
  <2>2. i \in Inode \ inodeBitmap
    BY <1>0, <2>1, CreateChecks
  <2>3. i <= j
    <3>1. j \notin inodeBitmap
      BY <1>0, <1>4, TheTreesParts, KindsOfNodes
    <3> QED BY <1>0, <2>1, <2>2, <3>1, CreateTakesLowest
  <2>4. j <= i
    <3>1. SeenTree[i] = [kind |-> "free"]
      BY <1>0, <2>2, TheTreesParts, KindsOfNodes
    <3> QED BY <1>4, <2>2, <3>1
  <2> QED BY <2>2, <2>3, <2>4 DEF Inode
<1>6. PICK T, lk, D : /\ T = SeenTree /\ lk = Lookups /\ D = Directories
                      /\ Shows(T, lk, D) /\ TreeOfNames(lk, D)
  BY ValuesSeen
<1>7. PICK T2, lk2, D2 : /\ T2 = SeenTree' /\ lk2 = Lookups' /\ D2 = Directories'
                         /\ Shows(T2, lk2, D2) /\ TreeOfNames(lk2, D2)
  BY <1>1, ValuesSeenNext
<1>8. /\ T[i] = [kind |-> "free"] /\ n \notin DOMAIN T[p].entries
      /\ T2 = WithNode(T, p, n, i, new) /\ i \in Inode /\ p \in D
  BY <1>2, <1>4, <1>5, <1>6, <1>7
<1>9. EmptyNode(p, new)
  BY DEF new, EmptyNode
<1>10. Grown(lk, lk2, p, n, i) /\ FilesKept(T, T2, {i}) /\ T2[i] = new
  <2>1. n \in Names /\ Shows(T, lk, D) /\ TreeOfNames(lk, D) /\ Shows(T2, lk2, D2) /\ TreeOfNames(lk2, D2)
    BY <1>2, <1>6, <1>7
  <2> QED BY ONLY <1>8, <1>9, <2>1, MakeGrows
<1>11. t = UFS_DIRECTORY => i \notin Files(T2)
  BY <1>10 DEF new, Files
<1>12. i \notin Files(T)
  BY <1>8 DEF Files
<1> QED BY <1>6, <1>7, <1>8, <1>10, <1>11, <1>12

LEMMA WriteKeepsNames ==
  ASSUME FInv, NEW i \in InodeArg, NEW v \in Values, NEW n \in Sizes, Write(i, v, n)
  PROVE  /\ NamesKept(Lookups, Lookups')
         /\ FilesKept(SeenTree, SeenTree', {i}) /\ Files(SeenTree') = Files(SeenTree)
         /\ i \in Inode
         /\ SeenTree'[i] = [kind |-> "file", content |-> [k \in 0 .. n - 1 |-> Entry(v, k)]]
<1> DEFINE c == [k \in 0 .. n - 1 |-> Entry(v, k)]
<1>1. FInv'
  BY WriteKeepsFInv
<1>2. i \in Inode /\ Tree!Overwrite(i, c)
  BY WriteIsOverwrite
<1> HIDE DEF c
<1>3. SeenTree[i].kind = "file" /\ SeenTree' = WithContent(SeenTree, i, c)
  BY <1>2, TheTreesParts DEF Tree!Overwrite, Tree!IsFile, WithContent
<1>6. PICK T, lk, D : /\ T = SeenTree /\ lk = Lookups /\ D = Directories
                      /\ Shows(T, lk, D) /\ TreeOfNames(lk, D)
  BY ValuesSeen
<1>7. PICK T2, lk2, D2 : /\ T2 = SeenTree' /\ lk2 = Lookups' /\ D2 = Directories'
                         /\ Shows(T2, lk2, D2) /\ TreeOfNames(lk2, D2)
  BY <1>1, ValuesSeenNext
<1>8. T[i].kind = "file" /\ T2 = WithContent(T, i, c)
  BY <1>3, <1>6, <1>7
<1>9. /\ NamesKept(lk, lk2)
      /\ FilesKept(T, T2, {i}) /\ Files(T2) = Files(T)
      /\ T2[i] = [kind |-> "file", content |-> c]
  BY ONLY <1>2, <1>6, <1>7, <1>8, OverwriteKeepsNames
<1> QED BY <1>2, <1>6, <1>7, <1>9 DEF c

LEMMA UnlinkShrinks ==
  ASSUME FInv, NEW p \in InodeArg, NEW n \in NameArg, Unlink(p, n)
  PROVE  /\ n \in Names
         /\ \E t \in Inode : /\ Shrunk(Lookups, Lookups', p, n, t)
                             /\ FilesKept(SeenTree, SeenTree', {t}) /\ t \notin Files(SeenTree')
<1>1. FInv'
  BY UnlinkKeepsFInv
<1>2. p \in Inode /\ n \in Names /\ Tree!Remove(p, n)
  BY UnlinkIsRemove
<1>3. PICK t : /\ SeenTree[p].kind = "directory"
               /\ n \in DOMAIN SeenTree[p].entries /\ t = SeenTree[p].entries[n]
               /\ t \in Inode /\ SeenTree[t].kind = "directory" => SeenTree[t].entries = [x \in {} |-> x]
               /\ SeenTree' = WithoutNode(SeenTree, p, n, t)
  BY <1>2, TheTreesParts, Zenon DEF Tree!Remove, Tree!IsDirectory, WithoutNode
<1>6. PICK T, lk, D : /\ T = SeenTree /\ lk = Lookups /\ D = Directories
                      /\ Shows(T, lk, D) /\ TreeOfNames(lk, D)
  BY ValuesSeen
<1>7. PICK T2, lk2, D2 : /\ T2 = SeenTree' /\ lk2 = Lookups' /\ D2 = Directories'
                         /\ Shows(T2, lk2, D2) /\ TreeOfNames(lk2, D2)
  BY <1>1, ValuesSeenNext
<1>8. D \subseteq Inode /\ \A r \in Inode : r \in D <=> T[r].kind = "directory"
  BY <1>6, KindsShown
<1>9. /\ p \in D /\ n \in DOMAIN T[p].entries /\ t = T[p].entries[n]
      /\ t \in D => T[t].entries = [x \in {} |-> x]
      /\ T2 = WithoutNode(T, p, n, t)
  BY <1>2, <1>3, <1>6, <1>7, <1>8
<1>10. /\ Shrunk(lk, lk2, p, n, t) /\ FilesKept(T, T2, {t}) /\ t \in Inode
       /\ T2[t] = [kind |-> "free"]
  BY ONLY <1>2, <1>6, <1>7, <1>9, RemoveShrinks
<1>11. t \notin Files(T2)
  BY <1>10 DEF Files
<1> QED BY <1>2, <1>6, <1>7, <1>10, <1>11

-----------------------------------------------------------------------------
(* The walks of the service, and what it answers at their ends.            *)

\* One part of a walk, from each inode.
WalkPart(path, L, k) ==
  [i \in LookupResult |-> IF i < 0 \/ (k = L /\ path[k] = "") THEN i ELSE lookup(i, path[k])]

LEMMA WalkFollows ==
  ASSUME FInv, NEW path \in Seq(NameArg)
  PROVE  \E at : /\ at \in [0 .. Len(path) -> LookupResult]
                 /\ Follows(Lookups, at, path, Len(path)) /\ Walk(path) = at[Len(path)]
<1> DEFINE L == Len(path)
<1>0. L \in Nat
  BY LenProperties
<1>2. \A k \in 1 .. L : path[k] \in NameArg
  BY ElementOfSeq
<1> HIDE DEF L
<1> USE <1>0
<1> DEFINE S == LookupResult
           W == [k \in 1 .. L |-> WalkPart(path, L, k)]
           step == [x \in (1 .. L) \X S |-> W[x[1]][x[2]]]
<1>1. Root \in S /\ Root \in Inode
  BY SizesAssumption DEF LookupResult, Root, Inode
<1>3. ASSUME NEW k \in 1 .. L, NEW r \in S
      PROVE  /\ W[k][r] \in S
             /\ r \in Inode =>
                  W[k][r] = IF k = L /\ path[k] = "" THEN r ELSE Lookups[r][path[k]]
             /\ r \notin Inode => W[k][r] \notin Inode
  <2>1. W[k][r] = IF r < 0 \/ (k = L /\ path[k] = "") THEN r ELSE lookup(r, path[k])
    BY Zenon DEF WalkPart
  <2>2. lookup(r, path[k]) \in S /\ Lookups[r][path[k]] = lookup(r, path[k])
    BY <1>2, LookupIsTyped, LookupsAre
  <2>3. r \in Inode <=> ~(r < 0)
    BY FailuresAreNoInodes, SizesAssumption DEF LookupResult, Inode
  <2> QED BY <2>1, <2>2, <2>3
<1>s. \A k \in 1 .. L : \A r \in S : W[k][r] \in S
  BY <1>3
<1>i. \A k \in 1 .. L : \A r \in S : r \in Inode =>
        W[k][r] = IF k = L /\ path[k] = "" THEN r ELSE Lookups[r][path[k]]
  BY <1>3
<1>o. \A k \in 1 .. L : \A r \in S : r \notin Inode => W[k][r] \notin Inode
  BY <1>3
<1>4. step \in [(1 .. L) \X S -> S]
  <2> HIDE DEF W, S
  <2> QED BY <1>s
<1>5. \A k \in 1 .. L : \A r \in S : step[<<k, r>>] = W[k][r]
  OBVIOUS
<1>w. \A k \in 1 .. L : W[k] = WalkPart(path, L, k)
  OBVIOUS
<1> HIDE DEF step, S, W
<1>6. PICK f : Iterates(f, L, S, Root, step)
  BY <1>1, <1>4, IteratesExist
<1>7. /\ f \in [0 .. L -> S]
      /\ f = [k \in 0 .. L |-> IF k = 0 THEN Root ELSE step[<<k, f[k - 1]>>]]
  BY <1>6 DEF Iterates
<1>8. \A k \in 0 .. L : k # 0 => k \in 1 .. L /\ k - 1 \in 0 .. L
  OBVIOUS
<1>9. ASSUME NEW k \in 0 .. L, k # 0
      PROVE  step[<<k, f[k - 1]>>] = WalkPart(path, L, k)[f[k - 1]]
  <2>1. k \in 1 .. L /\ f[k - 1] \in S
    BY <1>7, <1>8, <1>9
  <2>2. step[<<k, f[k - 1]>>] = W[k][f[k - 1]]
    BY <1>5, <2>1
  <2>3. W[k] = WalkPart(path, L, k)
    BY <1>w, <2>1
  <2> QED BY <2>2, <2>3
<1>10. f = [k \in 0 .. L |-> IF k = 0 THEN Root ELSE WalkPart(path, L, k)[f[k - 1]]]
  BY <1>7, <1>9
<1> DEFINE at == CHOOSE h :
             h = [k \in 0 .. L |-> IF k = 0 THEN Root ELSE WalkPart(path, L, k)[h[k - 1]]]
<1>11. at = [k \in 0 .. L |-> IF k = 0 THEN Root ELSE WalkPart(path, L, k)[at[k - 1]]]
  BY <1>10, Zenon
<1>12. Walk(path) = (CHOOSE h : h = [k \in 0 .. Len(path) |->
           IF k = 0 THEN Root ELSE WalkPart(path, Len(path), k)[h[k - 1]]])[Len(path)]
  BY Zenon DEF Walk, WalkPart
<1>13. Walk(path) = at[L]
  BY <1>12, Zenon DEF L
<1> HIDE DEF at
<1>14. at[0] = Root
  BY <1>11
<1>15. \A k \in 1 .. L : at[k] = W[k][at[k - 1]]
  <2>1. ASSUME NEW k \in 1 .. L PROVE at[k] = W[k][at[k - 1]]
    <3>1. k \in 0 .. L /\ k # 0
      OBVIOUS
    <3>2. at[k] = WalkPart(path, L, k)[at[k - 1]]
      BY <1>11, <3>1
    <3> QED BY <1>w, <3>2
  <2> QED BY <2>1
<1> HIDE DEF W
<1>16. \A k \in 0 .. L : at[k] \in S
  <2> DEFINE Bad == {k \in 0 .. L : at[k] \notin S}
  <2> SUFFICES ASSUME Bad # {} PROVE FALSE
    OBVIOUS
  <2>1. PICK k \in Bad : \A j \in Bad : k <= j
    <3>1. Bad \subseteq Nat
      OBVIOUS
    <3> HIDE DEF Bad
    <3> QED BY <3>1, MinOfNaturals
  <2>2. k \in 0 .. L /\ at[k] \notin S /\ k # 0
    BY <1>1, <1>14
  <2>3. k \in 1 .. L /\ k - 1 \in 0 .. L /\ k - 1 \notin Bad
    <3> HIDE DEF Bad
    <3> QED BY <2>1, <2>2
  <2>4. at[k - 1] \in S
    BY <2>3
  <2>5. at[k] = W[k][at[k - 1]]
    BY <1>15, <2>3
  <2> QED BY <1>s, <2>2, <2>3, <2>4, <2>5
<1>17. at \in [0 .. L -> S]
  BY <1>11, <1>16
<1>18. ASSUME NEW k \in 1 .. L
       PROVE  IF at[k - 1] \in Inode
              THEN at[k] = IF k = L /\ path[k] = "" THEN at[k - 1] ELSE Lookups[at[k - 1]][path[k]]
              ELSE at[k] \notin Inode
  <2>1. k - 1 \in 0 .. L
    OBVIOUS
  <2>2. at[k - 1] \in S
    BY <1>16, <2>1
  <2>3. at[k] = W[k][at[k - 1]]
    BY <1>15
  <2> QED BY <1>i, <1>o, <2>2, <2>3
<1>19. Follows(Lookups, at, path, L)
  BY <1>14, <1>18 DEF Follows
<1> QED BY <1>13, <1>17, <1>19 DEF S, L

\* What a GET answers at the inode a walk ends at: a file with its content,
\* but an empty one with an error.
FileAnswer(c) ==
  IF DOMAIN c = {} THEN [status |-> InternalError] ELSE [status |-> OK, body |-> c]

Answers(T, i, reply) ==
  \/ i \notin Inode /\ reply.status = NotFound
  \/ i \in Inode /\ T[i].kind = "directory" /\ reply.status = OK
  \/ i \in Files(T) /\ reply = FileAnswer(T[i].content)

LEMMA ReplyIsTheNode ==
  ASSUME FInv, NEW path \in Seq(NameArg), NEW i, i = Walk(path), i \in LookupResult,
         i \in Inode => i \in inodeBitmap
  PROVE  Answers(SeenTree, i, GetReply(path))
<1>0. TInv /\ IInv
  BY DEF FInv, TInv
<1>1. GetReply(path) =
        IF ~Allocated(i) THEN [status |-> NotFound]
        ELSE IF IsDirectory(i) THEN [status |-> OK, body |-> Listing(i)]
        ELSE IF ReadReturn(i, inodes[i].size) < 0 THEN [status |-> InternalError]
        ELSE [status |-> OK, body |-> ReadCells(i, inodes[i].size)]
  BY Zenon DEF GetReply
<1>2. CASE i \notin Inode
  <2>1. ~Allocated(i)
    BY <1>2 DEF Allocated
  <2>2. GetReply(path) = [status |-> NotFound]
    BY <1>1, <2>1, Zenon
  <2> QED BY <1>2, <2>2 DEF Answers
<1>3. CASE i \in Inode /\ IsDirectory(i)
  <2>1. Allocated(i) /\ SeenTree[i] = SeenNode(i)
    BY <1>3 DEF IsDirectory, SeenTree
  <2>2. SeenNode(i) = [kind |-> "directory", parent |-> lookup(i, ".."),
          entries |-> [n \in {m \in Names : lookup(i, m) >= 0} |-> lookup(i, n)]]
    BY <1>3, <2>1, Zenon DEF SeenNode
  <2>3. SeenTree[i].kind = "directory"
    BY <2>1, <2>2
  <2>4. GetReply(path) = [status |-> OK, body |-> Listing(i)]
    BY <1>1, <1>3, <2>1, Zenon
  <2> QED BY <1>3, <2>3, <2>4 DEF Answers
<1>4. CASE i \in Inode /\ ~IsDirectory(i)
  <2>n. PICK n \in Nat : n = inodes[i].size
    BY <1>0, <1>4 DEF IInv, TypeOK, InodeRecord
  <2>1. Allocated(i) /\ i \in inodeBitmap /\ i \in Inode
    BY <1>4 DEF Allocated
  <2>2. ReadCells(i, n) = [k \in 0 .. n - 1 |-> EntryAt(i, k)]
    <3>1. ReadCells(i, inodes[i].size) = [k \in 0 .. inodes[i].size - 1 |-> EntryAt(i, k)]
      BY <1>0, <2>1, ReadIsRight DEF ReadsAll
    <3> QED BY <2>n, <3>1
  <2> DEFINE c == ReadCells(i, n)
  <2>3. SeenTree[i] = SeenNode(i)
    BY <2>1 DEF SeenTree
  <2>4. SeenNode(i) = [kind |-> "file", content |-> ReadCells(i, inodes[i].size)]
    BY <1>4, <2>1, Zenon DEF SeenNode
  <2>5. i \in Files(SeenTree) /\ SeenTree[i].content = c
    BY <2>n, <2>1, <2>3, <2>4 DEF Files
  <2>6. DOMAIN c = 0 .. n - 1
    BY <2>2
  <2>7. GetReply(path) =
          IF ReadReturn(i, n) < 0 THEN [status |-> InternalError] ELSE [status |-> OK, body |-> c]
    BY <1>1, <1>4, <2>n, <2>1
  <2> HIDE DEF c
  <2>8. CASE n = 0
    <3>1. ReadReturn(i, n) = -EINVALIDSIZE
      BY <2>8 DEF ReadReturn
    <3>2. ReadReturn(i, n) < 0 /\ DOMAIN c = {}
      BY <2>6, <2>8, <3>1 DEF EINVALIDSIZE
    <3> QED BY <2>5, <2>7, <3>2 DEF Answers, FileAnswer
  <2>9. CASE n > 0
    <3>1. Cardinality(DOMAIN c) = n
      <4>1. Cardinality(0 .. n - 1) = IF 0 > n - 1 THEN 0 ELSE n - 1 - 0 + 1
        BY FS_Interval
      <4> QED BY <2>6, <2>9, <4>1
    <3>2. ReadReturn(i, n) = n
      <4>1. ~(n <= 0)
        BY <2>9
      <4>2. ReadReturn(i, n) = Cardinality(DOMAIN ReadCells(i, n))
        BY <2>1, <4>1, Zenon DEF ReadReturn
      <4> QED BY <3>1, <4>2 DEF c
    <3>3. ~(ReadReturn(i, n) < 0) /\ 0 \in DOMAIN c
      BY <2>6, <2>9, <3>2
    <3>4. DOMAIN c # {}
      BY <3>3
    <3> QED BY <2>5, <2>7, <3>3, <3>4 DEF Answers, FileAnswer
  <2> QED BY <2>8, <2>9
<1> QED BY <1>2, <1>3, <1>4

\* What a client sees at a path.
Sees(T, lk, path, i, reply) ==
  /\ \E at \in [0 .. Len(path) -> LookupResult] : Follows(lk, at, path, Len(path)) /\ i = at[Len(path)]
  /\ Answers(T, i, reply)

ClientsSeeTheTree ==
  \A path \in Seq(NameArg) : Sees(SeenTree, Lookups, path, Walk(path), GetReply(path))

FilesAreObjects == \A path \in Seq(NameArg) : IsObject(path) <=> Walk(path) \in Files(SeenTree)

LEMMA GetShowsTheTree == FInv => ClientsSeeTheTree
<1> SUFFICES ASSUME FInv, NEW path \in Seq(NameArg)
             PROVE  Sees(SeenTree, Lookups, path, Walk(path), GetReply(path))
  BY DEF ClientsSeeTheTree
<1> DEFINE L == Len(path)
<1>0. L \in Nat
  BY LenProperties
<1>1. \A k \in 1 .. L : path[k] \in NameArg
  BY ElementOfSeq
<1>2. PICK at : at \in [0 .. L -> LookupResult] /\ Follows(Lookups, at, path, L) /\ Walk(path) = at[L]
  BY WalkFollows
<1> HIDE DEF L
<1> USE <1>0
<1>3. \A k \in 0 .. L : at[k] \in LookupResult
  BY <1>2
<1>4. Root \in inodeBitmap /\ Root \in Inode
  <2>1. TInv
    BY DEF FInv
  <2> QED BY <2>1 DEF TInv, RootIsAbove, Directories, IsDirectory, Allocated
<1>5. \A k \in 0 .. L : at[k] \in Inode => at[k] \in inodeBitmap
  <2> DEFINE Bad == {k \in 0 .. L : at[k] \in Inode /\ at[k] \notin inodeBitmap}
  <2> SUFFICES ASSUME Bad # {} PROVE FALSE
    OBVIOUS
  <2>1. PICK k \in Bad : \A j \in Bad : k <= j
    <3>1. Bad \subseteq Nat
      OBVIOUS
    <3> HIDE DEF Bad
    <3> QED BY <3>1, MinOfNaturals
  <2>2. k \in 0 .. L /\ at[k] \in Inode /\ at[k] \notin inodeBitmap /\ k # 0
    BY <1>2, <1>4 DEF Follows
  <2>3. k \in 1 .. L /\ k - 1 \in 0 .. L /\ k - 1 \notin Bad
    <3> HIDE DEF Bad
    <3> QED BY <2>1, <2>2
  <2>4. at[k - 1] \in Inode /\ at[k] = IF k = L /\ path[k] = "" THEN at[k - 1] ELSE Lookups[at[k - 1]][path[k]]
    BY <1>2, <2>2, <2>3 DEF Follows
  <2>5. at[k - 1] \in inodeBitmap
    BY <2>3, <2>4
  <2>6. at[k] = Lookups[at[k - 1]][path[k]] /\ at[k - 1] \in LookupResult /\ path[k] \in NameArg
    BY <1>1, <1>3, <2>2, <2>3, <2>4, <2>5
  <2> QED BY <2>2, <2>6, LookupMeetsEntry
<1>6. L \in 0 .. L
  OBVIOUS
<1>7. Walk(path) \in LookupResult /\ (Walk(path) \in Inode => Walk(path) \in inodeBitmap)
  BY <1>2, <1>3, <1>5, <1>6
<1>8. Answers(SeenTree, Walk(path), GetReply(path))
  BY <1>7, ReplyIsTheNode
<1> QED BY <1>2, <1>8 DEF Sees, L

LEMMA FilesSeen == FInv => FilesAreObjects
<1> SUFFICES ASSUME FInv, NEW path \in Seq(NameArg)
             PROVE  IsObject(path) <=> Walk(path) \in Files(SeenTree)
  BY DEF FilesAreObjects
<1>0. TInv /\ IInv
  BY DEF FInv, TInv
<1> DEFINE i == Walk(path)
<1>1. IsFile(i) <=> i \in inodeBitmap /\ i \in Inode /\ i \notin Directories
  BY <1>0 DEF IsFile, Directories, IsDirectory, Allocated, IInv, TypeOK, InodeRecord,
              UFS_REGULAR_FILE, UFS_DIRECTORY
<1>2. ASSUME i \in Inode
      PROVE  SeenTree[i].kind = "file" <=> i \in inodeBitmap /\ i \notin Directories
  BY <1>0, <1>2, KindsOfNodes, TheTreesParts DEF Tree!IsFile
<1> HIDE DEF i
<1>3. IsFile(i) <=> i \in Files(SeenTree)
  BY <1>1, <1>2 DEF Files
<1> QED BY <1>3 DEF i, IsObject

LEMMA ClientsSeeNext ==
  ASSUME FInv', NEW path \in Seq(NameArg)
  PROVE  /\ Sees(SeenTree', Lookups', path, Walk(path)', GetReply(path)')
         /\ IsObject(path)' <=> Walk(path)' \in Files(SeenTree')
<1>1. FInv' => ClientsSeeTheTree' /\ FilesAreObjects'
  BY GetShowsTheTree, FilesSeen, PTL
<1>2. ClientsSeeTheTree' /\ FilesAreObjects'
  BY <1>1
<1> QED BY <1>2, Zenon DEF ClientsSeeTheTree, FilesAreObjects

-----------------------------------------------------------------------------
(* Paths with ".", ".." and empty parts, and the paths of names they mean.  *)

\* One part more.
UptoPart(s, n) ==
  IF n \in {".", ""} THEN s
  ELSE IF n = ".." THEN SubSeq(s, 1, Larger(0, Len(s) - 1))
  ELSE Append(s, n)

Upto(u, path, d) ==
  /\ u \in [0 .. d -> Seq(NameArg)] /\ u[0] = <<>>
  /\ \A k \in 1 .. d : u[k] = UptoPart(u[k - 1], path[k])

\* A path whose parts are names, or could be.
Clean(s) == \A k \in 1 .. Len(s) : s[k] \notin {".", "", ".."}

LEMMA UptoPartProperties ==
  ASSUME NEW s \in Seq(NameArg), NEW n \in NameArg
  PROVE  UptoPart(s, n) \in Seq(NameArg) /\ (Clean(s) => Clean(UptoPart(s, n)))
<1> DEFINE d == Len(s)
<1>0. d \in Nat
  BY LenProperties
<1>p. \A k \in 1 .. d : s[k] \in NameArg
  BY ElementOfSeq
<1>1. CASE n \in {".", ""}
  BY <1>1 DEF UptoPart
<1>2. CASE n = ".."
  <2> DEFINE c == Larger(0, d - 1)
             q == SubSeq(s, 1, c)
  <2>1. c \in Nat /\ c <= d
    BY <1>0 DEF Larger
  <2> HIDE DEF c, d
  <2>2. \A k \in 1 .. c : s[k] \in NameArg
    BY <1>0, <1>p, <2>1
  <2>3. /\ q \in Seq(NameArg)
        /\ Len(q) = IF 1 <= c THEN c - 1 + 1 ELSE 0
        /\ \A k \in 1 .. c - 1 + 1 : q[k] = s[1 + k - 1]
    BY <2>1, <2>2, SubSeqProperties
  <2> HIDE DEF q
  <2>4. Len(q) = c
    BY <2>1, <2>3
  <2>5. \A k \in 1 .. c : q[k] = s[k] /\ k \in 1 .. d
    BY <1>0, <2>1, <2>3
  <2>6. Clean(s) => Clean(q)
    BY <2>4, <2>5 DEF Clean, d
  <2>7. UptoPart(s, n) = q
    BY <1>2 DEF UptoPart, c, q, d
  <2> QED BY <2>3, <2>6, <2>7
<1>3. CASE n \notin {".", "", ".."}
  <2>1. UptoPart(s, n) = Append(s, n)
    BY <1>3 DEF UptoPart
  <2>2. /\ Append(s, n) \in Seq(NameArg) /\ Len(Append(s, n)) = d + 1
        /\ \A k \in 1 .. d : Append(s, n)[k] = s[k]
        /\ Append(s, n)[d + 1] = n
    BY AppendProperties
  <2> HIDE DEF d
  <2>3. \A k \in 1 .. d + 1 : k \in 1 .. d \/ k = d + 1
    BY <1>0
  <2>4. Clean(s) => Clean(Append(s, n))
    BY <1>3, <2>2, <2>3 DEF Clean, d
  <2> QED BY <2>1, <2>2, <2>4
<1> QED BY <1>1, <1>2, <1>3

LEMMA CanonicalIs ==
  ASSUME NEW path \in Seq(NameArg)
  PROVE  \E u : Upto(u, path, Len(path)) /\ Canonical(path) = u[Len(path)]
<1> DEFINE L == Len(path)
           S == Seq(NameArg)
           step == [x \in (1 .. L) \X S |-> UptoPart(x[2], path[x[1]])]
<1>0. L \in Nat
  BY LenProperties
<1>1. \A k \in 1 .. L : path[k] \in NameArg
  BY ElementOfSeq
<1>2. <<>> \in S
  BY EmptySeq
<1> HIDE DEF L
<1> USE <1>0
<1>3. step \in [(1 .. L) \X S -> S]
  <2>1. \A k \in 1 .. L : \A s \in S : UptoPart(s, path[k]) \in S
    BY <1>1, UptoPartProperties
  <2> HIDE DEF S
  <2> QED BY <2>1
<1>4. \A k \in 1 .. L : \A s \in S : step[<<k, s>>] = UptoPart(s, path[k])
  <2> HIDE DEF S
  <2> QED OBVIOUS
<1> HIDE DEF step, S
<1>5. PICK f : Iterates(f, L, S, <<>>, step)
  BY <1>2, <1>3, IteratesExist
<1>6. /\ f \in [0 .. L -> S]
      /\ f = [k \in 0 .. L |-> IF k = 0 THEN <<>> ELSE step[<<k, f[k - 1]>>]]
  BY <1>5 DEF Iterates
<1>7. ASSUME NEW k \in 0 .. L, k # 0
      PROVE  step[<<k, f[k - 1]>>] = UptoPart(f[k - 1], path[k])
  <2>1. k \in 1 .. L /\ k - 1 \in 0 .. L
    BY <1>7
  <2>2. f[k - 1] \in S
    BY <1>6, <2>1
  <2> QED BY <1>4, <2>1, <2>2
<1>8. f = [k \in 0 .. L |-> IF k = 0 THEN <<>> ELSE UptoPart(f[k - 1], path[k])]
  BY <1>6, <1>7
<1> DEFINE u == CHOOSE h :
             h = [k \in 0 .. L |-> IF k = 0 THEN <<>> ELSE UptoPart(h[k - 1], path[k])]
<1>9. u = [k \in 0 .. L |-> IF k = 0 THEN <<>> ELSE UptoPart(u[k - 1], path[k])]
  BY <1>8, Zenon
<1>10. Canonical(path) = u[L]
  <2>1. Canonical(path) = (CHOOSE h : h = [k \in 0 .. Len(path) |->
            IF k = 0 THEN <<>> ELSE UptoPart(h[k - 1], path[k])])[Len(path)]
    BY Zenon DEF Canonical, UptoPart
  <2> QED BY <2>1, Zenon DEF L
<1> HIDE DEF u
<1>11. u[0] = <<>>
  BY <1>9
<1>12. \A k \in 1 .. L : u[k] = UptoPart(u[k - 1], path[k])
  <2>1. ASSUME NEW k \in 1 .. L PROVE u[k] = UptoPart(u[k - 1], path[k])
    <3>1. k \in 0 .. L /\ k # 0
      OBVIOUS
    <3> QED BY <1>9, <3>1
  <2> QED BY <2>1
<1>13. \A k \in 0 .. L : u[k] \in S
  <2> DEFINE Bad == {k \in 0 .. L : u[k] \notin S}
  <2> SUFFICES ASSUME Bad # {} PROVE FALSE
    OBVIOUS
  <2>1. PICK k \in Bad : \A j \in Bad : k <= j
    <3>1. Bad \subseteq Nat
      OBVIOUS
    <3> HIDE DEF Bad
    <3> QED BY <3>1, MinOfNaturals
  <2>2. k \in 0 .. L /\ u[k] \notin S /\ k # 0
    BY <1>2, <1>11
  <2>3. k \in 1 .. L /\ k - 1 \in 0 .. L /\ k - 1 \notin Bad
    <3> HIDE DEF Bad
    <3> QED BY <2>1, <2>2
  <2>4. u[k - 1] \in S
    BY <2>3
  <2>5. u[k] = UptoPart(u[k - 1], path[k])
    BY <1>12, <2>3
  <2>6. UptoPart(u[k - 1], path[k]) \in S
    BY <1>1, <2>3, <2>4, UptoPartProperties DEF S
  <2> QED BY <2>2, <2>5, <2>6
<1>14. u \in [0 .. L -> S]
  BY <1>9, <1>13
<1>15. Upto(u, path, L)
  BY <1>11, <1>12, <1>14 DEF Upto, S
<1> QED BY <1>10, <1>15 DEF L

LEMMA UptoIsClean ==
  ASSUME NEW path, NEW d \in Nat, \A k \in 1 .. d : path[k] \in NameArg, NEW u, Upto(u, path, d)
  PROVE  Clean(u[d])
<1> DEFINE Bad == {k \in 0 .. d : ~Clean(u[k])}
<1>1. ASSUME Bad # {} PROVE FALSE
  <2>1. PICK k \in Bad : \A j \in Bad : k <= j
    <3>1. Bad \subseteq Nat
      OBVIOUS
    <3> HIDE DEF Bad
    <3> QED BY <1>1, <3>1, MinOfNaturals
  <2>2. k # 0
    <3>1. ASSUME NEW s, Len(s) = 0 PROVE Clean(s)
      <4>1. \A j \in 1 .. 0 : FALSE
        OBVIOUS
      <4> QED BY <3>1, <4>1, Zenon DEF Clean
    <3>2. Len(<<>>) = 0
      BY EmptySeq
    <3>3. Clean(<<>>)
      BY <3>1, <3>2, Zenon
    <3> QED BY <3>3 DEF Upto
  <2>3. k \in 1 .. d /\ k - 1 \in 0 .. d /\ k - 1 \notin Bad /\ ~Clean(u[k])
    <3>1. k \in 0 .. d /\ ~Clean(u[k])
      OBVIOUS
    <3> HIDE DEF Bad
    <3> QED BY <2>1, <2>2, <3>1
  <2>4. Clean(u[k - 1])
    BY <2>3
  <2>5. u[k - 1] \in Seq(NameArg) /\ u[k] = UptoPart(u[k - 1], path[k])
    BY <2>3 DEF Upto
  <2>6. Clean(UptoPart(u[k - 1], path[k]))
    BY <2>3, <2>4, <2>5, UptoPartProperties
  <2> QED BY <2>3, <2>5, <2>6
<1>2. d \in 0 .. d
  OBVIOUS
<1> QED BY <1>1, <1>2

\* Q is how P begins.
Begins(Q, P, c) == \A k \in 1 .. c : Q[k] = P[k]

LEMMA UptoIsUnique ==
  ASSUME NEW P, NEW Q, NEW d \in Nat, NEW c \in Nat, c <= d, NEW u, NEW v,
         Upto(u, P, d), Upto(v, Q, c), Begins(Q, P, c)
  PROVE  v[c] = u[c]
<1> DEFINE Bad == {k \in 0 .. c : u[k] # v[k]}
<1>1. ASSUME Bad # {} PROVE FALSE
  <2>1. PICK k \in Bad : \A j \in Bad : k <= j
    <3>1. Bad \subseteq Nat
      OBVIOUS
    <3> HIDE DEF Bad
    <3> QED BY <1>1, <3>1, MinOfNaturals
  <2>2. k # 0
    BY DEF Upto
  <2>3. k \in 1 .. c /\ k - 1 \in 0 .. c /\ k - 1 \notin Bad /\ u[k] # v[k]
    <3>1. k \in 0 .. c /\ u[k] # v[k]
      OBVIOUS
    <3> HIDE DEF Bad
    <3> QED BY <2>1, <2>2, <3>1
  <2>4. u[k - 1] = v[k - 1]
    BY <2>3
  <2>5. k \in 1 .. d
    BY <2>3
  <2>6. u[k] = UptoPart(u[k - 1], P[k]) /\ v[k] = UptoPart(v[k - 1], Q[k]) /\ P[k] = Q[k]
    BY <2>3, <2>5 DEF Upto, Begins
  <2> QED BY <2>3, <2>4, <2>6
<1>2. c \in 0 .. c
  OBVIOUS
<1> QED BY <1>1, <1>2

\* A path of names leads from the root to i.
Leads(lk, s, i) == \E f : Trail(lk, f, s, Len(s)) /\ f[Len(s)] = i

\* One part of a path leads from r to i.
Goes(lk, r, n, i) == i \in Inode /\ ((n = "" /\ i = r) \/ lk[r][n] = i)

LEMMA TrailsNames ==
  ASSUME NEW lk, NEW d, NEW f, NEW P, NEW Q, Trail(lk, f, P, d), \A k \in 1 .. d : P[k] = Q[k]
  PROVE  Trail(lk, f, Q, d)
<1>1. ASSUME NEW k \in 1 .. d PROVE Child(lk, f[k - 1], Q[k], f[k])
  BY DEF Trail
<1> QED BY <1>1 DEF Trail

LEMMA LeadsOn ==
  ASSUME NEW lk, NEW D, TreeOfNames(lk, D), NEW s \in Seq(NameArg), NEW n \in NameArg,
         NEW r \in Inode, NEW i, Leads(lk, s, r), Goes(lk, r, n, i)
  PROVE  Leads(lk, UptoPart(s, n), i)
<1> DEFINE d == Len(s)
<1>0. d \in Nat
  BY LenProperties
<1>p. \A k \in 1 .. d : s[k] \in NameArg
  BY ElementOfSeq
<1>1. PICK f : Trail(lk, f, s, d) /\ f[d] = r
  BY DEF Leads
<1>2. f \in [0 .. d -> Inode] /\ f[0] = Root /\ \A k \in 1 .. d : Child(lk, f[k - 1], s[k], f[k])
  BY <1>1 DEF Trail
<1>3. i \in Inode /\ ((n = "" /\ i = r) \/ lk[r][n] = i)
  BY DEF Goes
<1>4. lk[r][n] = i => r \in D /\ n \in Names \cup {".", ".."}
  <2>1. Inode \subseteq LookupResult
    BY DEF LookupResult
  <2> QED BY <1>3, <2>1 DEF TreeOfNames
<1>5. CASE n \in {".", ""}
  <2>1. i = r
    BY <1>3, <1>4, <1>5, NamesAssumption DEF TreeOfNames
  <2>2. UptoPart(s, n) = s
    BY <1>5 DEF UptoPart
  <2> QED BY <2>1, <2>2
<1>6. CASE n = ".."
  <2>1. r \in D /\ lk[r][".."] = i
    BY <1>3, <1>4, <1>6
  <2> DEFINE c == Larger(0, d - 1)
             q == SubSeq(s, 1, c)
  <2>u. UptoPart(s, n) = q
    BY <1>6 DEF UptoPart
  <2> HIDE DEF d
  <2>2. c \in 0 .. d /\ (d = 0 => c = 0) /\ (d # 0 => c = d - 1)
    BY <1>0 DEF Larger
  <2> HIDE DEF c
  <2>3. /\ Len(q) = IF 1 <= c THEN c - 1 + 1 ELSE 0
        /\ \A k \in 1 .. c - 1 + 1 : q[k] = s[1 + k - 1]
    <3>1. \A k \in 1 .. c : s[k] \in NameArg
      BY <1>0, <1>p, <2>2
    <3>2. c \in Int
      BY <1>0, <2>2
    <3> QED BY <3>1, <3>2, SubSeqProperties
  <2> HIDE DEF q
  <2>4. Len(q) = c /\ \A k \in 1 .. c : s[k] = q[k]
    BY <1>0, <2>2, <2>3
  <2>5. PICK g : Trail(lk, g, s, c) /\ g[c] = f[c]
    <3>1. c \in 0 .. d /\ Trail(lk, f, s, d) /\ d \in Nat
      BY <1>0, <1>1, <2>2
    <3>2. \A x \in 0 .. d : \E g : Trail(lk, g, s, x) /\ g[x] = f[x]
      <4>1. ASSUME NEW x \in 0 .. d PROVE \E g : Trail(lk, g, s, x) /\ g[x] = f[x]
        BY ONLY <3>1, TrailPart
      <4> QED BY <4>1
    <3> QED BY <3>1, <3>2
  <2>6. Trail(lk, g, q, c)
    BY <2>4, <2>5, TrailsNames
  <2>7. f[c] = i
    <3>1. CASE d = 0
      BY <1>1, <1>2, <2>1, <2>2, <3>1 DEF TreeOfNames
    <3>2. CASE d # 0
      <4>1. d \in 1 .. d /\ c = d - 1
        BY <1>0, <2>2, <3>2
      <4>2. Child(lk, f[c], s[d], r)
        BY <1>1, <1>2, <4>1
      <4>3. lk[r][".."] = f[c]
        BY <2>1, <4>2, OneName
      <4> QED BY <2>1, <4>3
    <3> QED BY <3>1, <3>2
  <2>8. g[c] = i
    BY <2>5, <2>7
  <2> QED BY <2>u, <2>4, <2>6, <2>8 DEF Leads
<1>7. CASE n \notin {".", "", ".."}
  <2>1. Child(lk, f[d], n, i)
    BY <1>1, <1>3, <1>4, <1>7 DEF Child
  <2>2. Trail(lk, Longer(f, d, i), Further(s, d, n), d + 1) /\ Longer(f, d, i)[d + 1] = i
    BY <1>0, <1>1, <2>1, TrailGrows
  <2> DEFINE q == Append(s, n)
  <2>3. /\ Len(q) = d + 1 /\ q[d + 1] = n
        /\ \A k \in 1 .. d : q[k] = s[k]
    BY AppendProperties
  <2>u. UptoPart(s, n) = q
    BY <1>7 DEF UptoPart
  <2> HIDE DEF d, q
  <2>4. \A k \in 1 .. d + 1 : Further(s, d, n)[k] = q[k]
    <3>1. \A k \in 1 .. d + 1 : k = d + 1 \/ k \in 1 .. d
      BY <1>0
    <3> QED BY <2>3, <3>1 DEF Further
  <2>5. Trail(lk, Longer(f, d, i), q, d + 1)
    BY <2>2, <2>4, TrailsNames
  <2> QED BY <2>u, <2>2, <2>3, <2>5 DEF Leads
<1> QED BY <1>5, <1>6, <1>7

LEMMA CanonicalIsClean ==
  ASSUME NEW path \in Seq(NameArg)
  PROVE  Canonical(path) \in Seq(NameArg) /\ Clean(Canonical(path))
<1> DEFINE L == Len(path)
<1>0. L \in Nat
  BY LenProperties
<1>1. \A k \in 1 .. L : path[k] \in NameArg
  BY ElementOfSeq
<1>2. PICK u : Upto(u, path, L) /\ Canonical(path) = u[L]
  BY CanonicalIs
<1> HIDE DEF L
<1>3. L \in 0 .. L /\ u \in [0 .. L -> Seq(NameArg)]
  BY <1>0, <1>2 DEF Upto
<1>4. Clean(u[L])
  BY <1>0, <1>1, <1>2, UptoIsClean
<1> QED BY <1>2, <1>3, <1>4

\* Wherever a walk leads, the path without "." and ".." leads there too.
LEMMA GoesToCanonical ==
  ASSUME NEW lk, NEW D, TreeOfNames(lk, D), NEW path \in Seq(NameArg), NEW at, at[0] = Root,
         \A k \in 1 .. Len(path) : Goes(lk, at[k - 1], path[k], at[k])
  PROVE  Leads(lk, Canonical(path), at[Len(path)])
<1> DEFINE L == Len(path)
<1>0. L \in Nat
  BY LenProperties
<1>1. \A k \in 1 .. L : path[k] \in NameArg
  BY ElementOfSeq
<1>2. PICK u : Upto(u, path, L) /\ Canonical(path) = u[L]
  BY CanonicalIs
<1>3. \A k \in 1 .. L : Goes(lk, at[k - 1], path[k], at[k])
  OBVIOUS
<1> HIDE DEF L
<1>4. /\ u \in [0 .. L -> Seq(NameArg)] /\ u[0] = <<>>
      /\ \A k \in 1 .. L : u[k] = UptoPart(u[k - 1], path[k])
  BY <1>2 DEF Upto
<1> DEFINE Bad == {k \in 0 .. L : ~Leads(lk, u[k], at[k])}
<1>5. ASSUME Bad # {} PROVE FALSE
  <2>1. PICK k \in Bad : \A j \in Bad : k <= j
    <3>1. Bad \subseteq Nat
      OBVIOUS
    <3> HIDE DEF Bad
    <3> QED BY <1>5, <3>1, MinOfNaturals
  <2>2. k # 0
    <3> DEFINE f == [j \in 0 .. 0 |-> Root]
    <3>1. Root \in Inode
      BY SizesAssumption DEF Root, Inode
    <3>2. f \in [0 .. 0 -> Inode] /\ f[0] = Root
      BY <3>1
    <3>3. \A j \in 1 .. 0 : Child(lk, f[j - 1], u[0][j], f[j])
      OBVIOUS
    <3> HIDE DEF f
    <3>4. Trail(lk, f, u[0], 0)
      BY <3>2, <3>3 DEF Trail
    <3>5. Len(<<>>) = 0
      BY EmptySeq
    <3>6. Leads(lk, u[0], at[0])
      BY <1>4, <3>2, <3>4, <3>5, Zenon DEF Leads
    <3> QED BY <3>6
  <2>3. k \in 1 .. L /\ k - 1 \in 0 .. L /\ k - 1 \notin Bad /\ ~Leads(lk, u[k], at[k])
    <3>1. k \in 0 .. L /\ ~Leads(lk, u[k], at[k])
      OBVIOUS
    <3> HIDE DEF Bad
    <3> QED BY <1>0, <2>1, <2>2, <3>1
  <2>4. Leads(lk, u[k - 1], at[k - 1])
    BY <2>3
  <2>5. at[k - 1] \in Inode
    <3>1. CASE k = 1
      BY <3>1, SizesAssumption DEF Root, Inode
    <3>2. CASE k # 1
      <4>1. k - 1 \in 1 .. L
        BY <1>0, <2>3, <3>2
      <4> QED BY <1>3, <4>1 DEF Goes
    <3> QED BY <3>1, <3>2
  <2>6. u[k - 1] \in Seq(NameArg) /\ path[k] \in NameArg /\ Goes(lk, at[k - 1], path[k], at[k])
    BY <1>1, <1>3, <1>4, <2>3
  <2>7. Leads(lk, UptoPart(u[k - 1], path[k]), at[k])
    BY <2>4, <2>5, <2>6, LeadsOn
  <2>8. u[k] = UptoPart(u[k - 1], path[k])
    BY <1>4, <2>3
  <2> QED BY <2>3, <2>7, <2>8
<1>6. L \in 0 .. L
  BY <1>0
<1>7. Leads(lk, u[L], at[L])
  BY <1>5, <1>6
<1> QED BY <1>2, <1>7 DEF L

\* A walk that ends at an inode has not been lost on its way.
LEMMA FoundGoes ==
  ASSUME NEW lk, NEW d \in Nat, NEW at, NEW path, Follows(lk, at, path, d), at[d] \in Inode
  PROVE  /\ at[0] = Root /\ \A k \in 0 .. d : at[k] \in Inode
         /\ \A k \in 1 .. d : Goes(lk, at[k - 1], path[k], at[k])
<1>1. \A k \in 0 .. d : at[k] \in Inode
  BY LostStaysLost
<1>2. ASSUME NEW k \in 1 .. d PROVE Goes(lk, at[k - 1], path[k], at[k])
  <2>1. k \in 0 .. d /\ k - 1 \in 0 .. d
    OBVIOUS
  <2>2. at[k] \in Inode /\ at[k - 1] \in Inode
    BY <1>1, <2>1
  <2>3. at[k] = IF k = d /\ path[k] = "" THEN at[k - 1] ELSE lk[at[k - 1]][path[k]]
    BY <2>2 DEF Follows
  <2> QED BY <2>2, <2>3 DEF Goes
<1>3. at[0] = Root
  BY DEF Follows
<1> QED BY <1>1, <1>2, <1>3

LEMMA WalkToCanonical ==
  ASSUME NEW lk, NEW D, TreeOfNames(lk, D), NEW path \in Seq(NameArg), NEW at,
         Follows(lk, at, path, Len(path)), at[Len(path)] \in Inode
  PROVE  Leads(lk, Canonical(path), at[Len(path)])
<1>0. Len(path) \in Nat
  BY LenProperties
<1>1. at[0] = Root /\ \A k \in 1 .. Len(path) : Goes(lk, at[k - 1], path[k], at[k])
  BY <1>0, FoundGoes
<1> QED BY <1>1, GoesToCanonical

\* A walk along a clean path ends where its names lead.
LEMMA CleanWalk ==
  ASSUME NEW lk, NEW D, TreeOfNames(lk, D), NEW path \in Seq(NameArg), Clean(path), NEW at,
         Follows(lk, at, path, Len(path))
  PROVE  /\ at[Len(path)] \in Inode => Leads(lk, path, at[Len(path)])
         /\ \A i : Leads(lk, path, i) => i = at[Len(path)]
<1> DEFINE L == Len(path)
<1>0. L \in Nat
  BY LenProperties
<1>1. \A k \in 1 .. L : path[k] \in NameArg /\ path[k] \notin {".", "", ".."}
  BY ElementOfSeq DEF Clean
<1>2. ASSUME at[L] \in Inode PROVE Leads(lk, path, at[L])
  <2>f. Follows(lk, at, path, L)
    OBVIOUS
  <2> HIDE DEF L
  <2>1. /\ \A k \in 0 .. L : at[k] \in Inode
        /\ \A k \in 1 .. L : Goes(lk, at[k - 1], path[k], at[k])
    BY <1>0, <1>2, <2>f, FoundGoes
  <2>2. ASSUME NEW k \in 1 .. L PROVE path[k] \in Names
    <3>1. k \in 0 .. L /\ k - 1 \in 0 .. L
      BY <1>0
    <3>2. lk[at[k - 1]][path[k]] \in Inode /\ at[k - 1] \in LookupResult
      BY <1>1, <2>1, <3>1 DEF Goes, LookupResult
    <3>3. path[k] \in Names \cup {".", ".."}
      BY <1>1, <3>2 DEF TreeOfNames
    <3> QED BY <1>1, <3>3
  <2>3. PICK f : Trail(lk, f, path, L) /\ f[L] = at[L]
    BY <1>0, <1>2, <2>f, <2>2, FollowedIsTrail
  <2> QED BY <2>3 DEF Leads, L
<1>3. ASSUME NEW i, Leads(lk, path, i) PROVE i = at[L]
  <2>1. PICK f : Trail(lk, f, path, L) /\ f[L] = i
    BY <1>3 DEF Leads
  <2>f. Follows(lk, at, path, L)
    OBVIOUS
  <2> HIDE DEF L
  <2>2. at[L] = f[L]
    <3>1. ASSUME NEW P, Trail(lk, f, P, L), Follows(lk, at, P, L) PROVE at[L] = f[L]
      BY ONLY <1>0, <3>1, TrailIsFollowed
    <3> QED BY <2>1, <2>f, <3>1
  <2> QED BY <2>1, <2>2
<1> QED BY <1>2, <1>3

\* Two paths of names do not lead to one inode.
LEMMA LeadsOnce ==
  ASSUME NEW lk, NEW D, TreeOfNames(lk, D), NEW P \in Seq(NameArg), NEW Q \in Seq(NameArg),
         NEW i, Leads(lk, P, i), Leads(lk, Q, i)
  PROVE  P = Q
<1> DEFINE d == Len(P)
           e == Len(Q)
<1>0. d \in Nat /\ e \in Nat
  BY LenProperties
<1>1. PICK f : Trail(lk, f, P, d) /\ f[d] = i
  BY DEF Leads
<1>2. PICK g : Trail(lk, g, Q, e) /\ g[e] = i
  BY DEF Leads
<1> HIDE DEF d, e
<1>3. d = e /\ \A k \in 1 .. d : P[k] = Q[k]
  <2>1. ASSUME NEW X, NEW Y, Trail(lk, f, X, d), Trail(lk, g, Y, e)
        PROVE  d = e /\ \A k \in 1 .. d : X[k] = Y[k]
    <3>1. f[d] = g[e]
      BY <1>1, <1>2
    <3>2. d = e
      BY <1>0, <2>1, <3>1, TrailIsUnique
    <3>3. \A k \in 1 .. d : X[k] = Y[k]
      BY <1>0, <2>1, <3>1, TrailIsUnique
    <3> QED BY <3>2, <3>3
  <2> QED BY <1>1, <1>2, <2>1
<1> QED BY <1>3, SeqEqual DEF d, e

LEMMA TrailToLeads ==
  ASSUME NEW lk, NEW lk2, NEW P, NEW d, NEW f, Trail(lk, f, P, d),
         \A k \in 1 .. d : Child(lk2, f[k - 1], P[k], f[k])
  PROVE  Trail(lk2, f, P, d)
  BY DEF Trail

\* A new node is below nothing but its name, and all else leads where it led.
LEMMA GrownLeads ==
  ASSUME NEW lk, NEW lk2, NEW p, NEW n, NEW i, Grown(lk, lk2, p, n, i),
         NEW P, Len(P) \in Nat, NEW j
  PROVE  /\ Leads(lk, P, j) => Leads(lk2, P, j)
         /\ Leads(lk2, P, j) /\ j # i => Leads(lk, P, j)
<1> DEFINE d == Len(P)
<1>0. d \in Nat
  OBVIOUS
<1>1. ASSUME Leads(lk, P, j) PROVE Leads(lk2, P, j)
  <2>1. PICK f : Trail(lk, f, P, d) /\ f[d] = j
    BY <1>1 DEF Leads
  <2> HIDE DEF d
  <2>2. ASSUME NEW r, NEW m, NEW x, Child(lk, r, m, x) PROVE Child(lk2, r, m, x)
    BY <2>2 DEF Child, Grown, LookupResult, NameArg
  <2>3. \A k \in 1 .. d : Child(lk2, f[k - 1], P[k], f[k])
    BY <2>1, <2>2 DEF Trail
  <2>4. Trail(lk2, f, P, d)
    BY <2>1, <2>3, TrailToLeads
  <2> QED BY <2>1, <2>4 DEF Leads, d
<1>2. ASSUME Leads(lk2, P, j), j # i PROVE Leads(lk, P, j)
  <2>1. PICK f : Trail(lk2, f, P, d) /\ f[d] = j
    BY <1>2 DEF Leads
  <2> HIDE DEF d
  <2>2. \A k \in 1 .. d : Child(lk2, f[k - 1], P[k], f[k])
    BY <2>1 DEF Trail
  <2>3. ASSUME NEW k \in 1 .. d PROVE f[k] # i
    <3>1. CASE k = d
      BY <1>2, <2>1, <3>1
    <3>2. CASE k # d
      <4>1. k + 1 \in 1 .. d /\ (k + 1) - 1 = k
        BY <1>0, <3>2
      <4>2. Child(lk2, f[k], P[k + 1], f[k + 1])
        BY <2>2, <4>1
      <4> QED BY <4>2 DEF Grown
    <3> QED BY <3>1, <3>2
  <2>4. \A k \in 1 .. d : Child(lk, f[k - 1], P[k], f[k])
    BY <2>2, <2>3 DEF Grown
  <2>5. Trail(lk, f, P, d)
    BY <2>1, <2>4, TrailToLeads
  <2> QED BY <2>1, <2>5 DEF Leads, d
<1> QED BY <1>1, <1>2

LEMMA KeptLeads ==
  ASSUME NEW lk, NEW lk2, NamesKept(lk, lk2), NEW P, Len(P) \in Nat, NEW j
  PROVE  Leads(lk, P, j) <=> Leads(lk2, P, j)
<1>1. ASSUME NEW f, NEW d PROVE Trail(lk, f, P, d) <=> Trail(lk2, f, P, d)
  BY DEF Trail, NamesKept
<1> QED BY <1>1 DEF Leads

\* What is removed was below its name only, and all else leads where it led.
LEMMA ShrunkLeads ==
  ASSUME NEW lk, NEW D, TreeOfNames(lk, D), NEW lk2, NEW p, NEW n, NEW t, Shrunk(lk, lk2, p, n, t),
         NEW P, Len(P) \in Nat, NEW j
  PROVE  /\ Leads(lk2, P, j) => Leads(lk, P, j) /\ j # t
         /\ Leads(lk, P, j) /\ j # t => Leads(lk2, P, j)
<1> DEFINE d == Len(P)
<1>0. d \in Nat
  OBVIOUS
<1>1. ASSUME Leads(lk2, P, j) PROVE Leads(lk, P, j) /\ j # t
  <2>1. PICK f : Trail(lk2, f, P, d) /\ f[d] = j
    BY <1>1 DEF Leads
  <2> HIDE DEF d
  <2>2. \A k \in 1 .. d : Child(lk2, f[k - 1], P[k], f[k])
    BY <2>1 DEF Trail
  <2>3. \A k \in 1 .. d : Child(lk, f[k - 1], P[k], f[k])
    BY <2>2 DEF Shrunk
  <2>4. Trail(lk, f, P, d)
    BY <2>1, <2>3, TrailToLeads
  <2>5. j # t
    <3>1. Child(lk, p, n, t)
      BY DEF Shrunk
    <3>2. t # Root
      BY <3>1, OneName
    <3>3. CASE d = 0
      BY <2>1, <3>2, <3>3 DEF Trail
    <3>4. CASE d # 0
      <4>1. d \in 1 .. d
        BY <1>0, <3>4
      <4>2. Child(lk, f[d - 1], P[d], f[d]) /\ Child(lk2, f[d - 1], P[d], f[d])
        BY <2>2, <2>3, <4>1
      <4>3. ASSUME f[d] = t PROVE f[d - 1] = p /\ P[d] = n
        BY <3>1, <4>2, <4>3, OneName
      <4>4. \A x : ~Child(lk2, p, n, x)
        BY DEF Shrunk
      <4> QED BY <2>1, <4>2, <4>3, <4>4
    <3> QED BY <3>3, <3>4
  <2> QED BY <2>1, <2>4, <2>5 DEF Leads, d
<1>2. ASSUME Leads(lk, P, j), j # t PROVE Leads(lk2, P, j)
  <2>1. PICK f : Trail(lk, f, P, d) /\ f[d] = j
    BY <1>2 DEF Leads
  <2> HIDE DEF d
  <2>2. \A k \in 1 .. d : Child(lk, f[k - 1], P[k], f[k])
    BY <2>1 DEF Trail
  <2>3. ASSUME NEW k \in 1 .. d PROVE f[k] # t
    <3>1. CASE k = d
      BY <1>2, <2>1, <3>1
    <3>2. CASE k # d
      <4>1. k + 1 \in 1 .. d /\ (k + 1) - 1 = k
        BY <1>0, <3>2
      <4>2. Child(lk, f[k], P[k + 1], f[k + 1])
        BY <2>2, <4>1
      <4> QED BY <4>2 DEF Shrunk
    <3> QED BY <3>1, <3>2
  <2>4. \A k \in 1 .. d : Child(lk2, f[k - 1], P[k], f[k])
    BY <2>2, <2>3 DEF Shrunk
  <2>5. Trail(lk2, f, P, d)
    BY <2>1, <2>4, TrailToLeads
  <2> QED BY <2>1, <2>5 DEF Leads, d
<1> QED BY <1>1, <1>2
-----------------------------------------------------------------------------
(* The way of a PUT.                                                       *)

\* The inodes at that a PUT meets along m parts of its path.
Route(lk, at, path, m) ==
  /\ at[0] = Root /\ \A k \in 0 .. m : at[k] \in Inode
  /\ \A k \in 1 .. m : lk[at[k - 1]][path[k]] = at[k]

RouteTo(lk, path, m, i) == \E at : Route(lk, at, path, m) /\ at[m] = i

LEMMA RouteStarts == ASSUME NEW lk, NEW path PROVE RouteTo(lk, path, 0, Root)
<1> DEFINE at == [k \in 0 .. 0 |-> Root]
<1>1. Root \in Inode
  BY SizesAssumption DEF Root, Inode
<1>2. at[0] = Root /\ \A k \in 0 .. 0 : at[k] \in Inode
  BY <1>1
<1>3. \A k \in 1 .. 0 : lk[at[k - 1]][path[k]] = at[k]
  OBVIOUS
<1> HIDE DEF at
<1> QED BY <1>2, <1>3 DEF Route, RouteTo

LEMMA RouteGrows ==
  ASSUME NEW lk, NEW path, NEW m \in Nat, NEW r, RouteTo(lk, path, m, r),
         NEW i \in Inode, lk[r][path[m + 1]] = i
  PROVE  RouteTo(lk, path, m + 1, i)
<1>1. PICK at : Route(lk, at, path, m) /\ at[m] = r
  BY DEF RouteTo
<1> DEFINE to == [k \in 0 .. m + 1 |-> IF k = m + 1 THEN i ELSE at[k]]
<1>2. /\ to[m + 1] = i /\ to[0] = at[0] /\ \A k \in 0 .. m : to[k] = at[k]
      /\ \A k \in 1 .. m : to[k] = at[k] /\ to[k - 1] = at[k - 1]
      /\ to[m] = at[m]
  OBVIOUS
<1>3. /\ \A k \in 0 .. m + 1 : k = m + 1 \/ k \in 0 .. m
      /\ \A k \in 1 .. m + 1 : k = m + 1 \/ k \in 1 .. m
      /\ (m + 1) - 1 = m
  OBVIOUS
<1> HIDE DEF to
<1>4. to[0] = Root
  BY <1>1, <1>2 DEF Route
<1>5. \A k \in 0 .. m + 1 : to[k] \in Inode
  BY <1>1, <1>2, <1>3 DEF Route
<1>6. ASSUME NEW k \in 1 .. m + 1 PROVE lk[to[k - 1]][path[k]] = to[k]
  <2>1. CASE k = m + 1
    BY <1>1, <1>2, <1>3, <2>1
  <2>2. CASE k \in 1 .. m
    BY <1>1, <1>2, <2>2 DEF Route
  <2> QED BY <1>3, <2>1, <2>2
<1>7. Route(lk, to, path, m + 1)
  BY <1>4, <1>5, <1>6 DEF Route
<1> QED BY <1>2, <1>7 DEF RouteTo

\* No name leads elsewhere than before.
FoundStay(lk, lk2) ==
  \A r \in LookupResult, m \in NameArg : lk[r][m] \in Inode => lk2[r][m] = lk[r][m]

LEMMA RouteKept ==
  ASSUME NEW lk, NEW lk2, FoundStay(lk, lk2), NEW path, NEW m \in Nat,
         \A k \in 1 .. m : path[k] \in NameArg, NEW i, RouteTo(lk, path, m, i)
  PROVE  RouteTo(lk2, path, m, i)
<1>1. PICK at : Route(lk, at, path, m) /\ at[m] = i
  BY DEF RouteTo
<1>2. ASSUME NEW k \in 1 .. m PROVE lk2[at[k - 1]][path[k]] = at[k]
  <2>1. k \in 0 .. m /\ k - 1 \in 0 .. m
    OBVIOUS
  <2>2. at[k - 1] \in LookupResult /\ at[k] \in Inode /\ lk[at[k - 1]][path[k]] = at[k]
    BY <1>1, <2>1 DEF Route, LookupResult
  <2> QED BY <2>2 DEF FoundStay
<1>3. Route(lk2, at, path, m)
  BY <1>1, <1>2 DEF Route
<1> QED BY <1>1, <1>3 DEF RouteTo

LEMMA RouteIsCanonical ==
  ASSUME NEW lk, NEW D, TreeOfNames(lk, D), NEW path \in Seq(NameArg), NEW i,
         RouteTo(lk, path, Len(path), i)
  PROVE  Leads(lk, Canonical(path), i)
<1> DEFINE L == Len(path)
<1>0. L \in Nat
  BY LenProperties
<1>1. PICK at : Route(lk, at, path, L) /\ at[L] = i
  BY DEF RouteTo
<1> HIDE DEF L
<1>2. at[0] = Root
  BY <1>1 DEF Route
<1>3. ASSUME NEW k \in 1 .. L PROVE Goes(lk, at[k - 1], path[k], at[k])
  <2>1. k \in 0 .. L
    BY <1>0
  <2> QED BY <1>1, <2>1 DEF Route, Goes
<1>4. \A k \in 1 .. Len(path) : Goes(lk, at[k - 1], path[k], at[k])
  BY <1>3 DEF L
<1> QED BY <1>1, <1>2, <1>4, GoesToCanonical DEF L

\* A GET of the path takes the same way.
LEMMA RouteIsFollowed ==
  ASSUME NEW lk, NEW D, TreeOfNames(lk, D), NEW path, NEW d \in Nat,
         \A k \in 1 .. d : path[k] \in NameArg, NEW i, RouteTo(lk, path, d, i),
         NEW at, Follows(lk, at, path, d)
  PROVE  at[d] = i
<1>1. PICK f : Route(lk, f, path, d) /\ f[d] = i
  BY DEF RouteTo
<1> DEFINE Bad == {k \in 0 .. d : at[k] # f[k]}
<1>2. ASSUME Bad # {} PROVE FALSE
  <2>1. PICK k \in Bad : \A j \in Bad : k <= j
    <3>1. Bad \subseteq Nat
      OBVIOUS
    <3> HIDE DEF Bad
    <3> QED BY <1>2, <3>1, MinOfNaturals
  <2>2. k \in 0 .. d /\ at[k] # f[k] /\ k # 0
    BY <1>1 DEF Follows, Route
  <2>3. k \in 1 .. d /\ k - 1 \in 0 .. d /\ k - 1 \notin Bad
    <3> HIDE DEF Bad
    <3> QED BY <2>1, <2>2
  <2>4. at[k - 1] = f[k - 1] /\ f[k - 1] \in Inode /\ f[k] \in Inode /\ lk[f[k - 1]][path[k]] = f[k]
    BY <1>1, <2>2, <2>3 DEF Route
  <2>5. path[k] # ""
    <3>1. \A r \in Inode, m \in NameArg : lk[r][m] \in Inode => m \in Names \cup {".", ".."}
      BY DEF TreeOfNames, LookupResult
    <3>2. path[k] \in Names \cup {".", ".."}
      BY <2>3, <2>4, <3>1
    <3> QED BY <3>2, NamesAssumption
  <2>6. at[k] = lk[at[k - 1]][path[k]]
    BY <2>3, <2>4, <2>5 DEF Follows
  <2> QED BY <2>2, <2>4, <2>6
<1>3. d \in 0 .. d
  OBVIOUS
<1> QED BY <1>1, <1>2, <1>3

-----------------------------------------------------------------------------
(* The last part of a path.                                                *)

LEMMA CanonicalStep ==
  ASSUME NEW path \in Seq(NameArg), Len(path) >= 1
  PROVE  /\ SubSeq(path, 1, Len(path) - 1) \in Seq(NameArg)
         /\ path[Len(path)] \in NameArg
         /\ Canonical(path) = UptoPart(Canonical(SubSeq(path, 1, Len(path) - 1)), path[Len(path)])
<1> DEFINE L == Len(path)
           q == SubSeq(path, 1, L - 1)
<1>0. L \in Nat /\ L >= 1
  BY LenProperties
<1>1. \A k \in 1 .. L : path[k] \in NameArg
  BY ElementOfSeq
<1>2. PICK u : Upto(u, path, L) /\ Canonical(path) = u[L]
  BY CanonicalIs
<1> HIDE DEF L
<1>3. /\ q \in Seq(NameArg)
      /\ Len(q) = IF 1 <= L - 1 THEN L - 1 - 1 + 1 ELSE 0
      /\ \A k \in 1 .. L - 1 - 1 + 1 : q[k] = path[1 + k - 1]
  <2>1. \A k \in 1 .. L - 1 : path[k] \in NameArg
    BY <1>0, <1>1
  <2>2. L - 1 \in Int
    BY <1>0
  <2> QED BY <2>1, <2>2, SubSeqProperties
<1> HIDE DEF q
<1> DEFINE c == Len(q)
<1>4. c \in Nat /\ c = L - 1 /\ \A k \in 1 .. c : q[k] = path[k]
  BY <1>0, <1>3
<1>5. PICK v : Upto(v, q, c) /\ Canonical(q) = v[c]
  BY <1>3, CanonicalIs
<1> HIDE DEF c
<1>6. v[c] = u[c]
  <2>1. c <= L
    BY <1>0, <1>4
  <2>2. Begins(q, path, c)
    BY <1>4 DEF Begins
  <2> QED BY <1>0, <1>2, <1>4, <1>5, <2>1, <2>2, UptoIsUnique
<1>7. L \in 1 .. L
  BY <1>0
<1>8. u[L] = UptoPart(u[L - 1], path[L])
  BY <1>2, <1>7 DEF Upto
<1>9. Canonical(path) = UptoPart(Canonical(q), path[L])
  BY <1>2, <1>4, <1>5, <1>6, <1>8
<1> QED BY <1>1, <1>3, <1>7, <1>9 DEF q, L

LEMMA TrimmedIsCanonical ==
  ASSUME NEW given \in Paths
  PROVE  Canonical(DelPath(given)) = Canonical(given)
<1>1. given \in Seq(NameArg) /\ Len(given) >= 1
  BY PathParts
<1>2. CASE Len(given) > 1 /\ given[Len(given)] = ""
  <2>1. DelPath(given) = SubSeq(given, 1, Len(given) - 1)
    BY <1>2 DEF DelPath
  <2>2. UptoPart(Canonical(SubSeq(given, 1, Len(given) - 1)), "") = Canonical(SubSeq(given, 1, Len(given) - 1))
    BY DEF UptoPart
  <2> QED BY <1>1, <1>2, <2>1, <2>2, CanonicalStep
<1>3. CASE ~(Len(given) > 1 /\ given[Len(given)] = "")
  BY <1>3 DEF DelPath
<1> QED BY <1>2, <1>3

\* What a DELETE removes is what its path leads to.
LEMMA DelRemoves ==
  ASSUME FInv, NEW given \in Paths, Del(given), DelReply(given) = OK
  PROVE  \E p, n, t : /\ t \in Inode /\ Shrunk(Lookups, Lookups', p, n, t)
                      /\ FilesKept(SeenTree, SeenTree', {t}) /\ t \notin Files(SeenTree')
                      /\ Leads(Lookups, Canonical(given), t)
<1> DEFINE tr == DelPath(given)
           q == SubSeq(tr, 1, Len(tr) - 1)
           n == tr[Len(tr)]
           p == Walk(q)
<1>1. tr \in Seq(NameArg) /\ Len(tr) >= 1
  BY PathParts
<1>2. Unlink(p, n)
  BY Zenon DEF Del
<1>3. q \in Seq(NameArg) /\ n \in NameArg /\ Canonical(tr) = UptoPart(Canonical(q), n)
  BY <1>1, CanonicalStep
<1>4. Canonical(tr) = Canonical(given)
  BY TrimmedIsCanonical
<1> HIDE DEF tr, q, n
<1>5. PICK at : Follows(Lookups, at, q, Len(q)) /\ p = at[Len(q)]
  BY <1>3, WalkFollows
<1> HIDE DEF p
<1>6. p \in InodeArg
  <2>1. UnlinkReturn(p, n) = 0
    BY <1>2, Zenon DEF Unlink
  <2> QED BY <2>1, UnlinkNeedsDirectory, InodesAreArguments DEF IsDirectory, Allocated
<1>7. PICK t \in Inode : /\ Shrunk(Lookups, Lookups', p, n, t)
                         /\ FilesKept(SeenTree, SeenTree', {t}) /\ t \notin Files(SeenTree')
  BY <1>2, <1>3, <1>6, UnlinkShrinks
<1>8. TreeOfNames(Lookups, Directories)
  BY DirectoriesFormATree DEF NamesFormATree
<1>9. p \in Inode /\ Goes(Lookups, p, n, t)
  BY <1>7 DEF Shrunk, Child, Goes
<1>10. Leads(Lookups, Canonical(q), p)
  BY <1>3, <1>5, <1>8, <1>9, WalkToCanonical
<1>11. Leads(Lookups, UptoPart(Canonical(q), n), t)
  BY <1>3, <1>8, <1>9, <1>10, CanonicalIsClean, LeadsOn
<1> QED BY <1>3, <1>4, <1>7, <1>11

-----------------------------------------------------------------------------
(* The handler of a PUT is where its path leads.                           *)

HandlerOn(lk, ph, path, rs, i) ==
  /\ ph = "walk" =>
       \E m \in Nat : /\ Len(rs) + m = Len(path) /\ \A k \in 1 .. Len(rs) : rs[k] = path[m + k]
                      /\ RouteTo(lk, path, m, i)
  /\ ph = "write" => RouteTo(lk, path, Len(path), i)

\* The variable inum is the inode at the end of the parts that are consumed.
HandlerIsOnItsWay == HandlerOn(Lookups, phase, request.path, rest, inum)

LEMMA PartTaken ==
  ASSUME NEW lk, NEW lk2, FoundStay(lk, lk2), NEW path \in Seq(NameArg), NEW rs \in Seq(NameArg),
         Len(rs) >= 1, NEW r, HandlerOn(lk, "walk", path, rs, r),
         NEW i \in Inode, lk2[r][Head(rs)] = i
  PROVE  /\ HandlerOn(lk2, "walk", path, Tail(rs), i)
         /\ Len(rs) = 1 => \A any : HandlerOn(lk2, "write", path, any, i)
<1> DEFINE L == Len(path)
           l == Len(rs)
<1>0. L \in Nat /\ l \in Nat /\ l >= 1
  BY LenProperties
<1>1. \A k \in 1 .. L : path[k] \in NameArg
  BY ElementOfSeq
<1>2. PICK m \in Nat : l + m = L /\ (\A k \in 1 .. l : rs[k] = path[m + k]) /\ RouteTo(lk, path, m, r)
  BY DEF HandlerOn
<1> DEFINE tl == Tail(rs)
<1>3. Head(rs) = rs[1] /\ Len(tl) = l - 1 /\ \A k \in 1 .. l - 1 : tl[k] = rs[k + 1]
  <2>1. rs # <<>>
    BY <1>0
  <2> QED BY <2>1, HeadTailProperties
<1> HIDE DEF l, L, tl
<1>4. \A k \in 1 .. m : path[k] \in NameArg
  BY <1>0, <1>1, <1>2
<1>5. RouteTo(lk2, path, m, r)
  BY <1>2, <1>4, RouteKept
<1>6. 1 \in 1 .. l
  BY <1>0
<1>7. path[m + 1] = Head(rs)
  BY <1>2, <1>3, <1>6
<1>8. RouteTo(lk2, path, m + 1, i)
  BY <1>5, <1>7, RouteGrows
<1>9. /\ m + 1 \in Nat /\ (l - 1) + (m + 1) = L /\ (l = 1 => m + 1 = L)
      /\ \A k \in 1 .. l - 1 : k + 1 \in 1 .. l /\ m + (k + 1) = (m + 1) + k
  BY <1>0, <1>2
<1>10. \A k \in 1 .. l - 1 : tl[k] = path[(m + 1) + k]
  <2>1. ASSUME NEW k \in 1 .. l - 1 PROVE tl[k] = path[(m + 1) + k]
    <3>1. tl[k] = rs[k + 1] /\ rs[k + 1] = path[m + (k + 1)]
      BY <1>2, <1>3, <1>9
    <3> QED BY <1>9, <3>1
  <2> QED BY <2>1
<1>11. HandlerOn(lk2, "walk", path, tl, i)
  BY <1>3, <1>8, <1>9, <1>10 DEF HandlerOn, L
<1>12. l = 1 => \A any : HandlerOn(lk2, "write", path, any, i)
  BY <1>8, <1>9 DEF HandlerOn, L
<1> QED BY <1>11, <1>12 DEF tl, l

LEMMA LookupsSame == UNCHANGED fsvars => Lookups' = Lookups /\ SeenTree' = SeenTree
<1> SUFFICES ASSUME UNCHANGED fsvars PROVE Lookups' = Lookups /\ SeenTree' = SeenTree
  OBVIOUS
<1>1. /\ inodeBitmap' = inodeBitmap /\ dataBitmap' = dataBitmap
      /\ inodes' = inodes /\ dataRegion' = dataRegion
  BY DEF fsvars
<1>2. \A r, n : lookup(r, n)' = lookup(r, n)
  BY <1>1, Zenon DEF lookup, IsDirectory, Allocated, Positions, EntryAt
<1>3. Lookups' = Lookups
  BY <1>2, Zenon DEF Lookups, LookupResult
<1>4. \A i : SeenNode(i)' = SeenNode(i)
  BY <1>1 DEF SeenNode, lookup, IsDirectory, Allocated, Positions, EntryAt,
              ReadCells, ReadVisits
<1>5. SeenTree' = SeenTree
  BY <1>4, Zenon DEF SeenTree
<1> QED BY <1>3, <1>5

\* Where a part of the path is found or made.
LEMMA PartFound ==
  ASSUME FInv, HandlerIsTyped, HandlerIsOnItsWay, phase = "walk", UNCHANGED fsvars,
         NEW i, i = lookup(inum, Head(rest)), i >= 0
  PROVE  i \in Inode /\ FoundStay(Lookups, Lookups') /\ Lookups'[inum][Head(rest)] = i
<1>1. Head(rest) \in NameArg
  BY DEF HandlerIsTyped
<1>2. inum \in Inode
  <2>1. PICK m \in Nat : RouteTo(Lookups, request.path, m, inum)
    BY DEF HandlerIsOnItsWay, HandlerOn
  <2>2. m \in 0 .. m
    BY <2>1
  <2> QED BY <2>1, <2>2 DEF RouteTo, Route
<1>3. i \in LookupResult
  BY <1>1, LookupIsTyped
<1>4. i \in Inode
  BY <1>3, FailuresAreNoInodes DEF LookupResult
<1>5. Lookups[inum][Head(rest)] = i
  BY <1>1, <1>2, LookupsAre DEF LookupResult
<1>6. Lookups' = Lookups
  BY LookupsSame
<1> QED BY <1>4, <1>5, <1>6 DEF FoundStay

LEMMA PartMade ==
  ASSUME FInv, HandlerIsTyped, phase = "walk", NEW t \in {UFS_DIRECTORY, UFS_REGULAR_FILE},
         Create(inum, t, Head(rest)), NEW i, i = CreateReturn(inum, t, Head(rest))
  PROVE  /\ i \in Inode /\ FoundStay(Lookups, Lookups') /\ Lookups'[inum][Head(rest)] = i
         /\ Grown(Lookups, Lookups', inum, Head(rest), i)
         /\ FilesKept(SeenTree, SeenTree', {i}) /\ i \notin Files(SeenTree)
         /\ t = UFS_DIRECTORY => i \notin Files(SeenTree')
<1>1. Head(rest) \in NameArg
  BY DEF HandlerIsTyped
<1>2. inum \in InodeArg
  <2>1. IsDirectory(inum)
    BY Zenon DEF Create
  <2> QED BY <2>1, InodesAreArguments DEF IsDirectory, Allocated
<1>3. /\ Grown(Lookups, Lookups', inum, Head(rest), i) /\ i \in Inode
      /\ FilesKept(SeenTree, SeenTree', {i}) /\ i \notin Files(SeenTree)
      /\ t = UFS_DIRECTORY => i \notin Files(SeenTree')
  BY <1>1, <1>2, CreateGrows
<1> QED BY <1>3 DEF Grown, FoundStay, Child

LEMMA HandlerStaysOnItsWay ==
  FInv /\ HandlerIsTyped /\ HandlerIsOnItsWay /\ [ServiceNext]_allvars => HandlerIsOnItsWay'
<1> SUFFICES ASSUME FInv, HandlerIsTyped, HandlerIsOnItsWay, [ServiceNext]_allvars
             PROVE  HandlerOn(Lookups', phase', request'.path, rest', inum')
  BY Zenon DEF HandlerIsOnItsWay
<1>1. ASSUME NEW s, Answer(s) PROVE HandlerOn(Lookups', phase', request'.path, rest', inum')
  BY <1>1 DEF Answer, HandlerOn
<1>2. CASE \E path \in Paths : Get(path) \/ Del(path)
  BY <1>1, <1>2, Zenon DEF Get, Del
<1>3. CASE \E r \in PutRequest : Put(r)
  <2>1. PICK r \in PutRequest : Put(r)
    BY <1>3
  <2>2. phase' = "walk" /\ request' = r /\ rest' = r.path /\ inum' = Root
    BY <2>1 DEF Put
  <2>3. r.path \in Seq(NameArg)
    BY PathParts DEF PutRequest
  <2> DEFINE l == Len(r.path)
  <2>4. l \in Nat
    BY <2>3, LenProperties
  <2> HIDE DEF l
  <2>5. 0 \in Nat /\ l + 0 = l /\ \A k \in 1 .. l : r.path[k] = r.path[0 + k]
    BY <2>4
  <2>6. RouteTo(Lookups', r.path, 0, Root)
    BY RouteStarts
  <2>7. HandlerOn(Lookups', "walk", r.path, r.path, Root)
    BY <2>5, <2>6 DEF HandlerOn, l
  <2> QED BY <2>2, <2>7
<1>4. ASSUME phase = "walk"
      PROVE  /\ request.path \in Seq(NameArg) /\ rest \in Seq(NameArg) /\ Len(rest) >= 1
             /\ HandlerOn(Lookups, "walk", request.path, rest, inum)
  BY <1>4, PathParts DEF HandlerIsTyped, PutRequest, HandlerIsOnItsWay
<1>5. CASE PutComponent
  <2>1. phase = "walk"
    BY <1>5, Zenon DEF PutComponent
  <2>2. CASE \E s : Answer(s)
    BY <1>1, <2>2
  <2>3. ASSUME NEW i, i \in Inode, FoundStay(Lookups, Lookups'), Lookups'[inum][Head(rest)] = i,
               inum' = i, rest' = Tail(rest), UNCHANGED <<phase, request, status>>
        PROVE  HandlerOn(Lookups', phase', request'.path, rest', inum')
    <3>1. HandlerOn(Lookups', "walk", request.path, Tail(rest), i)
      BY <1>4, <2>1, <2>3, PartTaken
    <3> QED BY <2>1, <2>3, <3>1
  <2> DEFINE found == lookup(inum, Head(rest))
             made == CreateReturn(inum, UFS_DIRECTORY, Head(rest))
  <2>4. \/ \E s : Answer(s)
        \/ /\ found >= 0 /\ UNCHANGED fsvars
           /\ inum' = found /\ rest' = Tail(rest) /\ UNCHANGED <<phase, request, status>>
        \/ /\ Create(inum, UFS_DIRECTORY, Head(rest))
           /\ inum' = made /\ rest' = Tail(rest) /\ UNCHANGED <<phase, request, status>>
    BY <1>5, Zenon DEF PutComponent
  <2> HIDE DEF found, made
  <2>5. CASE /\ found >= 0 /\ UNCHANGED fsvars
             /\ inum' = found /\ rest' = Tail(rest) /\ UNCHANGED <<phase, request, status>>
    BY <2>1, <2>3, <2>5, PartFound DEF found
  <2>6. CASE /\ Create(inum, UFS_DIRECTORY, Head(rest))
             /\ inum' = made /\ rest' = Tail(rest) /\ UNCHANGED <<phase, request, status>>
    BY <2>1, <2>3, <2>6, PartMade DEF made
  <2> QED BY <2>2, <2>4, <2>5, <2>6
<1>6. CASE PutFile
  <2>1. phase = "walk" /\ Len(rest) = 1
    BY <1>6, Zenon DEF PutFile
  <2>2. CASE \E s : Answer(s)
    BY <1>1, <2>2
  <2>3. ASSUME NEW i, i \in Inode, FoundStay(Lookups, Lookups'), Lookups'[inum][Head(rest)] = i,
               inum' = i, phase' = "write", UNCHANGED <<request, rest, status>>
        PROVE  HandlerOn(Lookups', phase', request'.path, rest', inum')
    <3>1. HandlerOn(Lookups', "write", request.path, rest, i)
      BY <1>4, <2>1, <2>3, PartTaken
    <3> QED BY <2>3, <3>1
  <2> DEFINE found == lookup(inum, Head(rest))
             made == CreateReturn(inum, UFS_REGULAR_FILE, Head(rest))
  <2>4. \/ \E s : Answer(s)
        \/ /\ found >= 0 /\ UNCHANGED fsvars
           /\ inum' = found /\ phase' = "write" /\ UNCHANGED <<request, rest, status>>
        \/ /\ Create(inum, UFS_REGULAR_FILE, Head(rest))
           /\ inum' = made /\ phase' = "write" /\ UNCHANGED <<request, rest, status>>
    BY <1>6, Zenon DEF PutFile
  <2> HIDE DEF found, made
  <2>5. CASE /\ found >= 0 /\ UNCHANGED fsvars
             /\ inum' = found /\ phase' = "write" /\ UNCHANGED <<request, rest, status>>
    BY <2>1, <2>3, <2>5, PartFound DEF found
  <2>6. CASE /\ Create(inum, UFS_REGULAR_FILE, Head(rest))
             /\ inum' = made /\ phase' = "write" /\ UNCHANGED <<request, rest, status>>
    BY <2>1, <2>3, <2>6, PartMade DEF made
  <2> QED BY <2>2, <2>4, <2>5, <2>6
<1>7. CASE PutWrite \/ Refuse \/ Crash
  BY <1>1, <1>7, Zenon DEF PutWrite, Refuse, Crash
<1>8. CASE UNCHANGED allvars
  <2>1. UNCHANGED fsvars /\ phase' = phase /\ request' = request /\ rest' = rest /\ inum' = inum
    BY <1>8 DEF allvars, fsvars
  <2>2. HandlerOn(Lookups, phase, request.path, rest, inum)
    BY DEF HandlerIsOnItsWay
  <2> QED BY <2>1, <2>2, LookupsSame
<1> QED BY <1>2, <1>3, <1>5, <1>6, <1>7, <1>8 DEF ServiceNext, PutStep

\* What the steps of the service can rely on.
HandlerInv == FInv /\ HandlerIsTyped /\ HandlerIsOnItsWay

LEMMA ServiceKeepsHandlerInv == ServiceSpec => []HandlerInv
<1>1. ServiceSpec => []FInv
  BY ServiceUsesTheFileSystem, CallsKeepFInv, PTL
<1>2. ServiceInit => HandlerIsOnItsWay
  BY DEF ServiceInit, HandlerIsOnItsWay, HandlerOn
<1>3. ServiceSpec => []HandlerIsOnItsWay
  BY <1>1, <1>2, HandlerTyped, HandlerStaysOnItsWay, PTL DEF ServiceSpec
<1> QED BY <1>1, <1>3, HandlerTyped, PTL DEF HandlerInv
-----------------------------------------------------------------------------
(* What paths lead to, before and after a step.                            *)

LEMMA ObjectPathsAre ==
  ASSUME NEW path \in ObjectPaths
  PROVE  path \in Seq(NameArg) /\ Clean(path) /\ Len(path) \in Nat
<1>1. PICK d \in 1 .. NumInodes - 1 : path \in [1 .. d -> Names]
  BY DEF ObjectPaths
<1>2. d \in Nat
  BY SizesAssumption
<1>3. path \in Seq(Names)
  BY <1>1, <1>2
<1>4. Len(path) \in Nat /\ \A k \in 1 .. Len(path) : path[k] \in Names
  BY <1>3, LenProperties, ElementOfSeq
<1>5. path \in Seq(NameArg)
  <2>1. Names \subseteq NameArg
    BY DEF NameArg
  <2>2. path \in [1 .. d -> NameArg]
    BY <1>1, <2>1
  <2> HIDE DEF NameArg
  <2> QED BY <1>2, <2>2
<1> QED BY <1>4, <1>5, NamesAssumption DEF Clean

\* An inode that is seen at the end of a clean path is the one it leads to.
LEMMA SeenAtTheEnd ==
  ASSUME NEW T, NEW lk, NEW D, TreeOfNames(lk, D), NEW path \in Seq(NameArg), Clean(path),
         NEW w, NEW reply, Sees(T, lk, path, w, reply)
  PROVE  (w \in Inode => Leads(lk, path, w)) /\ \A j : Leads(lk, path, j) => j = w
<1>1. PICK at : Follows(lk, at, path, Len(path)) /\ w = at[Len(path)]
  BY DEF Sees
<1> QED BY <1>1, CleanWalk

ObjectsAreFiles ==
  \A path \in ObjectPaths :
    /\ IsObject(path) <=> \E j \in Files(SeenTree) : Leads(Lookups, path, j)
    /\ \A j \in Files(SeenTree) :
         Leads(Lookups, path, j) => GetReply(path) = FileAnswer(SeenTree[j].content)

\* A file answers, and nothing else answers like one.
LEMMA FileIsAnswered ==
  ASSUME NEW T, NEW j \in Files(T), NEW reply, Answers(T, j, reply)
  PROVE  reply = FileAnswer(T[j].content)
<1>1. j \in Inode /\ T[j].kind = "file"
  BY DEF Files
<1> QED BY <1>1 DEF Answers

LEMMA ObjectsSeen == FInv => ObjectsAreFiles
<1> SUFFICES ASSUME FInv, NEW path \in ObjectPaths
             PROVE  /\ IsObject(path) <=> \E j \in Files(SeenTree) : Leads(Lookups, path, j)
                    /\ \A j \in Files(SeenTree) :
                         Leads(Lookups, path, j) => GetReply(path) = FileAnswer(SeenTree[j].content)
  BY DEF ObjectsAreFiles
<1>1. path \in Seq(NameArg) /\ Clean(path)
  BY ObjectPathsAre
<1>2. TreeOfNames(Lookups, Directories)
  BY DirectoriesFormATree DEF NamesFormATree
<1> DEFINE w == Walk(path)
<1>3. Sees(SeenTree, Lookups, path, w, GetReply(path)) /\ (IsObject(path) <=> w \in Files(SeenTree))
  BY <1>1, GetShowsTheTree, FilesSeen DEF ClientsSeeTheTree, FilesAreObjects
<1> HIDE DEF w
<1>4. (w \in Inode => Leads(Lookups, path, w)) /\ \A j : Leads(Lookups, path, j) => j = w
  BY <1>1, <1>2, <1>3, SeenAtTheEnd
<1>5. \A j \in Files(SeenTree) : j \in Inode
  BY DEF Files
<1>6. ASSUME NEW j \in Files(SeenTree), Leads(Lookups, path, j)
      PROVE  GetReply(path) = FileAnswer(SeenTree[j].content)
  <2>1. j = w /\ Answers(SeenTree, w, GetReply(path))
    BY <1>3, <1>4, <1>6 DEF Sees
  <2> QED BY <2>1, FileIsAnswered
<1> QED BY <1>3, <1>4, <1>5, <1>6

LEMMA ObjectsSeenNext == FInv' => ObjectsAreFiles'
  BY ObjectsSeen, PTL

LEMMA ServiceKeepsFInv == HandlerInv /\ [ServiceNext]_allvars => FInv'
  BY ServiceStepIsACall, NextKeepsFInv DEF HandlerInv

\* The steps that change the image.
LEMMA StepsThatChange ==
  ASSUME HandlerInv, ServiceNext, fsvars' # fsvars
  PROVE  \/ phase = "idle" /\ \E given \in Paths : Del(given)
         \/ /\ phase = "walk"
            /\ \/ Create(inum, UFS_DIRECTORY, Head(rest))
               \/ /\ Create(inum, UFS_REGULAR_FILE, Head(rest))
                  /\ inum' = CreateReturn(inum, UFS_REGULAR_FILE, Head(rest))
                  /\ phase' = "write" /\ request' = request
         \/ phase = "write" /\ Write(inum, request.body, request.size)
<1>1. CASE \E path \in Paths : Get(path) \/ Del(path)
  BY <1>1, Zenon DEF Get, Del
<1>2. CASE \E r \in PutRequest : Put(r)
  BY <1>2, Zenon DEF Put
<1>3. CASE PutComponent
  BY <1>3, Zenon DEF PutComponent
<1>4. CASE PutFile
  BY <1>4, Zenon DEF PutFile
<1>5. CASE PutWrite
  BY <1>5, Zenon DEF PutWrite
<1>6. CASE Refuse \/ Crash
  BY <1>6, Zenon DEF Refuse, Crash
<1> QED BY <1>1, <1>2, <1>3, <1>4, <1>5, <1>6 DEF ServiceNext, PutStep

\* The file a PUT works on is at its path.
LEMMA FileIsAtItsPath ==
  ASSUME HandlerInv, phase = "write"
  PROVE  /\ request.path \in Seq(NameArg) /\ Canonical(request.path) \in Seq(NameArg)
         /\ request.body \in Values /\ request.size \in Sizes \cap Nat
         /\ RouteTo(Lookups, request.path, Len(request.path), inum)
         /\ inum \in Inode /\ Leads(Lookups, Canonical(request.path), inum)
<1>1. request \in PutRequest
  BY DEF HandlerInv, HandlerIsTyped
<1>2. request.path \in Seq(NameArg) /\ Canonical(request.path) \in Seq(NameArg)
  BY <1>1, PathParts, CanonicalIsClean DEF PutRequest
<1>3. RouteTo(Lookups, request.path, Len(request.path), inum)
  BY DEF HandlerInv, HandlerIsOnItsWay, HandlerOn
<1>4. inum \in Inode
  <2> DEFINE L == Len(request.path)
  <2>1. L \in Nat /\ RouteTo(Lookups, request.path, L, inum)
    BY <1>2, <1>3, LenProperties
  <2> HIDE DEF L
  <2>2. L \in 0 .. L
    BY <2>1
  <2> QED BY <2>1, <2>2 DEF RouteTo, Route
<1>5. Leads(Lookups, Canonical(request.path), inum)
  <2>1. TreeOfNames(Lookups, Directories)
    BY DirectoriesFormATree DEF NamesFormATree, HandlerInv
  <2> QED BY <1>2, <1>3, <2>1, RouteIsCanonical
<1> QED BY <1>1, <1>2, <1>3, <1>4, <1>5 DEF PutRequest
-----------------------------------------------------------------------------
(* The service's promises.                                                 *)

LEMMA WriteIsServed ==
  ASSUME HandlerInv, FInv', phase = "write", Write(inum, request.body, request.size),
         NEW path \in {request.path, Canonical(request.path)}
  PROVE  GetReply(path)' = [status |-> OK,
                            body |-> [k \in 0 .. request.size - 1 |-> Entry(request.body, k)]]
<1>1. /\ request.path \in Seq(NameArg) /\ Canonical(request.path) \in Seq(NameArg)
      /\ request.body \in Values /\ request.size \in Sizes \cap Nat
      /\ RouteTo(Lookups, request.path, Len(request.path), inum)
      /\ inum \in Inode /\ Leads(Lookups, Canonical(request.path), inum)
  BY FileIsAtItsPath
<1> DEFINE n == request.size
           c == [k \in 0 .. n - 1 |-> Entry(request.body, k)]
<1>2. n \in Nat /\ n > 0
  <2>1. WriteReturn(inum, n) > 0
    BY Zenon DEF Write
  <2>2. ~(-EINVALIDSIZE > 0)
    BY DEF EINVALIDSIZE
  <2>3. n <= 0 => WriteReturn(inum, n) = -EINVALIDSIZE
    BY Zenon DEF WriteReturn
  <2> QED BY <1>1, <2>1, <2>2, <2>3
<1>3. /\ NamesKept(Lookups, Lookups') /\ Files(SeenTree') = Files(SeenTree)
      /\ SeenTree'[inum] = [kind |-> "file", content |-> c]
  <2>1. inum \in InodeArg /\ FInv
    BY <1>1, InodesAreArguments DEF HandlerInv
  <2> QED BY <1>1, <2>1, WriteKeepsNames
<1>4. PICK T2, lk2, D2 : /\ T2 = SeenTree' /\ lk2 = Lookups' /\ D2 = Directories'
                         /\ TreeOfNames(lk2, D2)
  BY ValuesSeenNext
<1>5. path \in Seq(NameArg)
  BY <1>1
<1>6. PICK w, reply : w = Walk(path)' /\ reply = GetReply(path)' /\ Sees(T2, lk2, path, w, reply)
  BY <1>4, <1>5, ClientsSeeNext
<1> HIDE DEF c
<1>7. inum \in Files(T2) /\ T2[inum].content = c
  BY <1>1, <1>3, <1>4 DEF Files
<1>8. w = inum
  <2>1. CASE path = request.path
    <3> DEFINE L == Len(path)
    <3>1. L \in Nat
      BY <1>5, LenProperties
    <3>2. \A k \in 1 .. L : path[k] \in NameArg
      BY <1>5, ElementOfSeq
    <3>3. RouteTo(Lookups, path, L, inum)
      BY <1>1, <2>1
    <3>4. PICK at : Follows(lk2, at, path, L) /\ w = at[L]
      BY <1>6 DEF Sees
    <3> HIDE DEF L
    <3>5. FoundStay(Lookups, lk2)
      BY <1>3, <1>4 DEF NamesKept, FoundStay
    <3>6. RouteTo(lk2, path, L, inum)
      BY <3>1, <3>2, <3>3, <3>5, RouteKept
    <3> QED BY <1>4, <3>1, <3>2, <3>4, <3>6, RouteIsFollowed
  <2>2. CASE path = Canonical(request.path)
    <3>1. Leads(lk2, path, inum)
      <4>1. Len(path) \in Nat
        BY <1>5, LenProperties
      <4>2. NamesKept(Lookups, lk2) /\ Leads(Lookups, path, inum)
        BY <1>1, <1>3, <1>4, <2>2
      <4> QED BY <4>1, <4>2, KeptLeads
    <3>2. Clean(path)
      BY <1>1, <2>2, CanonicalIsClean
    <3> QED BY <1>4, <1>5, <1>6, <3>1, <3>2, SeenAtTheEnd
  <2> QED BY <2>1, <2>2
<1>9. reply = FileAnswer(c)
  <2>1. Answers(T2, inum, reply)
    BY <1>6, <1>8 DEF Sees
  <2> QED BY <1>7, <2>1, FileIsAnswered
<1>10. DOMAIN c # {}
  <2>1. 0 \in 0 .. n - 1
    BY <1>2
  <2>2. DOMAIN c = 0 .. n - 1
    BY DEF c
  <2> HIDE DEF n
  <2> QED BY <2>1, <2>2
<1>11. reply = [status |-> OK, body |-> c]
  BY <1>9, <1>10 DEF FileAnswer
<1> QED BY <1>6, <1>11 DEF c

\* A PUT that is answered with 200 can be read back, by the path it was given
\* and by the plain form of that path: whatever directories it had to make,
\* and whatever blocks its inode had and got, write and GET meet in one inode.
THEOREM PutThenGetHolds == ServiceSpec => PutThenGet
<1>1. ASSUME HandlerInv, [ServiceNext]_allvars, phase = "write", status' = OK, allvars' # allvars,
             NEW path \in {request.path, Canonical(request.path)}
      PROVE  GetReply(path)' = [status |-> OK,
                                body |-> [k \in 0 .. request.size - 1 |-> Entry(request.body, k)]]
  <2>1. FInv'
    BY <1>1, ServiceKeepsFInv
  <2>2. PutWrite
    <3>1. ~(\E p \in Paths : Get(p) \/ Del(p)) /\ ~(\E r \in PutRequest : Put(r)) /\ ~Refuse
      BY <1>1, Zenon DEF Get, Del, Put, Refuse
    <3>2. ~PutComponent /\ ~PutFile
      BY <1>1, Zenon DEF PutComponent, PutFile
    <3>3. ~Crash
      BY <1>1 DEF Crash, Answer, OK
    <3> QED BY <1>1, <3>1, <3>2, <3>3 DEF ServiceNext, PutStep
  <2>3. Write(inum, request.body, request.size)
    BY <1>1, <2>2 DEF PutWrite, Answer, OK, InsufficientStorage
  <2> QED BY <1>1, <2>1, <2>3, WriteIsServed
<1>2. HandlerInv /\ [ServiceNext]_allvars =>
        [(phase = "write" /\ status' = OK) =>
           \A path \in {request.path, Canonical(request.path)} :
             (GetReply(path))' =
                [status |-> OK,
                 body |-> [k \in 0 .. request.size - 1 |-> Entry(request.body, k)]]]_allvars
  BY <1>1
<1> QED BY <1>2, ServiceKeepsHandlerInv, PTL DEF ServiceSpec, PutThenGet

\* After a DELETE nothing is found, neither where its path led nor elsewhere.
LEMMA DelLeavesNothing ==
  ASSUME HandlerInv, FInv', fsvars' # fsvars, NEW given \in Paths, Del(given)
  PROVE  /\ \A path \in {given, Canonical(given)} : GetReply(path)'.status = NotFound
         /\ \A path \in ObjectPaths : IsObject(path)' => IsObject(path)
         /\ OthersKept(Canonical(given))
<1>0. FInv /\ DelReply(given) = OK
  BY Zenon DEF HandlerInv, Del
<1>1. PICK p, n, t : /\ t \in Inode /\ Shrunk(Lookups, Lookups', p, n, t)
                     /\ FilesKept(SeenTree, SeenTree', {t}) /\ t \notin Files(SeenTree')
                     /\ Leads(Lookups, Canonical(given), t)
  BY <1>0, DelRemoves
<1>2. PICK T, lk, D : /\ T = SeenTree /\ lk = Lookups /\ D = Directories /\ TreeOfNames(lk, D)
  BY <1>0, ValuesSeen
<1>3. PICK T2, lk2, D2 : /\ T2 = SeenTree' /\ lk2 = Lookups' /\ D2 = Directories'
                         /\ TreeOfNames(lk2, D2)
  BY ValuesSeenNext
<1>4. /\ Shrunk(lk, lk2, p, n, t) /\ FilesKept(T, T2, {t}) /\ t \notin Files(T2)
      /\ Leads(lk, Canonical(given), t)
  BY <1>1, <1>2, <1>3
<1>5. given \in Seq(NameArg) /\ Canonical(given) \in Seq(NameArg) /\ Clean(Canonical(given))
  BY PathParts, CanonicalIsClean
<1>6. \A P, j : Len(P) \in Nat =>
        /\ Leads(lk2, P, j) => Leads(lk, P, j) /\ j # t
        /\ Leads(lk, P, j) /\ j # t => Leads(lk2, P, j)
  BY <1>2, <1>4, ShrunkLeads
<1>7. ASSUME NEW path \in {given, Canonical(given)} PROVE GetReply(path)'.status = NotFound
  <2>1. path \in Seq(NameArg)
    BY <1>5
  <2>2. PICK w, reply : w = Walk(path)' /\ reply = GetReply(path)' /\ Sees(T2, lk2, path, w, reply)
    BY <1>3, <2>1, ClientsSeeNext
  <2>3. w \in Inode => Leads(lk2, Canonical(given), w)
    <3>1. CASE path = given
      <4>1. PICK at : Follows(lk2, at, path, Len(path)) /\ w = at[Len(path)]
        BY <2>2 DEF Sees
      <4> QED BY <1>3, <2>1, <3>1, <4>1, WalkToCanonical
    <3>2. CASE path = Canonical(given)
      BY <1>3, <1>5, <2>2, <3>2, SeenAtTheEnd
    <3> QED BY <3>1, <3>2
  <2>4. \A j : Leads(lk, Canonical(given), j) => j = t
    <3>1. PICK i : Sees(T, lk, Canonical(given), i, GetReply(Canonical(given)))
      BY <1>0, <1>2, <1>5, GetShowsTheTree DEF ClientsSeeTheTree
    <3>2. \A j : Leads(lk, Canonical(given), j) => j = i
      BY <1>2, <1>5, <3>1, SeenAtTheEnd
    <3> QED BY <1>4, <3>2
  <2>5. Len(Canonical(given)) \in Nat
    BY <1>5, LenProperties
  <2>6. w \notin Inode
    BY <1>6, <2>3, <2>4, <2>5
  <2>7. reply.status = NotFound
    <3>1. Answers(T2, w, reply)
      BY <2>2 DEF Sees
    <3> QED BY <2>6, <3>1 DEF Answers, Files
  <2> QED BY <2>2, <2>7
<1>8. ObjectsAreFiles
  BY <1>0, ObjectsSeen
<1>9. ObjectsAreFiles'
  BY ObjectsSeenNext
<1>10. \A path \in ObjectPaths :
         /\ IsObject(path)' <=> \E j \in Files(T2) : Leads(lk2, path, j)
         /\ \A j \in Files(T2) : Leads(lk2, path, j) => GetReply(path)' = FileAnswer(T2[j].content)
  BY <1>3, <1>9, Zenon DEF ObjectsAreFiles
<1>11. \A path \in ObjectPaths :
         /\ IsObject(path) <=> \E j \in Files(T) : Leads(lk, path, j)
         /\ \A j \in Files(T) : Leads(lk, path, j) => GetReply(path) = FileAnswer(T[j].content)
  BY <1>2, <1>8, Zenon DEF ObjectsAreFiles
<1>12. ASSUME NEW path \in ObjectPaths, IsObject(path)' PROVE IsObject(path)
  <2>1. PICK j \in Files(T2) : Leads(lk2, path, j)
    BY <1>10, <1>12
  <2>2. Leads(lk, path, j) /\ j # t
    BY <1>6, <2>1, ObjectPathsAre
  <2>3. j \in Files(T)
    BY <1>4, <2>1, <2>2 DEF FilesKept
  <2> QED BY <1>11, <2>2, <2>3
<1>13. ASSUME NEW path \in ObjectPaths, path # Canonical(given), IsObject(path)
       PROVE  GetReply(path)' = GetReply(path)
  <2>1. PICK j \in Files(T) : Leads(lk, path, j)
    BY <1>11, <1>13
  <2>2. path \in Seq(NameArg) /\ Len(path) \in Nat
    BY ObjectPathsAre
  <2>3. j # t
    BY <1>2, <1>4, <1>5, <1>13, <2>1, <2>2, LeadsOnce
  <2>4. j \in Files(T2) /\ T2[j] = T[j] /\ Leads(lk2, path, j)
    BY <1>4, <1>6, <2>1, <2>2, <2>3 DEF FilesKept
  <2> QED BY <1>10, <1>11, <2>1, <2>4
<1> QED BY <1>7, <1>12, <1>13 DEF OthersKept

\* No file comes but at the path own of a PUT, and no other file changes.
TouchesOnly(own) ==
  /\ \A path \in ObjectPaths :
       IsObject(path)' => IsObject(path) \/ (phase = "walk" /\ path = own)
  /\ OthersKept(own)

\* A step of a PUT leaves the files alone that are not at its path.
LEMMA PutLeavesOthers ==
  ASSUME HandlerInv, FInv', HandlerIsOnItsWay', fsvars' # fsvars, ServiceNext, phase # "idle"
  PROVE  TouchesOnly(Canonical(request.path))
<1>0. FInv /\ HandlerIsTyped
  BY DEF HandlerInv
<1>2. PICK T, lk, D : /\ T = SeenTree /\ lk = Lookups /\ D = Directories /\ TreeOfNames(lk, D)
  BY <1>0, ValuesSeen
<1>3. PICK T2, lk2, D2 : /\ T2 = SeenTree' /\ lk2 = Lookups' /\ D2 = Directories'
                         /\ TreeOfNames(lk2, D2)
  BY ValuesSeenNext
<1> DEFINE own == Canonical(request.path)
<1>5. request.path \in Seq(NameArg) /\ own \in Seq(NameArg)
  BY <1>0, PathParts, CanonicalIsClean DEF HandlerIsTyped, PutRequest
<1> HIDE DEF own
<1>10. \A path \in ObjectPaths :
         /\ IsObject(path)' <=> \E j \in Files(T2) : Leads(lk2, path, j)
         /\ \A j \in Files(T2) : Leads(lk2, path, j) => GetReply(path)' = FileAnswer(T2[j].content)
  <2>1. ObjectsAreFiles'
    BY ObjectsSeenNext
  <2> QED BY <1>3, <2>1, Zenon DEF ObjectsAreFiles
<1>11. \A path \in ObjectPaths :
         /\ IsObject(path) <=> \E j \in Files(T) : Leads(lk, path, j)
         /\ \A j \in Files(T) : Leads(lk, path, j) => GetReply(path) = FileAnswer(T[j].content)
  <2>1. ObjectsAreFiles
    BY <1>0, ObjectsSeen
  <2> QED BY <1>2, <2>1, Zenon DEF ObjectsAreFiles
<1>12. \A path \in ObjectPaths : path \in Seq(NameArg) /\ Len(path) \in Nat
  BY ObjectPathsAre
\* The inode i that the step works on: the file there is the one of the PUT.
<1>13. ASSUME NEW i, FilesKept(T, T2, {i}),
              \A path \in ObjectPaths, j \in Files(T) \ {i} : Leads(lk, path, j) => Leads(lk2, path, j),
              \A path \in ObjectPaths : i \in Files(T) /\ Leads(lk, path, i) => path = own,
              \A path \in ObjectPaths, j \in Files(T2) : Leads(lk2, path, j) =>
                (j \in Files(T) /\ Leads(lk, path, j)) \/ (phase = "walk" /\ path = own)
       PROVE  TouchesOnly(own)
  <2>1. ASSUME NEW path \in ObjectPaths, IsObject(path)'
        PROVE  IsObject(path) \/ (phase = "walk" /\ path = own)
    BY <1>10, <1>11, <1>13, <2>1
  <2>2. ASSUME NEW path \in ObjectPaths, path # own, IsObject(path)
        PROVE  GetReply(path)' = GetReply(path)
    <3>1. PICK j \in Files(T) : Leads(lk, path, j)
      BY <1>11, <2>2
    <3>2. j # i
      BY <1>13, <2>2, <3>1
    <3>3. j \in Files(T2) /\ T2[j] = T[j] /\ Leads(lk2, path, j)
      BY <1>13, <3>1, <3>2 DEF FilesKept
    <3> QED BY <1>10, <1>11, <3>1, <3>3
  <2> QED BY <2>1, <2>2 DEF OthersKept, TouchesOnly
<1>14. CASE phase = "walk"
  <2>1. PICK t \in {UFS_DIRECTORY, UFS_REGULAR_FILE} :
          /\ Create(inum, t, Head(rest))
          /\ t # UFS_DIRECTORY => /\ inum' = CreateReturn(inum, t, Head(rest))
                                  /\ phase' = "write" /\ request' = request
    BY <1>14, StepsThatChange
  <2>2. PICK i : i = CreateReturn(inum, t, Head(rest))
    OBVIOUS
  <2>3. /\ Grown(lk, lk2, inum, Head(rest), i)
        /\ FilesKept(T, T2, {i}) /\ i \notin Files(T)
        /\ t = UFS_DIRECTORY => i \notin Files(T2)
    BY <1>0, <1>2, <1>3, <1>14, <2>1, <2>2, PartMade
  <2>4. ASSUME NEW path \in ObjectPaths, i \in Files(T2), Leads(lk2, path, i) PROVE path = own
    <3>1. inum' = i /\ phase' = "write" /\ request' = request
      BY <2>1, <2>2, <2>3, <2>4
    <3>2. HandlerOn(lk2, phase', request'.path, rest', inum')
      BY <1>3, Zenon DEF HandlerIsOnItsWay
    <3>3. RouteTo(lk2, request.path, Len(request.path), i)
      BY <3>1, <3>2 DEF HandlerOn
    <3>4. Leads(lk2, own, i)
      BY <1>3, <1>5, <3>3, RouteIsCanonical DEF own
    <3> QED BY <1>3, <1>5, <1>12, <2>4, <3>4, LeadsOnce
  <2>5. \A path \in ObjectPaths : \A j :
          /\ Leads(lk, path, j) => Leads(lk2, path, j)
          /\ Leads(lk2, path, j) /\ j # i => Leads(lk, path, j)
    BY <1>12, <2>3, GrownLeads
  <2>6. \A j \in Files(T2) : j = i \/ j \in Files(T)
    BY <2>3 DEF FilesKept
  <2>7. \A path \in ObjectPaths, j \in Files(T) \ {i} : Leads(lk, path, j) => Leads(lk2, path, j)
    BY <2>5
  <2>8. \A path \in ObjectPaths : i \in Files(T) /\ Leads(lk, path, i) => path = own
    BY <2>3
  <2>9. \A path \in ObjectPaths, j \in Files(T2) : Leads(lk2, path, j) =>
          (j \in Files(T) /\ Leads(lk, path, j)) \/ (phase = "walk" /\ path = own)
    <3>1. ASSUME NEW path \in ObjectPaths, NEW j \in Files(T2), Leads(lk2, path, j)
          PROVE  (j \in Files(T) /\ Leads(lk, path, j)) \/ path = own
      <4>1. CASE j = i
        BY <2>4, <3>1, <4>1
      <4>2. CASE j # i
        BY <2>5, <2>6, <3>1, <4>2
      <4> QED BY <4>1, <4>2
    <3> QED BY <1>14, <3>1
  <2>10. TouchesOnly(own)
    BY <1>13, <2>3, <2>7, <2>8, <2>9
  <2> QED BY <2>10 DEF own
<1>15. CASE phase = "write"
  <2>1. Write(inum, request.body, request.size)
    BY <1>15, StepsThatChange
  <2>2. request.body \in Values /\ request.size \in Sizes /\ inum \in InodeArg /\ Leads(lk, own, inum)
    BY <1>2, <1>15, FileIsAtItsPath, InodesAreArguments DEF own
  <2>3. NamesKept(lk, lk2) /\ FilesKept(T, T2, {inum}) /\ Files(T2) = Files(T)
    BY <1>0, <1>2, <1>3, <2>1, <2>2, WriteKeepsNames
  <2>4. \A path \in ObjectPaths : \A j : Leads(lk, path, j) <=> Leads(lk2, path, j)
    BY <1>12, <2>3, KeptLeads
  <2>5. \A path \in ObjectPaths : Leads(lk, path, inum) => path = own
    BY <1>2, <1>5, <1>12, <2>2, LeadsOnce
  <2>6. \A path \in ObjectPaths, j \in Files(T2) : Leads(lk2, path, j) =>
          (j \in Files(T) /\ Leads(lk, path, j)) \/ (phase = "walk" /\ path = own)
    <3>1. ASSUME NEW path \in ObjectPaths, NEW j \in Files(T2), Leads(lk2, path, j)
          PROVE  j \in Files(T) /\ Leads(lk, path, j)
      BY <2>3, <2>4, <3>1
    <3> QED BY <3>1, Zenon
  <2>7. TouchesOnly(own)
    BY <1>13, <2>3, <2>4, <2>5, <2>6
  <2> QED BY <2>7 DEF own
<1> QED BY <1>0, <1>14, <1>15 DEF HandlerIsTyped

LEMMA StepLeavesOthers ==
  ASSUME HandlerInv, [ServiceNext]_allvars, fsvars' # fsvars
  PROVE  /\ phase = "idle" => \A given \in Paths : Del(given) =>
              \A path \in {given, Canonical(given)} : (GetReply(path))'.status = NotFound
         /\ \A path \in ObjectPaths :
              (IsObject(path))' =>
                 \/ IsObject(path)
                 \/ phase = "walk" /\ path = Canonical(request.path)
         /\ phase # "idle" => OthersKept(Canonical(request.path))
         /\ \A given \in Paths : Del(given) => OthersKept(Canonical(given))
<1>1. FInv' /\ HandlerIsOnItsWay'
  BY ServiceKeepsFInv, HandlerStaysOnItsWay DEF HandlerInv
<1>2. ServiceNext
  BY DEF allvars, fsvars
<1>3. CASE phase = "idle"
  <2>1. \E given \in Paths : Del(given)
    BY <1>2, <1>3, StepsThatChange
  <2> QED BY <1>1, <1>3, <2>1, DelLeavesNothing
<1>4. CASE phase # "idle"
  <2>1. \A given \in Paths : ~Del(given)
    BY <1>4, Zenon DEF Del
  <2>2. TouchesOnly(Canonical(request.path))
    BY <1>1, <1>2, <1>4, PutLeavesOthers
  <2> QED BY <1>4, <2>1, <2>2 DEF TouchesOnly
<1> QED BY <1>3, <1>4

\* A DELETE answered with 200 leaves nothing at its path, and a path leads to
\* a file only from the step that creates it for a PUT of this path, for every
\* number of inodes, size of a block and set of paths.
THEOREM DeletedStaysGoneHolds == ServiceSpec => DeletedStaysGone
<1>1. HandlerInv /\ [ServiceNext]_allvars =>
        [fsvars' # fsvars =>
           /\ phase = "idle" => \A given \in Paths : Del(given) =>
                \A path \in {given, Canonical(given)} : (GetReply(path))'.status = NotFound
           /\ \A path \in ObjectPaths :
                (IsObject(path))' =>
                   \/ IsObject(path)
                   \/ phase = "walk" /\ path = Canonical(request.path)]_allvars
  BY StepLeavesOthers
<1> QED BY <1>1, ServiceKeepsHandlerInv, PTL DEF ServiceSpec, DeletedStaysGone

\* What a GET of a file answers is changed by the PUTs and DELETEs of its own
\* path only, although all files share blocks, inodes and directories.
THEOREM OtherFilesStayHolds == ServiceSpec => OtherFilesStay
<1>1. HandlerInv /\ [ServiceNext]_allvars =>
        [fsvars' # fsvars =>
           /\ phase # "idle" => OthersKept(Canonical(request.path))
           /\ \A given \in Paths : Del(given) => OthersKept(Canonical(given))]_allvars
  BY StepLeavesOthers
<1> QED BY <1>1, ServiceKeepsHandlerInv, PTL DEF ServiceSpec, OtherFilesStay
=============================================================================
