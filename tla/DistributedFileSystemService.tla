-------------------- MODULE DistributedFileSystemService --------------------
(***************************************************************************)
(* The /ds3/ service: GET, PUT and DELETE of a path as sequences of calls  *)
(* of LocalFileSystem. One request is handled at a time. Each step makes   *)
(* at most one call that changes the image, so that the process can die    *)
(* between two calls of a request; a crash inside one is Disk's matter.    *)
(*                                                                         *)
(* A path is what follows "/ds3/", cut at each '/': "a/b" is <<"a", "b">>, *)
(* "a/" is <<"a", "">> and the empty path is <<"">>.                       *)
(***************************************************************************)
EXTENDS LocalFileSystem, Sequences

CONSTANT Paths   \* paths clients ask for

ASSUME PathsAssumption == Paths \subseteq Seq(NameArg) \ {<<>>}

VARIABLES
  phase,     \* "idle", or where put is: "walk", "write"
  request,   \* the PUT being handled
  rest,      \* the local variable path of put: components not yet consumed
  inum,      \* the local variable inum of put
  status     \* status of the last answer, 0 when there is none

fsvars == <<inodeBitmap, dataBitmap, inodes, dataRegion>>
allvars == <<inodeBitmap, dataBitmap, inodes, dataRegion,
             phase, request, rest, inum, status>>

NoRequest == [path |-> <<>>]
PutRequest == [path : Paths, body : Values, size : Sizes \cap Nat]

OK == 200
BadRequest == 400
Forbidden == 403
NotFound == 404
MethodNotAllowed == 405
InternalError == 500
InsufficientStorage == 507

ServiceInit ==
  /\ Init
  /\ phase = "idle"
  /\ request = NoRequest
  /\ rest = <<>>
  /\ inum = Root
  /\ status = 0

\* The handler returns (200) or throws a ClientError, which
\* invoke_service_method turns into its status.
Answer(s) ==
  /\ phase' = "idle"
  /\ status' = s
  /\ request' = NoRequest
  /\ rest' = <<>>
  /\ inum' = Root

LookupResult == {-ENOTFOUND, -EINVALIDINODE} \cup Inode

\* The lookups of get and del: components are consumed while anything is left
\* of the path, so a trailing '/' ends the walk and an empty component inside
\* the path is looked up (and not found).
Walk(path) ==
  LET at[k \in 0 .. Len(path)] ==
        LET after[i \in LookupResult] ==
              IF i < 0 \/ (k = Len(path) /\ path[k] = "") THEN i ELSE lookup(i, path[k])
        IN IF k = 0 THEN Root ELSE after[at[k - 1]]
  IN at[Len(path)]
-----------------------------------------------------------------------------
(* get                                                                     *)

\* The body for a directory: its named entries in the order of the directory,
\* each with the type that decides about the trailing '/'.
Listing(i) ==
  LET listed == {k \in Used(i) : /\ EntryAt(i, k).inum # -1
                                 /\ EntryAt(i, k).name \notin {".", ".."}
                                 /\ Allocated(EntryAt(i, k).inum)}
  IN [k \in listed |-> <<EntryAt(i, k).name, inodes[EntryAt(i, k).inum].type>>]

\* The answer to a GET. For an empty file read() returns an error code that is
\* then used as a length: string(buffer, br) throws, and the answer is 500.
GetReply(path) ==
  LET reply[i \in LookupResult] ==
        IF ~Allocated(i) THEN [status |-> NotFound]
        ELSE IF IsDirectory(i) THEN [status |-> OK, body |-> Listing(i)]
        ELSE IF ReadReturn(i, inodes[i].size) < 0 THEN [status |-> InternalError]
        ELSE [status |-> OK, body |-> ReadCells(i, inodes[i].size)]
  IN reply[Walk(path)]

Get(path) ==
  /\ phase = "idle"
  /\ Answer(GetReply(path).status)
  /\ UNCHANGED fsvars
-----------------------------------------------------------------------------
(* put                                                                     *)

\* The handler starts at the root with the whole path.
Put(r) ==
  /\ phase = "idle"
  /\ phase' = "walk"
  /\ request' = r
  /\ rest' = r.path
  /\ inum' = Root
  /\ status' = 0
  /\ UNCHANGED fsvars

\* One iteration of the loop over the components before the last '/': a
\* missing directory is created and stays, whatever happens later.
PutComponent ==
  LET found == lookup(inum, Head(rest))
      made == CreateReturn(inum, UFS_DIRECTORY, Head(rest))
      Enter(i) ==
        /\ inum' = i
        /\ rest' = Tail(rest)
        /\ UNCHANGED <<phase, request, status>>
  IN /\ phase = "walk"
     /\ Len(rest) > 1
     /\ \/ found >= 0 /\ Enter(found) /\ UNCHANGED fsvars
        \/ /\ found = -ENOTFOUND
           /\ made >= 0
           /\ Create(inum, UFS_DIRECTORY, Head(rest))
           /\ Enter(made)
        \/ found = -ENOTFOUND /\ made < 0 /\ Answer(BadRequest) /\ UNCHANGED fsvars
        \/ found < 0 /\ found # -ENOTFOUND /\ Answer(BadRequest) /\ UNCHANGED fsvars

\* The last component: find the file or create an empty one.
PutFile ==
  LET name == Head(rest)
      found == lookup(inum, name)
      made == CreateReturn(inum, UFS_REGULAR_FILE, name)
      Open(i) ==
        /\ inum' = i
        /\ phase' = "write"
        /\ UNCHANGED <<request, rest, status>>
  IN /\ phase = "walk"
     /\ Len(rest) = 1
     /\ \/ name = "" /\ Answer(BadRequest) /\ UNCHANGED fsvars
        \/ name # "" /\ found >= 0 /\ Open(found) /\ UNCHANGED fsvars
        \/ /\ name # ""
           /\ found = -ENOTFOUND
           /\ made >= 0
           /\ Create(inum, UFS_REGULAR_FILE, name)
           /\ Open(made)
        \/ /\ name # ""
           /\ found = -ENOTFOUND
           /\ made < 0
           /\ Answer(InsufficientStorage)
           /\ UNCHANGED fsvars
        \/ name # "" /\ found < 0 /\ found # -ENOTFOUND /\ Answer(BadRequest) /\ UNCHANGED fsvars

\* Mutant: a failure of write is not answered.
PutWriteIgnoresError ==
  /\ phase = "write"
  /\ WriteReturn(inum, request.size) >= 0
  /\ Write(inum, request.body, request.size)
  /\ Answer(OK)

\* Every failure of write is answered alike: an empty body, a directory, no
\* space.
PutWrite ==
  /\ phase = "write"
  /\ \/ /\ WriteReturn(inum, request.size) >= 0
        /\ Write(inum, request.body, request.size)
        /\ Answer(OK)
     \/ WriteReturn(inum, request.size) < 0 /\ Answer(InsufficientStorage) /\ UNCHANGED fsvars
-----------------------------------------------------------------------------
(* del                                                                     *)

\* One trailing '/' is dropped before anything else.
DelPath(path) ==
  IF Len(path) > 1 /\ path[Len(path)] = "" THEN SubSeq(path, 1, Len(path) - 1) ELSE path

DelReply(path) ==
  LET trimmed == DelPath(path)
      name == trimmed[Len(trimmed)]
      reply[parent \in LookupResult] ==
        IF parent = -ENOTFOUND THEN NotFound
        ELSE IF parent < 0 THEN BadRequest
        ELSE IF name = "" THEN BadRequest
        ELSE IF lookup(parent, name) < 0 THEN NotFound
        ELSE CASE UnlinkReturn(parent, name) = 0 -> OK
               [] UnlinkReturn(parent, name) = -EDIRNOTEMPTY -> Forbidden
               [] UnlinkReturn(parent, name) = -EINVALIDNAME -> NotFound
               [] OTHER -> InsufficientStorage
  IN reply[Walk(SubSeq(trimmed, 1, Len(trimmed) - 1))]

Del(path) ==
  LET trimmed == DelPath(path)
  IN /\ phase = "idle"
     /\ Answer(DelReply(path))
     /\ \/ DelReply(path) # OK /\ UNCHANGED fsvars
        \/ /\ DelReply(path) = OK
           /\ Unlink(Walk(SubSeq(trimmed, 1, Len(trimmed) - 1)), trimmed[Len(trimmed)])
-----------------------------------------------------------------------------
\* HttpService's defaults for HEAD, POST and MOVE, which the service does not
\* define.
Refuse ==
  /\ phase = "idle"
  /\ Answer(MethodNotAllowed)
  /\ UNCHANGED fsvars

\* The process is killed between two file system calls and started again.
Crash ==
  /\ phase # "idle"
  /\ Answer(0)
  /\ UNCHANGED fsvars

PutStep == PutComponent \/ PutFile \/ PutWrite

ServiceNext ==
  \/ \E path \in Paths : Get(path) \/ Del(path)
  \/ \E r \in PutRequest : Put(r)
  \/ PutStep
  \/ Refuse
  \/ Crash

\* A handler that has started runs on: nothing in it waits for another party.
ServiceSpec == ServiceInit /\ [][ServiceNext]_allvars /\ WF_allvars(PutStep)
-----------------------------------------------------------------------------
(* Properties.                                                             *)

\* The path without ".", ".." and a trailing '/': the walk goes up at "..".
Canonical(path) ==
  LET upto[k \in 0 .. Len(path)] ==
        IF k = 0 THEN <<>>
        ELSE IF path[k] \in {".", ""} THEN upto[k - 1]
        ELSE IF path[k] = ".."
          THEN SubSeq(upto[k - 1], 1, Larger(0, Len(upto[k - 1]) - 1))
        ELSE Append(upto[k - 1], path[k])
  IN upto[Len(path)]

\* Paths of names up to the depth the number of inodes allows.
ObjectPaths == UNION {[1 .. d -> Names] : d \in 1 .. NumInodes - 1}

IsObject(path) == IsFile(Walk(path))

\* A PUT answered with 200 has stored the body: a GET of that path, and of any
\* other spelling of it, answers with exactly this body.
PutThenGet ==
  [][(phase = "write" /\ status' = OK) =>
       \A path \in {request.path, Canonical(request.path)} :
         (GetReply(path))' =
            [status |-> OK,
             body |-> [k \in 0 .. request.size - 1 |-> Entry(request.body, k)]]]_allvars

\* A DELETE answered with 200 leaves nothing at its path, and nothing comes
\* back: a path leads to a file only from the step that creates the file for a
\* PUT of that path. So no stale entry of a directory is found again once its
\* inode number has a new owner.
DeletedStaysGone ==
  [][fsvars' # fsvars =>
       /\ phase = "idle" => \A given \in Paths : Del(given) =>
            \A path \in {given, Canonical(given)} : (GetReply(path))'.status = NotFound
       /\ \A path \in ObjectPaths :
            (IsObject(path))' =>
               \/ IsObject(path)
               \/ phase = "walk" /\ path = Canonical(request.path)]_allvars

\* What a GET of any file but this one answers stays the same.
OthersKept(but) ==
  \A path \in ObjectPaths \ {but} :
    IsObject(path) => (GetReply(path))' = GetReply(path)

\* No step of a PUT and no DELETE changes what a GET of another file answers,
\* although all files share blocks, inodes and directories with what is
\* created, grown, shrunk and removed.
OtherFilesStay ==
  [][fsvars' # fsvars =>
       /\ phase # "idle" => OthersKept(Canonical(request.path))
       /\ \A given \in Paths : Del(given) => OthersKept(Canonical(given))]_allvars

\* The loop of put ends: every request is answered, unless the process dies.
RequestsEnd == (phase # "idle") ~> (phase = "idle")

=============================================================================
