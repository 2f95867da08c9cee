---------------------------- MODULE Ds3Utilities ----------------------------
(***************************************************************************)
(* The command line utilities on a disk image: ds3mkdir, ds3touch, ds3cp   *)
(* and ds3rm change it with one call of LocalFileSystem and turn what that *)
(* returns into an exit code; ds3ls, ds3cat and ds3bits only read, and are *)
(* operators here: what they print and the code they exit with.            *)
(*                                                                         *)
(* Each run of a utility is one step. A path of ds3ls is the sequence of   *)
(* the strings after each "/": "/" is <<"">>, "/a/b/" is <<"a", "b", "">>. *)
(***************************************************************************)
EXTENDS LocalFileSystem, Sequences, Functions

CONSTANT BitsPerByte
ASSUME BitsAssumption == BitsPerByte \in Nat \ {0}

VARIABLE exit       \* the exit code of the last utility

ds3vars == <<vars, exit>>

Ds3Init == Init /\ exit = 0
-----------------------------------------------------------------------------
(* The utilities that write.                                               *)

\* Any answer of create but 0 is taken for an error, also the inode number of
\* what was created or was already there: the exit code is always 1.
Make(p, t, n) ==
  /\ \/ Create(p, t, n)
     \/ (CreateReturn(p, t, n) < 0 \/ lookup(p, n) >= 0) /\ UNCHANGED vars
  /\ exit' = IF CreateReturn(p, t, n) # 0 THEN 1 ELSE 0

ds3mkdir(p, n) == Make(p, UFS_DIRECTORY, n)
ds3touch(p, n) == Make(p, UFS_REGULAR_FILE, n)

\* A file of the host, copied as a whole into an inode.
ds3cp(i, v, n) ==
  \/ Write(i, v, n) /\ exit' = 0
  \/ WriteReturn(i, n) < 0 /\ exit' = 1 /\ UNCHANGED vars

ds3rm(p, n) ==
  \/ Unlink(p, n) /\ exit' = 0
  \/ UnlinkReturn(p, n) # 0 /\ exit' = 1 /\ UNCHANGED vars

Ds3Next ==
  \/ \E p \in InodeArg, n \in NameArg : ds3mkdir(p, n) \/ ds3touch(p, n) \/ ds3rm(p, n)
  \/ \E i \in InodeArg, v \in Values, n \in Sizes : ds3cp(i, v, n)

Ds3Spec == Ds3Init /\ [][Ds3Next]_ds3vars
-----------------------------------------------------------------------------
(* The utilities that read.                                                *)

\* The entries below the size that have a name, as read() returns them.
ReadEntries(i) ==
  {e \in Range(ReadCells(i, inodes[i].size)) : e.inum >= 0 /\ e.name # ""}

\* Mutant: the type of an entry is not looked at.
StepsAny(i, n) ==
  {e.inum : e \in {e \in ReadEntries(i) :
     e.name = n /\ e.name \notin {".", ".."} /\ Allocated(e.inum)}}

\* Where lsDirectory() goes on for the first part of the path: every
\* directory of that name.
Steps(i, n) ==
  {e.inum : e \in {e \in ReadEntries(i) :
     e.name = n /\ e.name \notin {".", ".."} /\ IsDirectory(e.inum)}}

\* Output and exit code of ds3ls. An empty part ends the path, without output
\* if anything follows; only directories are found.
ds3ls(path) ==
  LET from[k \in 1 .. Len(path) + 1] ==
        [i \in Inode |->
           IF k > Len(path) \/ path[k] = ""
           THEN [exit |-> 0, out |-> IF k < Len(path) THEN {} ELSE ReadEntries(i)]
           ELSE LET subs == {from[k + 1][j] : j \in Steps(i, path[k])}
                IN [exit |-> Max({s.exit : s \in subs} \cup {IF subs = {} THEN 1 ELSE 0}),
                    out |-> UNION {s.out : s \in subs}]]
  IN from[1][Root]

\* Output and exit code of ds3cat: the block numbers are out before read()
\* is called, which fails for an empty file.
ds3cat(i) ==
  IF ~IsFile(i) THEN [exit |-> 1]
  ELSE IF ReadReturn(i, inodes[i].size) < 0 THEN [exit |-> 1, blocks |-> <<>>]
  ELSE [exit |-> 0,
        blocks |-> [x \in 0 .. Blocks(inodes[i].size) - 1 |-> inodes[i].direct[x]],
        data |-> ReadCells(i, inodes[i].size)]

\* The set bits ds3bits prints of a bitmap of so many bits: only whole bytes
\* are printed.
InWholeBytes(total) == 0 .. (total \div BitsPerByte) * BitsPerByte - 1
ds3bits(bitmap, total) == bitmap \cap InWholeBytes(total)
-----------------------------------------------------------------------------
(* Properties.                                                             *)

\* The directory at the end of a path, one lookup() per part.
Found(path) ==
  LET at[k \in 0 .. Len(path)] == IF k = 0 THEN Root ELSE lookup(at[k - 1], path[k])
  IN at[Len(path)]

NamePaths == UNION {[1 .. d -> Names] : d \in 0 .. NumInodes - 1}

\* ds3ls reads entries up to the size and lookup() compares whole blocks, yet
\* they agree: ds3ls succeeds on a path exactly when lookup finds a directory
\* at each part, and prints exactly the names that lookup finds there.
LsAgreesWithLookup ==
  \A path \in NamePaths :
    LET i == Found(path)
        there == {n \in Names \cup {".", ".."} : lookup(i, n) >= 0}
    IN /\ ds3ls(path).exit = 0 <=> IsDirectory(i)
       /\ IsDirectory(i) => ds3ls(path).out = {Entry(n, lookup(i, n)) : n \in there}

\* What ds3cat prints of a file, its block numbers included, changes only in a
\* ds3cp to this inode, and then it is the whole buffer; it stays until the
\* next one or the removal of the file, however blocks were used before.
CatShowsLastCopy ==
  [][\A i \in Inode :
       /\ ds3cat(i).exit = 0 /\ IsFile(i)' => ds3cat(i)'.exit = 0
       /\ ds3cat(i)'.exit = 0 /\ ds3cat(i)' # ds3cat(i) =>
            \E v \in Values, n \in Sizes :
              ds3cp(i, v, n) /\ ds3cat(i)'.data = [k \in 0 .. n - 1 |-> Entry(v, k)]]_ds3vars

\* The three reading utilities tell one story: the inode numbers ds3ls prints
\* over all paths are those whose bits ds3bits prints, and no block number
\* that ds3cat prints is printed for two files or has a clear bit.
ReadersAgree ==
  LET files == {i \in Inode : ds3cat(i).exit = 0}
      printed == UNION {{e.inum : e \in ds3ls(path).out} : path \in NamePaths}
  IN /\ ds3bits(printed, NumInodes) = ds3bits(inodeBitmap, NumInodes)
     /\ \A i \in files : \A x \in DOMAIN ds3cat(i).blocks :
          LET b == ds3cat(i).blocks[x]
          IN /\ b \in InWholeBytes(NumData) => b \in ds3bits(dataBitmap, NumData)
             /\ \A j \in files : \A y \in DOMAIN ds3cat(j).blocks :
                  ds3cat(j).blocks[y] = b => j = i /\ y = x
=============================================================================
