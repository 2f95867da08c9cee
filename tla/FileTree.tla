------------------------------ MODULE FileTree ------------------------------
(***************************************************************************)
(* What a caller of LocalFileSystem may rely on: a tree of directories and *)
(* files named by inode numbers, without blocks, bitmaps or sizes. A call  *)
(* that fails, for lack of space or any other reason, changes nothing.     *)
(***************************************************************************)
EXTENDS Integers

CONSTANTS
  NumInodes,
  Names,      \* names a client can give to a file or a directory
  Contents    \* what can be written to a file

Root == 0
Inode == 0 .. NumInodes - 1

\* A function with an empty domain: no entries, or no bytes.
Nothing == [x \in {} |-> x]

VARIABLE node   \* what each inode number stands for

Free == [kind |-> "free"]
Directory(p, e) == [kind |-> "directory", parent |-> p, entries |-> e]
File(c) == [kind |-> "file", content |-> c]

IsDirectory(i) == i \in Inode /\ node[i].kind = "directory"
IsFile(i) == i \in Inode /\ node[i].kind = "file"

Init == node = [i \in Inode |-> IF i = Root THEN Directory(Root, Nothing) ELSE Free]

\* A new node takes the lowest unused number and becomes p's entry n.
Make(p, n, new) ==
  /\ IsDirectory(p)
  /\ n \notin DOMAIN node[p].entries
  /\ \E i \in Inode :
       /\ node[i] = Free
       /\ \A j \in Inode : node[j] = Free => i <= j
       /\ node' = [node EXCEPT
            ![p].entries = [m \in DOMAIN @ \cup {n} |-> IF m = n THEN i ELSE @[m]],
            ![i] = new]

MakeDirectory(p, n) == Make(p, n, Directory(p, Nothing))

MakeFile(p, n) == Make(p, n, File(Nothing))

Overwrite(i, c) ==
  /\ IsFile(i)
  /\ node' = [node EXCEPT ![i] = File(c)]

\* Only files and empty directories can be removed; the number is free again.
Remove(p, n) ==
  /\ IsDirectory(p)
  /\ n \in DOMAIN node[p].entries
  /\ LET t == node[p].entries[n]
     IN /\ IsDirectory(t) => node[t].entries = Nothing
        /\ node' = [node EXCEPT
             ![p].entries = [m \in DOMAIN @ \ {n} |-> @[m]],
             ![t] = Free]

Next ==
  \/ \E p \in Inode, n \in Names : MakeDirectory(p, n) \/ MakeFile(p, n) \/ Remove(p, n)
  \/ \E i \in Inode, c \in Contents : Overwrite(i, c)

Spec == Init /\ [][Next]_node
=============================================================================
