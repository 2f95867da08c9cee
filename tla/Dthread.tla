------------------------------ MODULE Dthread ------------------------------
(***************************************************************************)
(* dthread.cpp: pthread calls that write a line to a log before and after  *)
(* the operation, under a print lock of their own.                         *)
(*                                                                         *)
(* A thread is its pthread_t: the system may give that of a thread that    *)
(* has ended to a new one, and thread_list never forgets one. Threads call *)
(* the wrappers in any order that the rules of pthreads allow (unlock and  *)
(* wait on a mutex they hold, lock on one they do not). Of the log file,   *)
(* inside keeps what its lines say about each mutex.                       *)
(***************************************************************************)
EXTENDS Integers, Sequences

CONSTANTS
  Threads, Main,    \* the values of pthread_self(); the one of main()
  Mutexes, Conds,
  NULL

ASSUME MainAssumption == Main \in Threads
ASSUME NullAssumption == NULL \notin Threads \cup Mutexes \cup Conds

VARIABLES
  pc,           \* where a thread is: in the caller's code, in a step of
                \* sync_print(), at the operation, or in pthread_cond_wait()
  call, line,   \* the wrapper a thread is in, and which of its two lines
  tid,          \* the local of sync_print(), from 0
  printer,      \* the owner of print_lock
  thread_list,
  inside,       \* for each mutex, the numbers the log shows to have returned
                \* from a lock or a wait and not to have begun an unlock or a wait
  owner, waiters,
  lost,         \* a write to the log has failed
  exited        \* exit(1)

calls == <<call, line>>
log == <<thread_list, inside, lost, exited>>
mutexes == <<owner, waiters>>
vars == <<pc, call, line, tid, printer, thread_list, inside, owner, waiters, lost, exited>>

Printing == {"lock", "search", "write", "unlock"}
Places == Printing \cup {"none", "user", "op", "waiting"}

Wrapper(fn, mutex, cond) == [fn |-> fn, mutex |-> mutex, cond |-> cond]
my_start_routine == Wrapper("my_start_routine", NULL, NULL)
Wrappers ==
  {Wrapper(fn, m, NULL) : fn \in {"mutex_lock", "mutex_unlock"}, m \in Mutexes}
    \cup {Wrapper("cond_wait", m, c) : m \in Mutexes, c \in Conds}
    \cup {Wrapper(fn, NULL, c) : fn \in {"cond_signal", "cond_broadcast"}, c \in Conds}
    \cup {Wrapper("detach", NULL, NULL)}

\* The operations that take a mutex, and those that give it up.
Takes == {"mutex_lock", "cond_wait"}
Releases == {"mutex_unlock", "cond_wait"}
-----------------------------------------------------------------------------
Init ==
  /\ pc = [t \in Threads |-> IF t = Main THEN "user" ELSE "none"]
  /\ call = [t \in Threads |-> my_start_routine]
  /\ line = [t \in Threads |-> "enter"]
  /\ tid = [t \in Threads |-> 0]
  /\ printer = NULL
  /\ thread_list = <<>>
  /\ inside = [m \in Mutexes |-> {}]
  /\ owner = [m \in Mutexes |-> NULL]
  /\ waiters = [c \in Conds |-> {}]
  /\ lost = FALSE /\ exited = FALSE

(* The caller's code.                                                      *)

\* dthread_create(), which writes no line of its own.
Create(t, u) ==
  /\ pc[t] = "user" /\ pc[u] = "none"
  /\ pc' = [pc EXCEPT ![u] = "lock"]
  /\ call' = [call EXCEPT ![u] = my_start_routine]
  /\ line' = [line EXCEPT ![u] = "enter"]
  /\ UNCHANGED <<tid, printer, log, mutexes>>

\* start_routine returns; a thread leaves no mutex locked.
Finish(t) ==
  /\ pc[t] = "user" /\ t # Main
  /\ \A m \in Mutexes : owner[m] # t
  /\ pc' = [pc EXCEPT ![t] = "lock"]
  /\ call' = [call EXCEPT ![t] = my_start_routine]
  /\ line' = [line EXCEPT ![t] = "return"]
  /\ UNCHANGED <<tid, printer, log, mutexes>>

Allowed(t, w) ==
  /\ w.fn = "mutex_lock" => owner[w.mutex] # t
  /\ w.fn \in Releases => owner[w.mutex] = t

\* Mutant: the enter line is left out.
CallLogsLater(t, w) ==
  /\ pc[t] = "user" /\ Allowed(t, w)
  /\ pc' = [pc EXCEPT ![t] = "op"]
  /\ call' = [call EXCEPT ![t] = w]
  /\ line' = [line EXCEPT ![t] = "enter"]
  /\ UNCHANGED <<tid, printer, log, mutexes>>

\* A wrapper begins: first its enter line.
Call(t, w) ==
  /\ pc[t] = "user" /\ Allowed(t, w)
  /\ pc' = [pc EXCEPT ![t] = "lock"]
  /\ call' = [call EXCEPT ![t] = w]
  /\ line' = [line EXCEPT ![t] = "enter"]
  /\ UNCHANGED <<tid, printer, log, mutexes>>

(* sync_print().                                                           *)

\* Mutant: the print lock is not taken.
PrintLockUnchecked(t) ==
  /\ pc[t] = "lock"
  /\ printer' = t
  /\ pc' = [pc EXCEPT ![t] = "search"]
  /\ UNCHANGED <<calls, tid, log, mutexes>>

PrintLock(t) ==
  /\ pc[t] = "lock" /\ printer = NULL
  /\ printer' = t
  /\ pc' = [pc EXCEPT ![t] = "search"]
  /\ UNCHANGED <<calls, tid, log, mutexes>>

\* The positions of a thread in the list, from 0.
Hits(t) == {n \in 0 .. Len(thread_list) - 1 : thread_list[n + 1] = t}

\* Mutant: the search stops one entry early.
SearchSkipsLast(t) ==
  /\ pc[t] = "search"
  /\ \E n \in IF Hits(t) \ {Len(thread_list) - 1} = {} THEN {Len(thread_list)} ELSE Hits(t) :
       tid' = [tid EXCEPT ![t] = n]
  /\ pc' = [pc EXCEPT ![t] = "write"]
  /\ UNCHANGED <<calls, printer, log, mutexes>>

\* The first position of the thread in the list, or the end of it.
Search(t) ==
  /\ pc[t] = "search"
  /\ \E n \in IF Hits(t) = {} THEN {Len(thread_list)} ELSE {n \in Hits(t) : \A k \in Hits(t) : n <= k} :
       tid' = [tid EXCEPT ![t] = n]
  /\ pc' = [pc EXCEPT ![t] = "write"]
  /\ UNCHANGED <<calls, printer, log, mutexes>>

\* What the log shows of the mutexes after one more line.
Shown(w, ln, n) ==
  [m \in Mutexes |->
     IF m # w.mutex THEN inside[m]
     ELSE IF ln = "return" /\ w.fn \in Takes THEN inside[m] \cup {n}
     ELSE IF ln = "enter" /\ w.fn \in Releases THEN inside[m] \ {n}
     ELSE inside[m]]

\* A new thread joins the list; then write(). An error of write() is not
\* looked at, and the line is missing.
Write(t) ==
  /\ pc[t] = "write"
  /\ thread_list' = IF tid[t] = Len(thread_list) THEN Append(thread_list, t) ELSE thread_list
  /\ \/ inside' = Shown(call[t], line[t], tid[t]) /\ lost' = lost
     \/ inside' = inside /\ lost' = TRUE
  /\ pc' = [pc EXCEPT ![t] = "unlock"]
  /\ UNCHANGED <<calls, tid, printer, mutexes, exited>>

\* A line that is written in part ends the process.
ShortWrite(t) ==
  /\ pc[t] = "write"
  /\ exited' = TRUE
  /\ UNCHANGED <<pc, calls, tid, printer, thread_list, inside, lost, mutexes>>

\* Where a thread goes on after a line.
After(t) ==
  IF call[t] = my_start_routine
    THEN IF line[t] = "enter" THEN "user" ELSE "none"
    ELSE IF line[t] = "enter" THEN "op" ELSE "user"

\* Mutant: the last line of a thread keeps the print lock.
PrintUnlockForgets(t) ==
  /\ pc[t] = "unlock"
  /\ printer' = IF call[t] = my_start_routine /\ line[t] = "return" THEN printer ELSE NULL
  /\ pc' = [pc EXCEPT ![t] = After(t)]
  /\ UNCHANGED <<calls, tid, log, mutexes>>

PrintUnlock(t) ==
  /\ pc[t] = "unlock"
  /\ printer' = NULL
  /\ pc' = [pc EXCEPT ![t] = After(t)]
  /\ UNCHANGED <<calls, tid, log, mutexes>>

(* The operations of pthreads.                                             *)

\* The operation is over: the return line is next.
ToReturn(t) ==
  /\ pc' = [pc EXCEPT ![t] = "lock"]
  /\ line' = [line EXCEPT ![t] = "return"]
  /\ UNCHANGED <<call, tid, printer, log>>

At(t, fn) == pc[t] = "op" /\ call[t].fn = fn

Lock(t) ==
  /\ At(t, "mutex_lock") /\ owner[call[t].mutex] = NULL
  /\ owner' = [owner EXCEPT ![call[t].mutex] = t]
  /\ UNCHANGED waiters
  /\ ToReturn(t)

Unlock(t) ==
  /\ At(t, "mutex_unlock")
  /\ owner' = [owner EXCEPT ![call[t].mutex] = NULL]
  /\ UNCHANGED waiters
  /\ ToReturn(t)

\* pthread_cond_wait(): the mutex is released and the thread waits, ...
Wait(t) ==
  /\ At(t, "cond_wait")
  /\ owner' = [owner EXCEPT ![call[t].mutex] = NULL]
  /\ waiters' = [waiters EXCEPT ![call[t].cond] = @ \cup {t}]
  /\ pc' = [pc EXCEPT ![t] = "waiting"]
  /\ UNCHANGED <<calls, tid, printer, log>>

\* ... until it is woken, perhaps by nobody, ...
Wake(t) ==
  /\ pc[t] = "waiting" /\ t \in waiters[call[t].cond]
  /\ waiters' = [waiters EXCEPT ![call[t].cond] = @ \ {t}]
  /\ UNCHANGED <<pc, calls, tid, printer, log, owner>>

\* ... and has the mutex again.
Relock(t) ==
  /\ pc[t] = "waiting" /\ t \notin waiters[call[t].cond]
  /\ owner[call[t].mutex] = NULL
  /\ owner' = [owner EXCEPT ![call[t].mutex] = t]
  /\ UNCHANGED waiters
  /\ ToReturn(t)

Signal(t) ==
  /\ At(t, "cond_signal")
  /\ LET ws == waiters[call[t].cond]
     IN  IF ws = {} THEN UNCHANGED waiters
         ELSE \E u \in ws : waiters' = [waiters EXCEPT ![call[t].cond] = ws \ {u}]
  /\ UNCHANGED owner
  /\ ToReturn(t)

Broadcast(t) ==
  /\ At(t, "cond_broadcast")
  /\ waiters' = [waiters EXCEPT ![call[t].cond] = {}]
  /\ UNCHANGED owner
  /\ ToReturn(t)

Detach(t) == At(t, "detach") /\ ToReturn(t) /\ UNCHANGED mutexes

User(t) ==
  \/ \E u \in Threads : Create(t, u)
  \/ Finish(t)
  \/ \E w \in Wrappers : Call(t, w)
SyncPrint(t) == PrintLock(t) \/ Search(t) \/ Write(t) \/ ShortWrite(t) \/ PrintUnlock(t)
Operate(t) ==
  Lock(t) \/ Unlock(t) \/ Wait(t) \/ Wake(t) \/ Relock(t) \/ Signal(t) \/ Broadcast(t) \/ Detach(t)

Next == ~exited /\ \E t \in Threads : User(t) \/ SyncPrint(t) \/ Operate(t)

Spec == Init /\ [][Next]_vars

\* A thread that has the print lock waits for nothing.
FairSpec == Spec /\ \A t \in Threads : WF_vars(~exited /\ SyncPrint(t))
-----------------------------------------------------------------------------
(* Properties.                                                             *)

\* Types; the print lock is held by the thread that is between its lock and
\* its unlock, and only one is.
TypeOK ==
  /\ pc \in [Threads -> Places]
  /\ call \in [Threads -> Wrappers \cup {my_start_routine}]
  /\ line \in [Threads -> {"enter", "return"}]
  /\ tid \in [Threads -> Nat]
  /\ thread_list \in Seq(Threads)
  /\ inside \in [Mutexes -> SUBSET Nat]
  /\ owner \in [Mutexes -> Threads \cup {NULL}]
  /\ waiters \in [Conds -> SUBSET Threads]
  /\ lost \in BOOLEAN /\ exited \in BOOLEAN
  /\ \A t \in Threads : pc[t] \in Printing \ {"lock"} <=> printer = t
  /\ printer \in Threads \cup {NULL}

\* A number names one thread and a thread has one number: nobody is in the
\* list twice, and the number in a line is the position of its thread.
NumbersAreUnique ==
  /\ \A i, j \in DOMAIN thread_list : thread_list[i] = thread_list[j] => i = j
  /\ \A t \in Threads :
       pc[t] = "unlock" => tid[t] + 1 \in DOMAIN thread_list /\ thread_list[tid[t] + 1] = t

\* As long as no line is missing, the thread the log shows to be inside a
\* mutex is the one that holds it; so the log never shows two. (The return
\* line of an unlock proves nothing: it may come after the lock of another.)
LogShowsTheHolder ==
  ~lost =>
    \A m \in Mutexes : \A n \in inside[m] :
      n + 1 \in DOMAIN thread_list /\ owner[m] = thread_list[n + 1]

\* Whoever takes the print lock gives it back, also when its line is lost.
PrintLockIsReleased ==
  \A t \in Threads : printer = t ~> (printer # t \/ exited)
=============================================================================
