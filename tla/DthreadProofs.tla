--------------------------- MODULE DthreadProofs ----------------------------
(***************************************************************************)
(* Theorems about the logged thread primitives, for any number of threads, *)
(* mutexes and conditions.                                                 *)
(***************************************************************************)
EXTENDS Dthread, TLAPS

\* The local tid between the search and the write: the number of the thread,
\* or the next one if it has none.
SearchIsRight ==
  \A t \in Threads :
    pc[t] = "write" => IF Hits(t) = {} THEN tid[t] = Len(thread_list) ELSE tid[t] \in Hits(t)

\* Around its lines a thread holds the mutex it is about to release, and the
\* one it has taken.
CallersHold ==
  \A t \in Threads :
    /\ pc[t] = "op" => line[t] = "enter"
    /\ pc[t] = "waiting" => call[t].fn = "cond_wait"
    /\ call[t].fn \in Releases /\ line[t] = "enter" /\ pc[t] \in Printing \cup {"op"} =>
         owner[call[t].mutex] = t
    /\ call[t].fn \in Takes /\ line[t] = "return" /\ pc[t] \in Printing =>
         owner[call[t].mutex] = t

\* Once its enter line is written, the log no longer shows the thread inside.
ReleasesAreAnnounced ==
  ~lost =>
    \A t \in Threads :
      call[t].fn \in Releases /\ line[t] = "enter" /\ pc[t] \in {"unlock", "op"} =>
        Hits(t) \cap inside[call[t].mutex] = {}

IInv ==
  /\ TypeOK /\ NumbersAreUnique /\ SearchIsRight
  /\ CallersHold /\ ReleasesAreAnnounced /\ LogShowsTheHolder

\* What a wrapper's arguments are.
LEMMA Arguments ==
  ASSUME NEW w \in Wrappers \cup {my_start_routine}
  PROVE  /\ w.fn \in Releases \cup Takes => w.mutex \in Mutexes
         /\ w.fn \in {"cond_wait", "cond_signal", "cond_broadcast"} => w.cond \in Conds
<1>1. CASE w = my_start_routine
  BY <1>1 DEF my_start_routine, Wrapper, Releases, Takes
<1>2. CASE \E fn \in {"mutex_lock", "mutex_unlock"}, m \in Mutexes : w = Wrapper(fn, m, NULL)
  BY <1>2 DEF Wrapper
<1>3. CASE \E m \in Mutexes, c \in Conds : w = Wrapper("cond_wait", m, c)
  BY <1>3 DEF Wrapper
<1>4. CASE \E fn \in {"cond_signal", "cond_broadcast"}, c \in Conds : w = Wrapper(fn, NULL, c)
  BY <1>4 DEF Wrapper, Releases, Takes
<1>5. CASE w = Wrapper("detach", NULL, NULL)
  BY <1>5 DEF Wrapper, Releases, Takes
<1>6. w \in Wrappers =>
        \/ \E fn \in {"mutex_lock", "mutex_unlock"}, m \in Mutexes : w = Wrapper(fn, m, NULL)
        \/ \E m \in Mutexes, c \in Conds : w = Wrapper("cond_wait", m, c)
        \/ \E fn \in {"cond_signal", "cond_broadcast"}, c \in Conds : w = Wrapper(fn, NULL, c)
        \/ w = Wrapper("detach", NULL, NULL)
  BY DEF Wrappers
<1> QED BY <1>1, <1>2, <1>3, <1>4, <1>5, <1>6

LEMMA RoutineIsNoMutexCall ==
  my_start_routine.fn \notin Releases \cup Takes
BY DEF my_start_routine, Wrapper, Releases, Takes

LEMMA FirstState == Init => IInv
<1> SUFFICES ASSUME Init PROVE IInv
  OBVIOUS
<1>1. TypeOK
  <2>1. \A t \in Threads : pc[t] \in {"user", "none"} /\ NULL # t
    BY NullAssumption DEF Init
  <2>2. pc \in [Threads -> Places] /\ line \in [Threads -> {"enter", "return"}] /\ tid \in [Threads -> Nat]
    BY DEF Init, Places
  <2>3. call \in [Threads -> Wrappers \cup {my_start_routine}]
    BY DEF Init
  <2>4. /\ inside \in [Mutexes -> SUBSET Nat] /\ owner \in [Mutexes -> Threads \cup {NULL}]
        /\ waiters \in [Conds -> SUBSET Threads]
    BY DEF Init
  <2>5. thread_list \in Seq(Threads)
    BY DEF Init
  <2>6. \A t \in Threads : pc[t] \in Printing \ {"lock"} <=> printer = t
    BY <2>1 DEF Init, Printing
  <2> QED BY <2>2, <2>3, <2>4, <2>5, <2>6 DEF Init, TypeOK
<1>2. NumbersAreUnique /\ SearchIsRight /\ ReleasesAreAnnounced /\ LogShowsTheHolder
  BY DEF Init, NumbersAreUnique, SearchIsRight, ReleasesAreAnnounced, LogShowsTheHolder
<1>3. CallersHold
  BY DEF Init, CallersHold, Printing
<1> QED BY <1>1, <1>2, <1>3 DEF IInv

\* The list and the log do not change, and no mutex changes hands: only where
\* one thread is matters. Threads that are new at a place must have what the
\* place needs.
LEMMA PlaceChanges ==
  ASSUME IInv, NEW t \in Threads, TypeOK',
         UNCHANGED <<log, owner>>,
         \A u \in Threads \ {t} :
           pc'[u] = pc[u] /\ call'[u] = call[u] /\ line'[u] = line[u] /\ tid'[u] = tid[u],
         pc'[t] # "unlock",
         pc'[t] = "write" =>
           IF Hits(t) = {} THEN tid'[t] = Len(thread_list) ELSE tid'[t] \in Hits(t),
         pc'[t] = "op" =>
           line'[t] = "enter" /\ pc[t] = "unlock" /\ call'[t] = call[t] /\ line'[t] = line[t],
         pc'[t] = "waiting" => pc[t] = "waiting" /\ call'[t] = call[t],
         call'[t].fn \in Releases /\ line'[t] = "enter" /\ pc'[t] \in Printing \cup {"op"} =>
           owner[call'[t].mutex] = t,
         call'[t].fn \in Takes /\ line'[t] = "return" /\ pc'[t] \in Printing =>
           owner[call'[t].mutex] = t
  PROVE  IInv'
<1> USE DEF IInv, log
<1>1. \A u \in Threads : Hits(u)' = Hits(u)
  BY DEF Hits
<1>2. NumbersAreUnique'
  BY DEF NumbersAreUnique
<1>3. SearchIsRight'
  BY <1>1 DEF SearchIsRight
<1>4. CallersHold'
  BY DEF CallersHold
<1>5. ReleasesAreAnnounced'
  <2> SUFFICES ASSUME ~lost, NEW u \in Threads,
                      call'[u].fn \in Releases, line'[u] = "enter", pc'[u] \in {"unlock", "op"}
               PROVE  Hits(u) \cap inside[call'[u].mutex] = {}
    BY <1>1 DEF ReleasesAreAnnounced
  <2>1. CASE u # t
    BY <2>1 DEF ReleasesAreAnnounced
  <2>2. CASE u = t /\ call'[t] = call[t] /\ line'[t] = line[t] /\ pc[t] = "unlock"
    BY <2>2 DEF ReleasesAreAnnounced
  <2> QED BY <2>1, <2>2
<1>6. LogShowsTheHolder'
  BY DEF LogShowsTheHolder
<1> QED BY <1>2, <1>3, <1>4, <1>5, <1>6

PrinterIsRight == \A t \in Threads : pc[t] \in Printing \ {"lock"} <=> printer = t

\* Steps that leave the print lock alone and move one thread outside of its
\* critical section.
LEMMA OutsideTyping ==
  ASSUME TypeOK, NEW t \in Threads, NEW p \in {"none", "user", "op", "waiting", "lock"},
         pc[t] \notin Printing \ {"lock"},
         pc' = [pc EXCEPT ![t] = p], printer' = printer
  PROVE  pc' \in [Threads -> Places] /\ printer' \in Threads \cup {NULL} /\ PrinterIsRight'
BY DEF TypeOK, PrinterIsRight, Places, Printing

LEMMA OperationTyping ==
  ASSUME TypeOK, NEW t \in Threads, Operate(t) PROVE TypeOK'
<1>1. pc[t] \in {"op", "waiting"}
  BY DEF Operate, Lock, Unlock, Wait, Wake, Relock, Signal, Broadcast, Detach, At
<1>2. \/ pc' = [pc EXCEPT ![t] = "lock"] /\ line' = [line EXCEPT ![t] = "return"]
      \/ pc' = [pc EXCEPT ![t] = "waiting"] /\ line' = line
      \/ pc' = [pc EXCEPT ![t] = pc[t]] /\ line' = line
  BY DEF TypeOK, Operate, Lock, Unlock, Wait, Wake, Relock, Signal, Broadcast, Detach, ToReturn, calls
<1>3. call' = call /\ tid' = tid /\ printer' = printer /\ UNCHANGED <<thread_list, inside, lost, exited>>
  BY DEF Operate, Lock, Unlock, Wait, Wake, Relock, Signal, Broadcast, Detach, ToReturn, calls, log
<1>4. pc' \in [Threads -> Places] /\ printer' \in Threads \cup {NULL} /\ PrinterIsRight'
  <2>1. pc[t] \notin Printing \ {"lock"}
    BY <1>1 DEF Printing
  <2> QED BY <1>1, <1>2, <1>3, <2>1, OutsideTyping
<1>5. line' \in [Threads -> {"enter", "return"}]
  BY <1>2 DEF TypeOK
<1>6. owner' \in [Mutexes -> Threads \cup {NULL}]
  BY DEF TypeOK, Operate, Lock, Unlock, Wait, Wake, Relock, Signal, Broadcast, Detach, mutexes
<1>7. waiters' \in [Conds -> SUBSET Threads]
  <2>1. CASE UNCHANGED waiters
    BY <2>1 DEF TypeOK
  <2>2. ASSUME NEW S \in SUBSET Threads, waiters' = [waiters EXCEPT ![call[t].cond] = S]
        PROVE  waiters' \in [Conds -> SUBSET Threads]
    BY <2>2 DEF TypeOK
  <2>3. CASE Wait(t)
    <3>1. call[t].cond \in Conds
      BY <2>3, Arguments DEF Wait, At, TypeOK
    <3>2. waiters[call[t].cond] \cup {t} \in SUBSET Threads
      BY <3>1 DEF TypeOK
    <3> QED BY <2>2, <2>3, <3>2 DEF Wait
  <2>4. CASE Wake(t) \/ Signal(t) \/ Broadcast(t)
    <3>1. CASE call[t].cond \in Conds
      <4>1. waiters[call[t].cond] \in SUBSET Threads
        BY <3>1 DEF TypeOK
      <4> QED BY <2>1, <2>2, <2>4, <4>1 DEF Wake, Signal, Broadcast
    <3>2. CASE call[t].cond \notin Conds
      BY <2>4, <3>2 DEF Wake, Signal, Broadcast, TypeOK
    <3> QED BY <3>1, <3>2
  <2> QED BY <2>1, <2>3, <2>4 DEF Operate, Lock, Unlock, Relock, Detach, mutexes
<1> QED BY <1>3, <1>4, <1>5, <1>6, <1>7 DEF TypeOK, PrinterIsRight

LEMMA UserTyping ==
  ASSUME TypeOK, NEW t \in Threads, User(t) PROVE TypeOK'
<1>1. UNCHANGED <<tid, printer, thread_list, inside, lost, exited, owner, waiters>>
  BY DEF User, Create, Finish, Call, log, mutexes
<1>2. \E u \in Threads, w \in Wrappers \cup {my_start_routine}, ln \in {"enter", "return"} :
        /\ pc[u] \in {"user", "none"}
        /\ pc' = [pc EXCEPT ![u] = "lock"] /\ call' = [call EXCEPT ![u] = w] /\ line' = [line EXCEPT ![u] = ln]
  BY DEF User, Create, Finish, Call
<1>3. PICK u \in Threads, w \in Wrappers \cup {my_start_routine}, ln \in {"enter", "return"} :
        /\ pc[u] \in {"user", "none"}
        /\ pc' = [pc EXCEPT ![u] = "lock"] /\ call' = [call EXCEPT ![u] = w] /\ line' = [line EXCEPT ![u] = ln]
  BY <1>2
<1>4. pc' \in [Threads -> Places] /\ printer' \in Threads \cup {NULL} /\ PrinterIsRight'
  <2>1. pc[u] \notin Printing \ {"lock"}
    BY <1>3 DEF Printing
  <2> QED BY <1>1, <1>3, <2>1, OutsideTyping
<1>5. call' \in [Threads -> Wrappers \cup {my_start_routine}] /\ line' \in [Threads -> {"enter", "return"}]
  BY <1>3 DEF TypeOK
<1> QED BY <1>1, <1>4, <1>5 DEF TypeOK, PrinterIsRight

LEMMA PrintTyping ==
  ASSUME TypeOK, NEW t \in Threads, SyncPrint(t) PROVE TypeOK'
<1>1. UNCHANGED <<call, line, owner, waiters>>
  BY DEF SyncPrint, PrintLock, Search, Write, ShortWrite, PrintUnlock, calls, mutexes
<1>2. pc' \in [Threads -> Places] /\ printer' \in Threads \cup {NULL} /\ PrinterIsRight'
  <2>1. CASE PrintLock(t)
    BY <2>1, NullAssumption DEF PrintLock, TypeOK, PrinterIsRight, Places, Printing
  <2>2. CASE Search(t) \/ Write(t)
    BY <2>2 DEF Search, Write, TypeOK, PrinterIsRight, Places, Printing
  <2>3. CASE ShortWrite(t)
    BY <2>3 DEF ShortWrite, TypeOK, PrinterIsRight
  <2>4. CASE PrintUnlock(t)
    <3>1. After(t) \in {"user", "none", "op"}
      BY DEF After
    <3>2. printer = t /\ printer' = NULL /\ pc' = [pc EXCEPT ![t] = After(t)]
      BY <2>4 DEF PrintUnlock, TypeOK, Printing
    <3> QED BY <3>1, <3>2, NullAssumption DEF TypeOK, PrinterIsRight, Places, Printing
  <2> QED BY <2>1, <2>2, <2>3, <2>4 DEF SyncPrint
<1>3. tid' \in [Threads -> Nat]
  <2>1. CASE Search(t)
    <3>1. Len(thread_list) \in Nat /\ Hits(t) \subseteq Nat
      BY DEF TypeOK, Hits
    <3>2. PICK n \in IF Hits(t) = {} THEN {Len(thread_list)} ELSE {n \in Hits(t) : \A k \in Hits(t) : n <= k} :
            tid' = [tid EXCEPT ![t] = n]
      BY <2>1 DEF Search
    <3> QED BY <3>1, <3>2 DEF TypeOK
  <2> QED BY <2>1 DEF SyncPrint, PrintLock, Write, ShortWrite, PrintUnlock, TypeOK
<1>4. thread_list' \in Seq(Threads)
  <2>1. thread_list \in Seq(Threads) /\ Append(thread_list, t) \in Seq(Threads)
    BY DEF TypeOK
  <2> QED BY <2>1 DEF SyncPrint, PrintLock, Search, Write, ShortWrite, PrintUnlock, log
<1>5. inside' \in [Mutexes -> SUBSET Nat]
  <2>1. tid[t] \in Nat
    BY DEF TypeOK
  <2>2. \A m \in Mutexes : Shown(call[t], line[t], tid[t])[m] \in SUBSET Nat
    BY <2>1 DEF Shown, TypeOK
  <2>3. Shown(call[t], line[t], tid[t]) \in [Mutexes -> SUBSET Nat]
    BY <2>2 DEF Shown
  <2> QED BY <2>3 DEF SyncPrint, PrintLock, Search, Write, ShortWrite, PrintUnlock, log, TypeOK
<1>6. lost' \in BOOLEAN /\ exited' \in BOOLEAN
  BY DEF SyncPrint, PrintLock, Search, Write, ShortWrite, PrintUnlock, log, TypeOK
<1> QED BY <1>1, <1>2, <1>3, <1>4, <1>5, <1>6 DEF TypeOK, PrinterIsRight

\* A thread writes its line: the list names it, and the log shows what is so.
LEMMA WriteStep ==
  ASSUME IInv, NEW t \in Threads, Write(t), TypeOK' PROVE IInv'
<1> USE DEF IInv
<1> DEFINE L == Len(thread_list)
<1>1. /\ thread_list \in Seq(Threads) /\ L \in Nat /\ tid[t] \in Nat
      /\ DOMAIN thread_list = 1 .. L
  BY DEF TypeOK
<1>2. /\ UNCHANGED <<call, line, tid, owner>>
      /\ pc' = [pc EXCEPT ![t] = "unlock"] /\ pc[t] = "write"
  BY DEF Write, calls, mutexes
<1>3. IF Hits(t) = {} THEN tid[t] = L ELSE tid[t] \in Hits(t)
  BY <1>2 DEF SearchIsRight
<1>4. /\ thread_list' \in Seq(Threads) /\ Len(thread_list') \in Nat
      /\ DOMAIN thread_list' = 1 .. Len(thread_list')
      /\ DOMAIN thread_list \subseteq DOMAIN thread_list'
      /\ \A i \in DOMAIN thread_list : thread_list'[i] = thread_list[i]
      /\ \A i \in DOMAIN thread_list' : i \notin DOMAIN thread_list => thread_list'[i] = t
  <2>1. CASE tid[t] = L
    BY <1>1, <2>1 DEF Write
  <2>2. CASE tid[t] # L
    BY <1>1, <2>2 DEF Write
  <2> QED BY <2>1, <2>2
<1>5. tid[t] + 1 \in DOMAIN thread_list' /\ thread_list'[tid[t] + 1] = t
  <2>1. CASE Hits(t) = {}
    BY <1>1, <1>3, <2>1 DEF Write
  <2>2. CASE Hits(t) # {}
    BY <1>1, <1>3, <1>4, <2>2 DEF Hits
  <2> QED BY <2>1, <2>2
<1>6. \A i, j \in DOMAIN thread_list' : thread_list'[i] = thread_list'[j] => i = j
  <2>1. CASE Hits(t) = {}
    <3>1. \A i \in DOMAIN thread_list : thread_list[i] # t
      <4> TAKE i \in DOMAIN thread_list
      <4>1. i - 1 \in 0 .. L - 1 /\ (i - 1) + 1 = i
        BY <1>1
      <4> QED BY <2>1, <4>1 DEF Hits
    <3>2. thread_list' = Append(thread_list, t)
      BY <1>3, <2>1 DEF Write
    <3>3. \A i \in DOMAIN thread_list' : i \notin DOMAIN thread_list => i = L + 1
      BY <1>1, <3>2
    <3> QED BY <1>4, <3>1, <3>3 DEF NumbersAreUnique
  <2>2. CASE Hits(t) # {}
    <3>1. tid[t] # L
      BY <1>1, <1>3, <2>2 DEF Hits
    <3> QED BY <3>1 DEF Write, NumbersAreUnique
  <2> QED BY <2>1, <2>2
<1>7. NumbersAreUnique'
  <2> SUFFICES ASSUME NEW u \in Threads, pc'[u] = "unlock"
               PROVE  tid[u] + 1 \in DOMAIN thread_list' /\ thread_list'[tid[u] + 1] = u
    BY <1>2, <1>6 DEF NumbersAreUnique
  <2>1. CASE u = t
    BY <1>5, <2>1
  <2>2. CASE u # t
    BY <1>2, <1>4, <2>2 DEF NumbersAreUnique, TypeOK
  <2> QED BY <2>1, <2>2
<1>8. SearchIsRight'
  <2>1. \A u \in Threads : pc'[u] # "write"
    BY <1>2 DEF TypeOK, Printing
  <2> QED BY <2>1 DEF SearchIsRight
<1>9. CallersHold'
  BY <1>2 DEF CallersHold, TypeOK, Printing
<1>10. \A u \in Threads \ {t} : Hits(u)' = Hits(u)
  <2> SUFFICES ASSUME NEW u \in Threads \ {t}, NEW n \in Nat
               PROVE  n \in Hits(u)' <=> n \in Hits(u)
    BY <1>1, <1>4 DEF Hits
  <2>1. n \in Hits(u)' <=> n + 1 \in DOMAIN thread_list' /\ thread_list'[n + 1] = u
    BY <1>4 DEF Hits
  <2>2. n \in Hits(u) <=> n + 1 \in DOMAIN thread_list /\ thread_list[n + 1] = u
    BY <1>1 DEF Hits
  <2> QED BY <1>4, <2>1, <2>2
<1>11. Hits(t)' = {tid[t]}
  <2>1. \A n \in Hits(t)' : n + 1 \in DOMAIN thread_list' /\ thread_list'[n + 1] = t /\ n \in Int
    BY <1>4 DEF Hits
  <2>2. \A n \in Hits(t)' : n = tid[t]
    BY <1>1, <1>5, <1>6, <2>1
  <2>3. tid[t] \in Hits(t)'
    BY <1>1, <1>4, <1>5 DEF Hits
  <2> QED BY <2>2, <2>3
<1>12. CASE lost'
  BY <1>7, <1>8, <1>9, <1>12 DEF ReleasesAreAnnounced, LogShowsTheHolder
<1>13. CASE ~lost'
  <2>1. ~lost /\ inside' = Shown(call[t], line[t], tid[t])
    BY <1>13 DEF Write, TypeOK
  <2>2. \A m \in Mutexes : inside'[m] \subseteq inside[m] \cup {tid[t]}
    BY <2>1 DEF Shown
  <2>3. \A m \in Mutexes : tid[t] \in inside'[m] /\ tid[t] \notin inside[m] => owner[m] = t
    <3> TAKE m \in Mutexes
    <3> HAVE tid[t] \in inside'[m] /\ tid[t] \notin inside[m]
    <3>1. m = call[t].mutex /\ line[t] = "return" /\ call[t].fn \in Takes
      BY <2>1 DEF Shown
    <3> QED BY <1>2, <3>1 DEF CallersHold, Printing
  <2>4. LogShowsTheHolder'
    <3> SUFFICES ASSUME NEW m \in Mutexes, NEW n \in inside'[m]
                 PROVE  n + 1 \in DOMAIN thread_list' /\ owner[m] = thread_list'[n + 1]
      BY <1>2 DEF LogShowsTheHolder
    <3>1. CASE n \in inside[m]
      BY <1>4, <2>1, <3>1 DEF LogShowsTheHolder
    <3>2. CASE n \notin inside[m]
      BY <1>5, <2>2, <2>3, <3>2
    <3> QED BY <3>1, <3>2
  <2>5. ReleasesAreAnnounced'
    <3> SUFFICES ASSUME NEW u \in Threads, call[u].fn \in Releases, line[u] = "enter", pc'[u] \in {"unlock", "op"}
                 PROVE  Hits(u)' \cap inside'[call[u].mutex] = {}
      BY <1>2 DEF ReleasesAreAnnounced
    <3>1. call[u].mutex \in Mutexes
      BY Arguments DEF TypeOK
    <3>2. CASE u = t
      <4>1. inside'[call[t].mutex] = inside[call[t].mutex] \ {tid[t]}
        <5>1. line[t] # "return"
          BY <3>2
        <5> QED BY <2>1, <3>1, <3>2, <5>1 DEF Shown
      <4> QED BY <1>11, <3>2, <4>1
    <3>3. CASE u # t
      <4>1. Hits(u) \cap inside[call[u].mutex] = {}
        BY <1>2, <2>1, <3>3 DEF ReleasesAreAnnounced, TypeOK
      <4>2. tid[t] \notin Hits(u)'
        BY <1>5, <3>3 DEF Hits
      <4> QED BY <1>10, <2>2, <3>1, <3>3, <4>1, <4>2
    <3> QED BY <3>2, <3>3
  <2> QED BY <1>7, <1>8, <1>9, <2>4, <2>5
<1> QED BY <1>12, <1>13

\* What a step that changes the owner of a mutex leaves alone.
LEMMA ListUnchanged ==
  ASSUME IInv, UNCHANGED <<log, tid>>, NEW t \in Threads, NEW p \in {"lock", "waiting"},
         pc' = [pc EXCEPT ![t] = p]
  PROVE  NumbersAreUnique' /\ SearchIsRight' /\ \A u \in Threads : Hits(u)' = Hits(u)
<1> USE DEF IInv, log
<1>1. \A u \in Threads : Hits(u)' = Hits(u)
  BY DEF Hits
<1>2. \A u \in Threads : pc'[u] \in {"unlock", "write"} => pc'[u] = pc[u]
  BY DEF TypeOK
<1> QED BY <1>1, <1>2 DEF NumbersAreUnique, SearchIsRight

LEMMA TakeStep ==
  ASSUME IInv, NEW t \in Threads, Lock(t) \/ Relock(t), TypeOK' PROVE IInv'
<1> USE DEF IInv
<1> DEFINE m == call[t].mutex
<1>1. call[t].fn \in Takes
  BY DEF Lock, At, Relock, Takes, CallersHold
<1>2. m \in Mutexes
  BY <1>1, Arguments DEF TypeOK
<1>3. /\ owner[m] = NULL /\ owner' = [owner EXCEPT ![m] = t]
      /\ pc' = [pc EXCEPT ![t] = "lock"] /\ line' = [line EXCEPT ![t] = "return"]
      /\ UNCHANGED <<call, tid, log>>
  BY DEF Lock, Relock, ToReturn
<1>4. NumbersAreUnique' /\ SearchIsRight' /\ \A u \in Threads : Hits(u)' = Hits(u)
  BY <1>3, ListUnchanged
<1>5. pc'[t] = "lock" /\ line'[t] = "return" /\ owner'[m] = t
  BY <1>2, <1>3 DEF TypeOK
<1>6. \A u \in Threads \ {t} : pc'[u] = pc[u] /\ line'[u] = line[u]
  BY <1>3 DEF TypeOK
<1>7. \A k \in Mutexes : owner[k] # NULL => owner'[k] = owner[k]
  BY <1>2, <1>3 DEF TypeOK
<1>8. CallersHold'
  <2>1. \A u \in Threads : call[u].fn \in Releases \cup Takes => call[u].mutex \in Mutexes
    BY Arguments DEF TypeOK
  <2>2. \A u \in Threads : u # NULL
    BY NullAssumption
  <2> QED BY <1>3, <1>5, <1>6, <1>7, <2>1, <2>2 DEF CallersHold
<1>9. ReleasesAreAnnounced'
  BY <1>3, <1>4, <1>5, <1>6 DEF ReleasesAreAnnounced, log
<1>10. LogShowsTheHolder'
  <2> SUFFICES ASSUME ~lost, NEW k \in Mutexes, NEW n \in inside[k]
               PROVE  n + 1 \in DOMAIN thread_list /\ owner'[k] = thread_list[n + 1]
    BY <1>3 DEF LogShowsTheHolder, log
  <2>1. n + 1 \in DOMAIN thread_list /\ owner[k] = thread_list[n + 1]
    BY DEF LogShowsTheHolder
  <2>2. thread_list[n + 1] \in Threads
    BY <2>1 DEF TypeOK
  <2> QED BY <1>7, <2>1, <2>2, NullAssumption
<1> QED BY <1>4, <1>8, <1>9, <1>10

LEMMA ReleaseStep ==
  ASSUME IInv, NEW t \in Threads, Unlock(t) \/ Wait(t), TypeOK' PROVE IInv'
<1> USE DEF IInv
<1> DEFINE m == call[t].mutex
<1>1. call[t].fn \in Releases /\ pc[t] = "op" /\ line[t] = "enter"
  BY DEF Unlock, Wait, At, Releases, CallersHold
<1>2. m \in Mutexes
  BY <1>1, Arguments DEF TypeOK
<1>3. owner[m] = t
  BY <1>1 DEF CallersHold
<1>4. /\ owner' = [owner EXCEPT ![m] = NULL]
      /\ UNCHANGED <<call, tid, log>>
      /\ \/ /\ call[t].fn = "mutex_unlock"
            /\ pc' = [pc EXCEPT ![t] = "lock"] /\ line' = [line EXCEPT ![t] = "return"]
         \/ /\ call[t].fn = "cond_wait"
            /\ pc' = [pc EXCEPT ![t] = "waiting"] /\ line' = line
  BY DEF Unlock, Wait, At, ToReturn, calls
<1>5. NumbersAreUnique' /\ SearchIsRight' /\ \A u \in Threads : Hits(u)' = Hits(u)
  BY <1>4, ListUnchanged
<1>6. \/ pc'[t] = "lock" /\ line'[t] = "return" /\ call[t].fn = "mutex_unlock"
      \/ pc'[t] = "waiting" /\ call[t].fn = "cond_wait"
  BY <1>4 DEF TypeOK
<1>7. \A u \in Threads \ {t} : pc'[u] = pc[u] /\ line'[u] = line[u]
  BY <1>4 DEF TypeOK
<1>8. \A k \in Mutexes : owner[k] # t => owner'[k] = owner[k]
  BY <1>3, <1>4 DEF TypeOK
<1>9. CallersHold'
  <2>1. \A u \in Threads : call[u].fn \in Releases \cup Takes => call[u].mutex \in Mutexes
    BY Arguments DEF TypeOK
  <2>2. \A u \in Threads \ {t} :
          /\ pc'[u] = "op" => line'[u] = "enter"
          /\ pc'[u] = "waiting" => call'[u].fn = "cond_wait"
          /\ call'[u].fn \in Releases /\ line'[u] = "enter" /\ pc'[u] \in Printing \cup {"op"} =>
               owner'[call'[u].mutex] = u
          /\ call'[u].fn \in Takes /\ line'[u] = "return" /\ pc'[u] \in Printing =>
               owner'[call'[u].mutex] = u
    BY <1>4, <1>7, <1>8, <2>1 DEF CallersHold
  <2>3. "mutex_unlock" \notin Takes /\ "waiting" \notin Printing
    BY DEF Takes, Printing
  <2> QED BY <1>4, <1>6, <2>2, <2>3 DEF CallersHold
<1>10. ReleasesAreAnnounced'
  BY <1>4, <1>5, <1>6, <1>7 DEF ReleasesAreAnnounced, log
<1>11. LogShowsTheHolder'
  <2> SUFFICES ASSUME ~lost, NEW k \in Mutexes, NEW n \in inside[k]
               PROVE  n + 1 \in DOMAIN thread_list /\ owner'[k] = thread_list[n + 1]
    BY <1>4 DEF LogShowsTheHolder, log
  <2>1. n + 1 \in DOMAIN thread_list /\ owner[k] = thread_list[n + 1] /\ n \in Nat
    BY DEF LogShowsTheHolder, TypeOK
  <2>2. CASE k # m
    BY <1>2, <1>4, <2>1, <2>2 DEF TypeOK
  <2>3. CASE k = m
    <3>1. n \in Hits(t)
      BY <1>3, <2>1, <2>3 DEF Hits, TypeOK
    <3> QED BY <1>1, <2>3, <3>1 DEF ReleasesAreAnnounced
  <2> QED BY <2>2, <2>3
<1> QED BY <1>5, <1>9, <1>10, <1>11

LEMMA PrintStep ==
  ASSUME IInv, NEW t \in Threads, SyncPrint(t), TypeOK' PROVE IInv'
<1> USE DEF IInv
<1>1. CASE PrintLock(t)
  <2>1. /\ pc' = [pc EXCEPT ![t] = "search"] /\ pc[t] = "lock"
        /\ UNCHANGED <<call, line, tid, log, owner>>
    BY <1>1 DEF PrintLock, calls, mutexes
  <2>2. pc'[t] = "search" /\ \A u \in Threads \ {t} : pc'[u] = pc[u]
    BY <2>1 DEF TypeOK
  <2> QED BY <2>1, <2>2, PlaceChanges DEF CallersHold, Printing
<1>2. CASE Search(t)
  <2>1. PICK n \in IF Hits(t) = {} THEN {Len(thread_list)} ELSE {n \in Hits(t) : \A k \in Hits(t) : n <= k} :
          tid' = [tid EXCEPT ![t] = n]
    BY <1>2 DEF Search
  <2>2. /\ pc' = [pc EXCEPT ![t] = "write"] /\ pc[t] = "search"
        /\ UNCHANGED <<call, line, log, owner>>
    BY <1>2 DEF Search, calls, mutexes
  <2>3. pc'[t] = "write" /\ \A u \in Threads \ {t} : pc'[u] = pc[u] /\ tid'[u] = tid[u]
    BY <2>1, <2>2 DEF TypeOK
  <2>4. IF Hits(t) = {} THEN tid'[t] = Len(thread_list) ELSE tid'[t] \in Hits(t)
    BY <2>1 DEF TypeOK
  <2> QED BY <2>2, <2>3, <2>4, PlaceChanges DEF CallersHold, Printing
<1>3. CASE Write(t)
  BY <1>3, WriteStep
<1>4. CASE ShortWrite(t)
  <2>1. UNCHANGED <<pc, call, line, tid, printer, thread_list, inside, lost, owner, waiters>>
    BY <1>4 DEF ShortWrite, calls, mutexes
  <2> QED BY <2>1 DEF NumbersAreUnique, SearchIsRight, Hits, CallersHold, ReleasesAreAnnounced, LogShowsTheHolder
<1>5. CASE PrintUnlock(t)
  <2>1. /\ pc' = [pc EXCEPT ![t] = After(t)] /\ pc[t] = "unlock"
        /\ UNCHANGED <<call, line, tid, log, owner>>
    BY <1>5 DEF PrintUnlock, calls, mutexes
  <2>2. pc'[t] = After(t) /\ \A u \in Threads \ {t} : pc'[u] = pc[u]
    BY <2>1 DEF TypeOK
  <2>3. After(t) \in {"user", "none", "op"} /\ (After(t) = "op" => line[t] = "enter")
    BY DEF After
  <2>4. {"user", "none", "op"} \cap Printing = {}
    BY DEF Printing
  <2>5. call[t].fn \in Releases /\ line[t] = "enter" => owner[call[t].mutex] = t
    BY <2>1 DEF CallersHold, Printing
  <2> QED BY <2>1, <2>2, <2>3, <2>4, <2>5, PlaceChanges
<1> QED BY <1>1, <1>2, <1>3, <1>4, <1>5 DEF SyncPrint

LEMMA UserStep ==
  ASSUME IInv, NEW t \in Threads, User(t), TypeOK' PROVE IInv'
<1> USE DEF IInv
<1>1. UNCHANGED <<tid, log, owner>>
  BY DEF User, Create, Finish, Call, mutexes
<1>2. ASSUME NEW u \in Threads, NEW w \in Wrappers \cup {my_start_routine}, NEW ln \in {"enter", "return"},
             pc' = [pc EXCEPT ![u] = "lock"], call' = [call EXCEPT ![u] = w], line' = [line EXCEPT ![u] = ln],
             w.fn \in Releases /\ ln = "enter" => owner[w.mutex] = u,
             ~ (w.fn \in Takes /\ ln = "return")
      PROVE  IInv'
  <2>1. pc'[u] = "lock" /\ call'[u] = w /\ line'[u] = ln
    BY <1>2 DEF TypeOK
  <2>2. \A v \in Threads \ {u} : pc'[v] = pc[v] /\ call'[v] = call[v] /\ line'[v] = line[v]
    BY <1>2 DEF TypeOK
  <2> QED BY <1>1, <1>2, <2>1, <2>2, PlaceChanges
<1>3. CASE \E u \in Threads : Create(t, u)
  BY <1>2, <1>3, RoutineIsNoMutexCall DEF Create
<1>4. CASE Finish(t)
  BY <1>2, <1>4, RoutineIsNoMutexCall DEF Finish
<1>5. CASE \E w \in Wrappers : Call(t, w)
  BY <1>2, <1>5 DEF Call, Allowed
<1> QED BY <1>3, <1>4, <1>5 DEF User

LEMMA OperateStep ==
  ASSUME IInv, NEW t \in Threads, Operate(t), TypeOK' PROVE IInv'
<1> USE DEF IInv
<1>1. CASE Wake(t)
  <2>1. UNCHANGED <<pc, call, line, tid, log, owner>>
    BY <1>1 DEF Wake, calls
  <2> QED BY <2>1 DEF NumbersAreUnique, SearchIsRight, Hits, CallersHold, ReleasesAreAnnounced, LogShowsTheHolder, log
<1>2. CASE Signal(t) \/ Broadcast(t) \/ Detach(t)
  <2>1. /\ pc' = [pc EXCEPT ![t] = "lock"] /\ line' = [line EXCEPT ![t] = "return"]
        /\ UNCHANGED <<call, tid, log, owner>>
        /\ call[t].fn \notin Takes
    BY <1>2 DEF Signal, Broadcast, Detach, At, ToReturn, Takes, mutexes
  <2>2. pc'[t] = "lock" /\ line'[t] = "return"
    BY <2>1 DEF TypeOK
  <2>3. \A u \in Threads \ {t} : pc'[u] = pc[u] /\ line'[u] = line[u]
    BY <2>1 DEF TypeOK
  <2> QED BY <2>1, <2>2, <2>3, PlaceChanges
<1>3. CASE Lock(t) \/ Relock(t)
  BY <1>3, TakeStep
<1>4. CASE Unlock(t) \/ Wait(t)
  BY <1>4, ReleaseStep
<1> QED BY <1>1, <1>2, <1>3, <1>4 DEF Operate

LEMMA Step == IInv /\ [Next]_vars => IInv'
<1> SUFFICES ASSUME IInv, [Next]_vars PROVE IInv'
  OBVIOUS
<1>1. CASE UNCHANGED vars
  BY <1>1 DEF vars, IInv, TypeOK, NumbersAreUnique, SearchIsRight, Hits, CallersHold,
              ReleasesAreAnnounced, LogShowsTheHolder
<1>2. CASE Next
  <2>1. PICK t \in Threads : User(t) \/ SyncPrint(t) \/ Operate(t)
    BY <1>2 DEF Next
  <2>2. TypeOK'
    BY <2>1, UserTyping, PrintTyping, OperationTyping DEF IInv
  <2> QED BY <2>1, <2>2, UserStep, PrintStep, OperateStep
<1> QED BY <1>1, <1>2

LEMMA Invariance == Spec => []IInv
BY FirstState, Step, PTL DEF Spec

\* The print lock is held by the one thread that is between its lock and its
\* unlock (dthread.cpp:24-58).
THEOREM TypeCorrect == Spec => []TypeOK
<1>1. IInv => TypeOK
  BY DEF IInv
<1> QED BY <1>1, Invariance, PTL

\* The numbers of the log name the threads one to one: sync_print()'s search
\* and its push_back() are one critical section (dthread.cpp:31-44).
THEOREM NumbersUnique == Spec => []NumbersAreUnique
<1>1. IInv => NumbersAreUnique
  BY DEF IInv
<1> QED BY <1>1, Invariance, PTL

\* The order of the lines: enter before an unlock, return after a lock, so
\* whom the log shows inside a mutex holds it (dthread.cpp:98-120).
THEOREM LogTellsTheHolder == Spec => []LogShowsTheHolder
<1>1. IInv => LogShowsTheHolder
  BY DEF IInv
<1> QED BY <1>1, Invariance, PTL
=============================================================================
