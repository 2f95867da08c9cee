SPECIFICATION FairSpec
CHECK_DEADLOCK FALSE
CONSTANTS
  Threads = {t1, t2}
  Main = t1
  Mutexes = {m}
  Conds = {c}
  NULL = NULL
INVARIANTS
  TypeOK
  
  LogShowsTheHolder
PROPERTIES
  PrintLockIsReleased
