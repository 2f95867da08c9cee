SPECIFICATION Spec
CONSTANTS
  NumInodes = 3
  NumData = 3
  UFS_BLOCK_SIZE = 3
  DIRECT_PTRS = 2
  InodesPerBlock = 2
  InodeBits = 3
  DataBits = 4
  MaxLog = 12
  MaxCalls = 8
  Names = {a, b}
  LongName = long
  Values = {v}

  Sizes = {2, 4}
  Garbage <- MCGarbage
  None = None
SYMMETRY Symmetry
CHECK_DEADLOCK FALSE
INVARIANTS
  DiskAcceptsAllCalls
  StopsHurtNobodyElse
PROPERTIES
  ImplementsLocalFileSystem
