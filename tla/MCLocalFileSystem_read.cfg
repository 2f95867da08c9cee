SPECIFICATION Spec
CONSTANTS
  NumInodes = 3
  NumData = 3
  UFS_BLOCK_SIZE = 3
  DIRECT_PTRS = 2
  InodesPerBlock = 2
  Names = {a, b}
  LongName = long
  Values = {v}
  Sizes = {0, 2}
  Garbage <- MCGarbage
SYMMETRY Symmetry
INVARIANTS
  ReadReturns
