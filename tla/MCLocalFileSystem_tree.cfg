SPECIFICATION Spec
CONSTANTS
  NumInodes = 3
  NumData = 3
  UFS_BLOCK_SIZE = 3
  DIRECT_PTRS = 2
  InodesPerBlock = 2
  Names = {a, b}
  LongName = long
  Values = {v, w}
  Sizes = {0, 2, 4, 7}
  Garbage <- MCGarbage
SYMMETRY Symmetry
INVARIANTS
  TypeOK
  BlocksHaveOneOwner
  DirectoriesAreDense
PROPERTIES
  ImplementsFileTree
