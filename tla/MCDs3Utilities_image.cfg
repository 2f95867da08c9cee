SPECIFICATION Ds3Spec
CONSTANTS
  NumInodes = 4
  NumData = 3
  UFS_BLOCK_SIZE = 3
  DIRECT_PTRS = 2
  InodesPerBlock = 2
  BitsPerByte = 2
  Names = {a, b}
  LongName = long
  Values = {v}
  Sizes = {0, 4}
  Garbage <- MCGarbage
SYMMETRY Symmetry
INVARIANTS
  NamespaceIsTree
  
  ReadersAgree

  
