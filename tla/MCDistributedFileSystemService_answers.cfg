SPECIFICATION ServiceSpec
CONSTANTS
  NumInodes = 3
  NumData = 3
  UFS_BLOCK_SIZE = 3
  DIRECT_PTRS = 2
  InodesPerBlock = 2
  a = a
  b = b
  Names = {a, b}
  LongName = long
  Values = {v}
  Sizes = {0, 4}
  Garbage <- MCGarbage
  Paths <- MCPaths
PROPERTIES
  
  RequestsEnd
  PutThenGet
  
