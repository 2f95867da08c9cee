SPECIFICATION FairRequestSpec
CHECK_DEADLOCK FALSE
CONSTANTS
  Null = Null
  HTTP_MAX_HEADER_SIZE = 30
  Requests <- Connects
  Major <- AnyMajor
INVARIANTS
  AssertionsHold
