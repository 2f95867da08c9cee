SPECIFICATION FairRequestSpec
CHECK_DEADLOCK FALSE
CONSTANTS
  Null = Null
  HTTP_MAX_HEADER_SIZE = 30
  Requests <- Some
  Major <- AnyMajor
INVARIANTS
  TypeOK
  HandlersSeeWhatWasSent
  CutsDoNotMatter
  SupportedRequestsAreSafe
PROPERTIES
  RequestsAreRead
