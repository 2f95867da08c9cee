SPECIFICATION FairSpec
CHECK_DEADLOCK FALSE
CONSTANTS
  Clients = {c1, c2, c3}
  Stalled = {c3}
  Requests <- SomeRequests
  None = None
  Broken = Broken
  Files <- Pages
  MaxFds = 2
  Backlog = 2
  ServiceStatuses = {200, 500, 507}
INVARIANTS
  DescriptorsAreAccountedFor
  PoliteClientsKeepItUp
  PagesAreFound
  
PROPERTIES
  RequestsAreAnswered
