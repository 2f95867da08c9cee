SPECIFICATION Spec
CONSTANTS
  Datas <- MCDatas
  Digits64 <- MCDigits
  Dicts <- MCDicts
  Queries <- MCQueries
  Pad = Pad
  Invalid = Invalid
  Thrown = Thrown
CHECK_DEADLOCK FALSE
INVARIANTS
  
  
  FormRoundTrip
  
