\* One client; eleven minutes, in steps of one; a bucket fills in five.
SPECIFICATION Spec
CONSTANTS
  Clients = {c1}
  ReqPerMin = 2
  Delays = {60}
  MaxTime = 660
INVARIANTS
  TypeOK
  WindowBound
PROPERTIES
  ImplementsTokenBucket
CHECK_DEADLOCK FALSE
