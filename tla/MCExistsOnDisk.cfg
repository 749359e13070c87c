\* Three requests on one repository; nothing fails.
SPECIFICATION Spec
CONSTANTS
  Users <- MCUsers
  Names <- MCNames
  Keys <- OneKey
  CRNames <- MCCRNames
  CRName <- MCCRName
  Accepted <- OneKey
  Reqs = {r1, r2, r3}
  Traffic <- AllTraffic
  UseK8s = TRUE
  MaxFaults = 0
  MaxBreaks = 0
  NoRow = NoRow
  NoCR = NoCR
  NoDisk = NoDisk
  NoReq = NoReq
  Operator = Operator
SYMMETRY Symmetry
INVARIANTS
  ExistsInDBAndOnDisk
CHECK_DEADLOCK FALSE
