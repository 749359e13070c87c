\* One API request after a POST; nothing fails.
SPECIFICATION SystemSpec
CONSTANTS
  Users <- MCUsers
  Names <- MCNames
  Keys <- OneKey
  CRNames <- MCCRNames
  CRName <- MCCRName
  Accepted <- OneKey
  Reqs = {r1, r2}
  Traffic <- OwnerTraffic
  Manifests <- GoodManifest
  UseK8s = TRUE
  MaxFaults = 0
  MaxBreaks = 0
  MaxKubectl = 2
  MaxConcurrentReconciles = 5
  NoRow = NoRow
  NoCR = NoCR
  NoDisk = NoDisk
  NoReq = NoReq
  Operator = Operator
SYMMETRY Symmetry
INVARIANTS
  ReadyMeansInSync
CHECK_DEADLOCK FALSE
