\* Two requests and two kubectl commands on two repositories whose CRs have
\* the same name, any one step failing.
SPECIFICATION SystemSpec
CONSTANTS
  Users <- MCUsers
  Names <- MCNames
  Keys <- TwoKeys
  CRNames <- MCCRNames
  CRName <- MCCRName
  Accepted <- TwoKeys
  Reqs = {r1, r2}
  Traffic <- MixedTraffic
  Manifests <- SharedName
  UseK8s = TRUE
  MaxFaults = 1
  MaxBreaks = 0
  MaxKubectl = 2
  MaxConcurrentReconciles = 5
  NoRow = NoRow
  NoCR = NoCR
  NoDisk = NoDisk
  NoReq = NoReq
  Operator = Operator
SYMMETRY Symmetry
INVARIANTS
  SystemTypeOK
  DatabaseIDIsOwn
  ReadyWithoutPatches
PROPERTIES
  ActsOnWhatItHolds
  FinalizerGuardsRow
CHECK_DEADLOCK FALSE
