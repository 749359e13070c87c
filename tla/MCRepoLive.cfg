\* One request and two kubectl commands, one step failing, one crash or restart;
\* manifests of existing, unknown and ill-formed owners.
SPECIFICATION FairSpec
CONSTANTS
  Users <- MCUsers
  Names <- MCNames
  Keys <- OneKey
  CRNames <- MCCRNames
  CRName <- MCCRName
  Accepted <- OneKey
  Reqs = {r1}
  Traffic <- OwnerTraffic
  Manifests <- AllManifests
  UseK8s = TRUE
  MaxFaults = 1
  MaxBreaks = 1
  MaxKubectl = 2
  MaxConcurrentReconciles = 5
  NoRow = NoRow
  NoCR = NoCR
  NoDisk = NoDisk
  NoReq = NoReq
  Operator = Operator
INVARIANTS
  ReadyWithoutPatches
PROPERTIES
  DeletionCompletes
  Converges
CHECK_DEADLOCK FALSE
