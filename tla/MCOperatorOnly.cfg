\* kubectl apply and kubectl delete; nothing fails.
SPECIFICATION OpSpec
CONSTANTS
  Users = {"u"}
  Names = {"n"}
  Keys <- MCKeys
  CRNames = {"u-n"}
  CRName <- MCCRName
  Reqs = {}
  Manifests <- MCManifests
  MaxFaults = 0
  MaxBreaks = 0
  MaxKubectl = 4
  MaxConcurrentReconciles = 5
  NoRow = NoRow
  NoCR = NoCR
  NoDisk = NoDisk
  Operator = Operator
INVARIANTS
  DeletionLeavesNothing
CHECK_DEADLOCK FALSE
