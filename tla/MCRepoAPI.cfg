\* Three requests on one repository, any one step failing, one crash or lost reply.
SPECIFICATION Spec
CONSTANTS
  Users <- MCUsers
  Names <- MCNames
  Keys <- OneKey
  CRNames <- MCCRNames
  CRName <- MCCRName
  Accepted <- OneKey
  Reqs = {r1, r2, r3}
  Traffic <- AllTraffic
  UseK8s = TRUE
  MaxFaults = 1
  MaxBreaks = 1
  NoRow = NoRow
  NoCR = NoCR
  NoDisk = NoDisk
  NoReq = NoReq
  Operator = Operator
SYMMETRY Symmetry
INVARIANTS
  TypeOK
  AnswersConcernDistinctIds
  RowHasDisk
  FreshContent
  FeedIsTruthful
PROPERTIES
  ImplementsRegistry
  ActsOnWhatItLoaded
CHECK_DEADLOCK FALSE
