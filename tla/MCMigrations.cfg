\* Three servers that start together, one failed statement, two crashes.
SPECIFICATION FairSpec
CONSTANTS
  Servers = {s1, s2, s3}
  LastFile = 3
  MaxFaults = 1
  MaxBreaks = 2
INVARIANTS
  TypeOK
  ServesWholeSchema
  RecordFollowsSchema
PROPERTIES
  EveryServerStarts
CHECK_DEADLOCK FALSE
