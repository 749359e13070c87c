\* A session over HTTP and one over SSH; more connections than the former.
SPECIFICATION FairSpec
CONSTANTS
  HTTP = {h1}
  SSH = {s1}
  PATs = {p1}
  Keys = {k1}
  Owner = alice
  Users = {alice, bob}
  Nobody = nobody
  MaxConns = 2
  MaxSSH = 1
  MaxRequests = 2
  MaxChanges = 2
  MaxTroubles = 1
INVARIANTS
  TypeOK
  GitRunsOnTruth
  FeedTellsOfPushes
PROPERTIES
  RequestsEnd
CHECK_DEADLOCK FALSE
