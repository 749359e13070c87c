\* Two sessions over HTTP and two connections to the database; nothing fails.
SPECIFICATION FairSpec
CONSTANTS
  HTTP = {h1, h2}
  SSH = {s1}
  PATs = {p1}
  Keys = {k1}
  Owner = alice
  Users = {alice, bob}
  Nobody = nobody
  MaxConns = 2
  MaxSSH = 1
  MaxRequests = 2
  MaxChanges = 0
  MaxTroubles = 0
PROPERTIES
  ValidationsReturn
CHECK_DEADLOCK FALSE
