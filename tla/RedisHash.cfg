SPECIFICATION FairSpec
CONSTANTS
  Client = {c1}
  c1 = c1
  Cluster = {0, 1}
  Addr = {1, 2, 3}
  Malformed = {3}
  User = {0, 1}
  Hash <- HashDef
  MaxChanges = 3
  MaxFaults = 1
INVARIANTS TypeOK EveryPlaceOnce Listening Agree
PROPERTIES View Informed
CHECK_DEADLOCK FALSE
