SPECIFICATION FairSpec
CONSTANTS
  Ctrl = {c1}
  c1 = c1
  NULL = NULL
  DEAD = DEAD
  Cluster = {0, 1}
  Addr = {1, 2, 3}
  Config0 <- ConfigDef
  TryTimes = 1
  Events = {"redis", "config", "restart"}
  MaxEvents = 2
  Client = {d1}
  d1 = d1
  Malformed = {}
  User = {0, 1}
  Hash <- HashDef
  MaxChanges = 20
  MaxFaults = 1
PROPERTIES UsersStay View Served
