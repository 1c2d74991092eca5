SPECIFICATION FairSpec
CONSTANTS
  Ctrl = {c1, c2}
  c1 = c1
  c2 = c2
  NULL = NULL
  DEAD = DEAD
  Cluster = {0}
  Addr = {1, 2}
  Config0 <- OneCluster
  TryTimes = 1
  Events = {"redis", "zk", "session", "restart"}
  MaxEvents = 4
PROPERTY ConvergesUnlessStuck
CHECK_DEADLOCK FALSE
