SPECIFICATION Spec
CONSTANTS
  Ctrl = {c1, c2}
  c1 = c1
  c2 = c2
  NULL = NULL
  DEAD = DEAD
  Cluster = {0, 1}
  Addr = {1, 2, 3}
  Config0 <- TwoClusters
  TryTimes = 1
  Events = {"config", "redis", "zk", "session", "restart", "slow"}
  MaxEvents = 3
SYMMETRY Symmetry
INVARIANTS TypeOK OneController AtMostOneLegal NoSharedRedis Classified
PROPERTIES MasterSticky SlaveofFollowsLegal Led
CHECK_DEADLOCK FALSE
