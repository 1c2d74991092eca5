SPECIFICATION FairSpec
CONSTANTS
  Ctrl = {c1, c2}
  c1 = c1
  c2 = c2
  NULL = NULL
  DEAD = DEAD
  Cluster = {0, 1}
  Addr = {1, 2, 3}
  Config0 <- TwoClusters
  TryTimes = 2
  Events = {"config", "redis", "slow"}
  MaxEvents = 3
PROPERTY Converges
