SPECIFICATION Spec
CONSTANTS
  Workers = {w1, w2}
  RedisUsers = {w1}
  Capacity = 2
  PerToken = 3
  Timeouts = {0, 2}
  MaxClock = 8
  None = None
CHECK_DEADLOCK FALSE
INVARIANTS
  TypeOK
  WithinQuota
