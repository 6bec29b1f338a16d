SPECIFICATION FairSpec
CONSTANTS
  a = a
  b = b
  c = c
  Terms = {a, b, c}
  TopLists <- OneRanking
  Capacity = 2
  PerToken = 2
  Ttl = 10
  Interval = 3
  None = None
  MaxOutages = 1
  MaxCrashes = 1
  MaxDbErrors = 1
  MaxRefusals = 1
  MaxAge = 3
CHECK_DEADLOCK FALSE
PROPERTY EveryTermServed
INVARIANTS
  RefreshTypeOK
  QuotaWhileRedisAnswers
  LossRepeatsOnce
