SPECIFICATION FairSpec
CONSTANTS
  Jobs = {"recalculate", "fill", "pipeline"}
  Keywords = {1, 2}
  Ranking <- TwoRanked
  BatchLimit = 2
  MaxAttempts = 2
  None = None
  MaxFires = 1
  MaxFlaws = 1
  MaxDbErrors = 0
  MaxCrashes = 0
CHECK_DEADLOCK FALSE
PROPERTY
  RunsEnd
