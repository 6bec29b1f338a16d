SPECIFICATION FairSpec
CONSTANTS
  Jobs = {"recalculate", "fill", "pipeline"}
  Keywords = {1, 2}
  Ranking <- TwoRanked
  BatchLimit = 2
  MaxAttempts = 2
  None = None
  MaxFires = 2
  MaxFlaws = 2
  MaxDbErrors = 2
  MaxCrashes = 1
CHECK_DEADLOCK FALSE
INVARIANTS
  TypeOK
  SuccessIsAccounted
  HangsOnOneLoop
PROPERTY
  EndsUnlessHung
