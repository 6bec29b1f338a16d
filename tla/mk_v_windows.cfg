SPECIFICATION Spec
CONSTANTS
  None = None
  Scale = 100
  LogShare <- LogHundredths
  Codes = {"a", "b"}
  Trades <- Pairs
  Start <- April
  MaxMonths = 1
  MaxCodes = 1
  Excludable = {}
  Affordable = {"a", "b"}
  TopLimit = 2
  Tokens <- Offers
  Volumes = {300, 900}
  Signals <- Cases
CHECK_DEADLOCK FALSE
INVARIANT
  WindowsAreThreeMonths
