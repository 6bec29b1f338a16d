SPECIFICATION Spec
CONSTANTS
  None = None
  Fine = 2
  Scale = 100
  UnitShipping = 40
  FilingFee = 300
  PriceFloor = 100
  Budget = 20000
  Workers = {w1, w2}
  w1 = w1
  w2 = w2
  Urls = {"bowl"}
  KeywordOf <- OnePage
  Place <- WholeOnes
  Orders <- FineOrder
  Patches <- TwoPatches
  ShippingRates <- Tiers
  Mappings <- MappedCup
  Hints <- NoHint
  PetFood = "230910"
  DutyRates <- Tariff
  NaverAvg <- CupPrice
  Rates = {3}
  DefaultRate = 2
  CalculatorRate = 2
  Lookback = 2
  MaxProducts = 2
  MaxScores = 3
  MaxDays = 2
  MaxMisses = 1
SYMMETRY Threads
CHECK_DEADLOCK FALSE
INVARIANTS
  TypeOK
  OneProductPerUrl
  ScoreOfRow
  CostsAgree
  RateIsRecent
