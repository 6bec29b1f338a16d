SPECIFICATION Spec
CONSTANTS
  None = None
  Terms <- AllTerms
  Names = {"pet", "rest"}
  Droppable = {"rest"}
  Answered <- Shelves
  Internal <- Mapped
  Pet = "pet"
  Default = "rest"
  Grams <- Fragments
  Related <- Offers
  Volume <- Searches
  MinVolume = 100
  TopN = 2
  Sources = {"shop", "ads"}
  Answers <- Outcomes
  Requests = {r1, r2}
  MaxRuns = 2
  MaxGaps = 1
  MaxAtOnce = 2
  Proposed = {"bowl", "cup"}
  Typed = {"cup"}
SYMMETRY Symmetric
INVARIANTS
  TypeOK
  StandingEarned
  RowOfOneRun
  SecondNamesClashed
  LoopGoesOn
PROPERTIES
  SeedsStay
