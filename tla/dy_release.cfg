SPECIFICATION FairSpec
CONSTANTS
  Deployed <- Revisions
  Names = {"pet", "kitchen"}
  Pet = "pet"
  Legacy = "food"
  Terms = {"tower", "bowl"}
  SeedTerms = {"tower"}
  Supplies <- AddedLater
  MaxTrouble = 2
  MaxStops = 2
  None = None
CHECK_DEADLOCK FALSE
INVARIANTS
  TypeOK
  CodeFits
  Bootstrapped
PROPERTIES
  RestartsKeep
  Ready
