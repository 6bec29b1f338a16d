SPECIFICATION FairSpec
CONSTANTS
  None = None
  Keywords = {1, 2, 3, 4}
  Length <- Letters
  Longest = 2
  Silent = {1}
  Budget = 4
  BatchLimit = 4
  Api = api
  Scheduler = scheduler
  MaxTrouble = 1
INVARIANTS
  TypeOK
  SentWithinBudget
PROPERTIES
  AllTranslated
