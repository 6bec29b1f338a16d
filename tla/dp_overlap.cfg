SPECIFICATION FairSpec
CONSTANTS
  Pages = {p1, p2}
  Urls = {u1}
  Payloads = {y1, y2}
  Templates = {tplA, tplB}
  Copies = {c1}
  BlankCopy = blank
  None = None
  MaxTasks = 3
  MaxCrashes = 1
  MaxDbErrors = 1
  StaleViews = TRUE
CHECK_DEADLOCK FALSE
INVARIANTS
  UnsettledHasTask
  ImageOnDisk
PROPERTY
  RequestsSettle
