SPECIFICATION Spec
CONSTANTS
  Pages = {p1, p2}
  Urls = {u1}
  Payloads = {y1, y2}
  Templates = {tplA, tplB}
  Copies = {c1, blank}
  BlankCopy = blank
  None = None
  MaxTasks = 4
  MaxCrashes = 1
  MaxDbErrors = 1
  StaleViews = FALSE
CHECK_DEADLOCK FALSE
SYMMETRY Symmetry
INVARIANTS
  TypeOK
  DoneIsOneRun
PROPERTY
  KeepsPromise
