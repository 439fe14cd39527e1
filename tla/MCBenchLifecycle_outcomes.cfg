SPECIFICATION FairSpec
CONSTANTS
  Projects = {p1}
  MaxBenches = 1
  MaxGlobal = 1
  Ids = {b1}
  Calls = {c1, c2}
  PullLatest = FALSE
  MetaRepo = FALSE
  HasSetup = TRUE
  AutoStart = TRUE
  None = None
  Operations = {"create", "clear", "retry", "unregister"}
PROPERTY ClearEnds
PROPERTY PreparingEnds
PROPERTY ClearingIsSticky
CHECK_DEADLOCK FALSE
