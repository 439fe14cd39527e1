SPECIFICATION Spec
CONSTANTS
  Projects = {p1}
  MaxBenches = 1
  MaxGlobal = 1
  Ids = {b1, b2}
  Calls = {c1, c2}
  PullLatest = FALSE
  MetaRepo = FALSE
  HasSetup = TRUE
  AutoStart = FALSE
  None = None
  Operations = {"create", "clear"}
SYMMETRY Symmetry
VIEW Reachable
INVARIANT RecordIsCurrent
CHECK_DEADLOCK FALSE
