SPECIFICATION Spec
CONSTANTS
  Projects = {p1}
  MaxBenches = 1
  MaxGlobal = 1
  Ids = {b1, b2}
  Calls = {c1, c2}
  PullLatest = FALSE
  MetaRepo = FALSE
  HasSetup = FALSE
  AutoStart = FALSE
  None = None
  Operations = {"create", "clear", "retry", "crash"}
SYMMETRY Symmetry
VIEW Reachable
INVARIANT TypeOK
INVARIANT RecordIsCurrent
INVARIANT UsableIsRecorded
PROPERTY ImplementsSlots
CHECK_DEADLOCK FALSE
