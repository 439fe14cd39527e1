SPECIFICATION Spec
CONSTANTS
  db = db
  web = web
  g1 = g1
  g2 = g2
  Projects = {p1}
  Numbers = {1}
  Names = {db, web}
  Plugins = {g1}
  Configs <- SamePlugin
  Workers = {w1, w2}
  MaxFaults = 1
  MaxPolls = 1
  Overlap = FALSE
  None = None
SYMMETRY Alike
CONSTRAINT Bounded
INVARIANT TypeOK
INVARIANT StoppedIsDown
INVARIANT RunsRecorded
INVARIANT CrashedIsDown
CHECK_DEADLOCK FALSE
