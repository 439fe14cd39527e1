SPECIFICATION FairSpec
INVARIANT BusyIsHandled
INVARIANT PreparingIsStarted
CONSTANTS
  db = db
  web = web
  g1 = g1
  g2 = g2
  Projects = {p1}
  Numbers = {1}
  Names = {db}
  Plugins = {g1}
  Configs <- EachKind
  Workers = {w1, w2}
  MaxFaults = 0
  MaxPolls = 1
  Overlap = TRUE
  None = None
PROPERTY BusySettles
PROPERTY PreparingEnds
PROPERTY PollCatchesUp
CHECK_DEADLOCK FALSE
