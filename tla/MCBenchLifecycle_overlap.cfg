SPECIFICATION Spec
CONSTANTS
  Projects = {p1}
  MaxBenches = 1
  MaxGlobal = 1
  Ids = {b1, b2}
  Calls = {c1, c2}
  PullLatest = TRUE
  MetaRepo = TRUE
  HasSetup = TRUE
  AutoStart = TRUE
  None = None
  Operations = {"create", "clear", "retry", "unregister", "start"}
SYMMETRY Symmetry
VIEW Reachable
INVARIANT NoOrphanWorktree
INVARIANT RemovalIsExclusive
INVARIANT UsableHasWorktree
INVARIANT RoundIsFindable
INVARIANT UnregisterDropsBenches
INVARIANT NoPhantomRecord
INVARIANT SavedSetupIsLive
CHECK_DEADLOCK FALSE
