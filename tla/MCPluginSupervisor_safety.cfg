SPECIFICATION Spec
CONSTANTS
  Calls = {c1, c2, c3}
  None = None
  Budget = 2
  Overlap = FALSE
  InBackoff = TRUE
  MaxMissed = 1
SYMMETRY Symmetry
INVARIANT TypeOK
INVARIANT OneOwner
INVARIANT OffIsOff
INVARIANT EnabledRuns
INVARIANT OneRecovery
INVARIANT RestartsAreBounded
PROPERTY RecoveryIsSupervised
CHECK_DEADLOCK FALSE
