SPECIFICATION FairSpec
CONSTANTS
  Calls = {c1, c2}
  None = None
  Budget = 3
  Overlap = FALSE
  InBackoff = FALSE
  MaxMissed = 0
PROPERTY RequestsEnd
PROPERTY CrashIsAnswered
PROPERTY RecoveryHappens
CHECK_DEADLOCK FALSE
