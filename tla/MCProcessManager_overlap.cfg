SPECIFICATION FairSpec
CONSTANTS
  Ids = {web}
  StartIds = {web}
  RunIds = {web}
  Calls = {c1, c2}
  Serial = FALSE
  None = None
  LogOnly = LogOnly
INVARIANT SettledIsOver
PROPERTY DropsNoLive
PROPERTY CallsSettle
CHECK_DEADLOCK FALSE
