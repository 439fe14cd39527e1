SPECIFICATION Spec
CONSTANTS
  Ids = {web, deploy}
  StartIds = {web}
  RunIds = {deploy}
  Calls = {c1, c2, c3}
  Serial = TRUE
  None = None
  LogOnly = LogOnly
SYMMETRY Symmetry
INVARIANT LiveIsRegistered
CHECK_DEADLOCK FALSE
