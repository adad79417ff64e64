CONSTANTS
  MaxHandle   = 2
  MaxNode     = 2
  Cancel      = {c1}
  Kinds       = {"op"}
  ReuseCancel = FALSE
  HotRestart  = TRUE
  None        = None
SPECIFICATION FairSpec
PROPERTY CallAlwaysCalled
CHECK_DEADLOCK FALSE
