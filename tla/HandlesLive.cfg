\* A new node only after everything on the old one was heard of.
SPECIFICATION FairSpec
CONSTANTS
  MaxHandle   = 3
  MaxNode     = 2
  Cancel      = {c1}
  Kinds       = {"op"}
  ReuseCancel = FALSE
  HotRestart  = FALSE
  None        = None
INVARIANTS
  CancelReachesGo
  RegistryExact
PROPERTIES
  FreeTerminates
  ImplementsAsyncOp
