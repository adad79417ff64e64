\* Any operations, and a new node while aborts of the old one are queued.
SPECIFICATION FairSpec
CONSTANTS
  MaxHandle   = 2
  MaxNode     = 2
  Cancel      = {c1, c2}
  Kinds       = {"op", "resolve"}
  ReuseCancel = FALSE
  HotRestart  = TRUE
  None        = None
INVARIANTS
  TypeOK
  NoDangling
  HeardOnce
  CancellerArmed
  NoLatePost
  CancelIsPrecise
  IInv
PROPERTIES
  ImplementsAsyncOpSafety
  FreedIsReleased
\* A resolve that is never answered keeps run() waiting.
CHECK_DEADLOCK FALSE
