\* Redirects of every kind while two goroutines are logging.
SPECIFICATION FairSpec
CONSTANTS
  Goroutine = {g1, g2}
  Callbacks = {"cb", "waits", "logs", "empty"}
  Waits = {"waits"}
  Reentrant = {"logs"}
  MaxRedirect = 3
  MaxLine = 2
INVARIANTS
  TypeOK
  RedirectIsSafe
  RedirectTakesEffect
PROPERTY LoggerAnswers
\* A race, a panic and a callback that waits for the logger end it.
CHECK_DEADLOCK FALSE
