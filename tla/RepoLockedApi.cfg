\* Under config.lock the API follows the caller.
SPECIFICATION Spec
CONSTANTS
  Proc = {p1}
  Requests <- MCRequests
  BadBases = {"bad"}
  MaxStart = 2
INVARIANT LockedConfigIsRead
