\* Two processes start nodes on one repository, crashing anywhere.
SPECIFICATION Spec
CONSTANTS
  Proc = {p1, p2}
  Requests <- MCRequests
  BadBases = {"bad"}
  MaxStart = 3
SYMMETRY Symmetry
INVARIANTS
  TypeOK
  RunsOwnConfig
  RunsWhatIsWritten
  HalfWrittenIsRepaired
PROPERTIES
  IdentityStable
  LockedUntouched
