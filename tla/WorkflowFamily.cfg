SPECIFICATION Spec
CONSTANTS
  Run = {u1, u2, u3}
  Request = {r1, r2}
  NoRun = NoRun
  Family = Family
  MaxFaults = 2
SYMMETRY Symmetry
INVARIANTS SubmittedOnce FailedCreationIsGone RestartAllOrNothing ClosedDeletion
PROPERTIES DeletedIsFinal InactiveStaysInactive
CHECK_DEADLOCK FALSE
