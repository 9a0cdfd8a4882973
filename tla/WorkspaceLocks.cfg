CONSTANTS
  p1 = p1  p2 = p2  p3 = p3  a = a  b = b
  NoOne = NoOne
  Scope = {p1, p2, p3}
  Path <- Paths
  Key = {a, b}
  AdvisoryKey <- Hash
  MaxFaults = 2
SYMMETRY Symmetry
SPECIFICATION Spec
CHECK_DEADLOCK FALSE
INVARIANTS
  TypeOK
  Exclusive
  NothingLeaks
  SomebodyWins
PROPERTY ImplementsMutex
