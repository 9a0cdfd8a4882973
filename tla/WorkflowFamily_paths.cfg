SPECIFICATION Spec
CONSTANTS
  Run = {u1, u2, u3}
  Request = {r1, r2}
  NoRun = NoRun
  Family = Family
  MaxFaults = 0
SYMMETRY Symmetry
INVARIANT ResolvesEveryWorkspace
CHECK_DEADLOCK FALSE
