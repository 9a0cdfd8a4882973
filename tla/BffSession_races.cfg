CONSTANTS
  r1 = r1  r2 = r2  s1 = s1  s2 = s2  alice = alice  bob = bob
  NoOne = NoOne
  Request = {r1, r2}
  Sid = {s1}
  Identity = {alice}
  Owner <- SingleOwner
  SessionTTL = 2
  PollRounds = 1
  MaxTime = 2
  MaxToken = 2
  MaxFaults = 1
SYMMETRY Symmetry
SPECIFICATION Spec
CHECK_DEADLOCK FALSE
INVARIANTS
  NoResurrection
  AbsoluteCap
  HolderOwnsLock
  ReuseOnlyAfterFault
  TerminalMeansGone
