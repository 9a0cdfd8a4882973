CONSTANTS
  t1 = t1  t2 = t2  k1 = k1  k2 = k2  k3 = k3
  Thread = {t1, t2}
  Kid = {k1, k2}
  NoKid = NoKid
  TTL = 1
  StaleGrace = 1
  Interval = 2
  UnknownTTL = 2
  MaxUnknown = 1
  WaitTimeout = 1
  MaxTime = 3
SYMMETRY Symmetry
SPECIFICATION Spec
CHECK_DEADLOCK FALSE
INVARIANT OneGeneration
