CONSTANTS
  r1 = r1  r2 = r2  s1 = s1  s2 = s2  alice = alice  bob = bob
  NoOne = NoOne
  Request = {r1, r2}
  Sid = {s1, s2}
  Identity = {alice, bob}
  Owner <- OneOwner
  SessionTTL = 1
  PollRounds = 1
  MaxTime = 0
  MaxToken = 1
  MaxFaults = 1
SPECIFICATION FairSpec
ACTION_CONSTRAINT Focus
CHECK_DEADLOCK FALSE
INVARIANTS
  OwnIdentityOnly
PROPERTIES
  MismatchLeavesSession
  RequestAnswered
