CONSTANTS
  t1 = t1  t2 = t2  k1 = k1  k2 = k2  k3 = k3
  q1 = q1  q2 = q2
  alice = alice  bob = bob  carol = carol  dave = dave
  Thread = {t1, t2}
  Kid = {k1, k2, k3}
  NoKid = NoKid
  TTL = 1
  StaleGrace = 1
  Interval = 1
  UnknownTTL = 1
  MaxUnknown = 1
  WaitTimeout = 1
  MaxTime = 3
  Caller = {t1, t2}
  Document <- MCDocument
  NoDocument = NoDocument
  NoURL = NoURL
  Explicit <- MCExplicit
  Backchannel = "http"
  DocTTL = 1
  DocGrace = 1
  FailureTTL = 1
  DocWait = 1
  MaxClock = 4
  Request = {q1, q2}
  Email = {carol, dave}
  Identity = {alice, bob}
  NoOne = NoOne
  Issuer <- MCIssuer
  Domain <- MCDomain
  Asserted <- MCAsserted
  LinkingEnabled = TRUE
  AssumeVerified = {"attested"}
  IssuerAllowlist = {}
  DomainAllowlist = {"allowed"}
  Lifetime = 1
  MaxSecret = 2
  LastDay = 3
SPECIFICATION IdentitySpec
CHECK_DEADLOCK FALSE
INVARIANTS
  IdentityTypeOK
  SingleFlight
  StaleWithinGrace
  PermanentWins
  ForcedRefreshIsReal
  DiscoverySound
  SignedInAsOwner
  WebhookSecrets
PROPERTY
  LinkMovesOnlyInRace
SYMMETRY Symmetry
