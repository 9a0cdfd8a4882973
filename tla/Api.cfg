CONSTANTS
  c1 = c1  c2 = c2  w1 = w1  w2 = w2  Bare = Bare  NoKey = NoKey
  Client = {c1, c2}
  Run = {w1, w2}
  Workspace <- MCWorkspace
  Tab = {c1, c2}
  Subject = {u1, u2}
  Nobody = Nobody
  MaxLogin = 2
  MaxSid = 2
  a1 = a1  a2 = a2  u1 = u1  u2 = u2  cpu = cpu  disk = disk  tape = tape
  Admin = {a1, a2}
  Uploader = {c1, c2}
  User = {u1, u2}
  Absentee = Absentee
  Resource = {cpu, disk, tape}
  Type <- MCType
  DefaultLimit <- MCDefault
  None = None
  Unset = Unset
  MaxUsed = 3
  MaxFiles = 2
  MaxDirectories = 1
  MaxDepth = 2
  MaxBytes = 3
  Name <- MCName
  SpecFile <- MCSpecFile
  ArchivePath <- MCArchivePath
  MaxEntries = 4
  NoBackend = NoBackend
  DefaultMemory = 12
  UserMemory = 12
SPECIFICATION ApiSpec
ACTION_CONSTRAINT Paired
CHECK_DEADLOCK FALSE
INVARIANTS
  AnswersHonest
  SignInHonest
  MutationsExclusive
  LoginSound
  SpecificationsSound
PROPERTY
  QuotaChangesWhole
