SPECIFICATION Spec
CONSTANTS
  w1 = w1
  w2 = w2
  c1 = c1
  A = A
  B = B
  kA = kA
  kB = kB
  none = none
  NoValue = none
  Writers <- MCWriters
  Clients <- MCClients
  Urls <- MCUrls
  Keys <- MCKeys
  IssuedBy <- MCIssuedBy
  Models = {1, 2}
  InitialRoots <- MCInitialRoots
  Seeds = {1}
  Forms <- MCForms
  NormalUrl <- MCNormalUrl
  EnvUrl = none
  Project <- MCProject
  DefaultUrl = A
  Private <- MCPrivate
  Versions = {1}
  Commits = {1, 2}
  MaxChanges = 2
  MaxCommands = 2
CHECK_DEADLOCK FALSE
INVARIANTS
  KeysWereGranted
  KeyGoesHome
  PublishedWasReady
  
PROPERTIES
  FreshWriteKeepsTheRest
  CommandsEnd
