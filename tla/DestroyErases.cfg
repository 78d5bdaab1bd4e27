CONSTANTS
  t1 = t1
  t2 = t2
  alice = alice
  g1 = g1
  g2 = g2
  x1 = x1
  x2 = x2
  f1 = f1
  d1 = d1
  nothing = nothing
  Tabs = {t1}
  Accounts = {alice}
  GrantKeys = {g1, g2}
  PublisherKeys = {x1, x2}
  AuthKeys = {f1}
  Digests = {d1}
  NoDigest = nothing
  Nothing = nothing
  AccountOf <- OneAccount
  EncodedLen <- MCEncodedLen
  MaxEntries = 3
  MaxBytes = 3
  MaxCounter = 1
  MaxIdentities = 1
  MaxGenerated = 2
  Calls <- SignInAgain
  MaxEpoch = 2
SPECIFICATION Spec
CHECK_DEADLOCK FALSE
PROPERTIES
  ErasedOnlyByRemoval
