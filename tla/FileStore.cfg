CONSTANTS
  a1 = a1
  p1 = p1
  d1 = d1
  d2 = d2
  c1 = c1
  c2 = c2
  c3 = c3
  i1 = i1
  i2 = i2
  AuthKeys = {a1}
  PublisherKeys = {p1}
  Digests = {d1, d2}
  NoDigest = NoDigest
  MaxEntries = 1
  MaxCounter = 2
  MaxBytes = 1
  EncodedLen <- MCEncodedLen
  Callers = {c1, c2, c3}
  Instances = {i1, i2}
  InstanceOf <- MCInstanceOf
  Requests <- MCRequests
  Nobody = Nobody
  NoOp = NoOp
  Corrupt = Corrupt
SPECIFICATION FairSpec
INVARIANTS
  DiskHoldsAcknowledged
  NoLostUpdate
PROPERTIES
  ImplementsPromise
  LockIsReleased
