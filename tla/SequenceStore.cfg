CONSTANTS
  a1 = a1
  a2 = a2
  p1 = p1
  d1 = d1
  d2 = d2
  AuthKeys = {a1, a2}
  PublisherKeys = {p1}
  Digests = {d1, d2}
  NoDigest = NoDigest
  MaxEntries = 2
  MaxCounter = 2
  MaxBytes = 7
  EncodedLen <- MCEncodedLen
SPECIFICATION Spec
SYMMETRY Symmetry
INVARIANTS
  TypeOK
  NothingAcknowledgedIsLost
  NoEquivocation
  StateStaysReadable
PROPERTIES
  AllocationsIncrease
  AcceptedNeverRollsBack
