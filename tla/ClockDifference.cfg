CONSTANTS
  a = a
  b = b
  s1 = s1
  s2 = s2
  g1 = g1
  g2 = g2
  AuthKeys = {a, b}
  PublisherKeys = {}
  Digests = {g1, g2}
  NoDigest = NoDigest
  MaxEntries = 2
  MaxCounter = 2
  MaxBytes = 1
  EncodedLen <- NoLength
  Grant <- Granted
  Certificate <- Certified
  MaxClockSkew = 2
  GrantLifetime = 7
  CertificateLifetime = 6
  LocatorLifetime = 4
  HandshakeLifetime = 4
  CurrentnessLifetime = 3
  HelloLifetime = 3
  RecordLifetime = 3
  MaxActive = 2
  Nothing = Nothing
  Sessions = {s1, s2}
  Initiator <- GlareInitiator
  Responder <- GlareResponder
  Scenarios <- ClocksDiffer
SPECIFICATION FairSpec
PROPERTIES
  ClocksMayDiffer
CHECK_DEADLOCK FALSE
