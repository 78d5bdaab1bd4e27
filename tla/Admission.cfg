CONSTANTS
  c1 = c1
  c2 = c2
  h1 = h1
  h2 = h2
  h3 = h3
  h4 = h4
  i1 = i1
  Conns = {c1, c2}
  Hellos = {h1, h2, h3, h4}
  Identities = {i1}
  IdentityOf <- OneIdentity
  ExpiresAt <- Seconds
  HandshakeLimit = 1
  QueueCapacity = 2
  MaxPendingPerIdentity = 2
  ReplayCapacity = 2
  ReplayPerIdentity = 2
  NoConn = NoConn
  Loads <- ReplaysAndQueues
  Callers = {u1}
SPECIFICATION FairSpec
INVARIANTS
  QueueConsistent
  AtMostOneAcceptedPerHello
  AcceptedIsNotTimedOut
  NoLostWakeup
PROPERTIES
  QueuedRequestsEnd
  CloseReachesCallers
CHECK_DEADLOCK FALSE
