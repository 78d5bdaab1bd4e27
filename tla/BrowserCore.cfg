CONSTANTS
  r1 = r1
  Conns = {o1, o2, i1}
  Inbound = {i1}
  Remotes = {r1}
  RemoteOf <- OneRemote
  MaxPeers = 2
  MaxPending = 1
  MaxPendingPerIdentity = 1
  MaxEpoch = 3
SPECIFICATION Spec
INVARIANTS
  NothingOutlivesItsEndpoint
  DialingIsExact
  OfflineIsRetracted
  EndpointsAreOwned
  ConnectionsAreOwned
CHECK_DEADLOCK FALSE
