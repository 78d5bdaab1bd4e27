CONSTANTS
  Conns = {}
  Inbound = {}
  Remotes = {}
  RemoteOf <- NoRemote
  MaxPeers = 1
  MaxPending = 1
  MaxPendingPerIdentity = 1
  MaxEpoch = 4
SPECIFICATION PackageSpec
INVARIANTS
  OnlineIsPublished
CHECK_DEADLOCK FALSE
