CONSTANTS
  a = a
  b = b
  c = c
  m1 = m1
  m2 = m2
  Devices = {a}
  Situations <- OneDevice
  PathRank <- ReverseOrder
  Rank <- Order
  Size <- OneLarger
  TotalMax = 3
  MaxDevices = 3
  MaxActive = 3
  HandshakeTimeout = 2
  NegotiationTimeout = 3
  Foreign = Foreign
  Nothing = Nothing
  Messages = {m1, m2}
  Parts <- EmptyAndLong
  Window = 2
  FinishCall = FinishCall
  CloseCall = CloseCall
  Garbage = Garbage
SPECIFICATION NearFairSpec
PROPERTIES
  CloseReturns
CHECK_DEADLOCK FALSE
