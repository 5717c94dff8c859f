SPECIFICATION FairSpec
CONSTANTS
  c1 = c1
  c2 = c2
  c3 = c3
  alice = alice
  bob = bob
  x = x
  y = y
  None = None
  Conns = {c1, c2}
  Idents = {alice, bob}
  Chans = {x}
  AsyncIdents = {bob}
  Answers <- AllRights
  ClientStates <- Peers
  FirstStates <- NewPeer
  Sends <- ProperSends
  Budget = 3
  MaxChunk = 3
  InitialHigh = 1
  AuthHigh = 1
  Kernel = {"sent", "queued"}
INVARIANT GaugeIsExact
PROPERTY HandlersKeepConnection
PROPERTY BackpressureResolves
PROPERTY InputHandled
CHECK_DEADLOCK FALSE
