SPECIFICATION Spec
CONSTANTS
  c1 = c1
  c2 = c2
  c3 = c3
  alice = alice
  bob = bob
  x = x
  y = y
  None = None
  Conns = {c1, c2, c3}
  Idents = {alice}
  Chans = {x}
  AsyncIdents = {}
  Answers <- AllRights
  ClientStates <- Peers
  FirstStates <- NewPeer
  Sends <- RepeatSends
  Budget = 3
  MaxChunk = 2
  InitialHigh = 1
  AuthHigh = 1
  Kernel = {"sent"}
SYMMETRY Symmetry
PROPERTY PublishReachesAll
CHECK_DEADLOCK FALSE
