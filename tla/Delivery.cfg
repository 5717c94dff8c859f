SPECIFICATION Spec
CONSTANTS
  c1 = c1
  c2 = c2
  c3 = c3
  alice = alice
  bob = bob
  x = x
  y = y
  None = None
  Conns = {c1, c2}
  Idents = {alice, bob}
  Chans = {x}
  AsyncIdents = {bob}
  Answers <- Changes
  ClientStates <- Peers
  FirstStates <- NewPeer
  Sends <- OnceSends
  Budget = 3
  MaxChunk = 2
  InitialHigh = 1
  AuthHigh = 1
  Kernel = {"sent", "failed"}
SYMMETRY Symmetry
INVARIANT NoStaleSubscriber
INVARIANT InputNotStranded
PROPERTY ImplementsPubSub
CHECK_DEADLOCK FALSE
