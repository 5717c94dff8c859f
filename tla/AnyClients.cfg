SPECIFICATION Spec
CONSTANTS
  c1 = c1
  c2 = c2
  c3 = c3
  alice = alice
  bob = bob
  x = x
  y = y
  None = None
  Conns = {c1, c2}
  Idents = {bob}
  Chans = {x}
  AsyncIdents = {bob}
  Answers <- Changes
  ClientStates <- Peers
  FirstStates <- NewPeer
  Sends <- AnySends
  Budget = 3
  MaxChunk = 2
  InitialHigh = 1
  AuthHigh = 1
  Kernel = {"sent", "queued", "failed"}
SYMMETRY Symmetry
INVARIANT TypeOK
INVARIANT ConnectionCount
INVARIANT AttachedExactly
INVARIANT OpenListedWasGranted
INVARIANT DeadlineGuardsBackpressure
PROPERTY DeliveryAuthorised
CHECK_DEADLOCK FALSE
