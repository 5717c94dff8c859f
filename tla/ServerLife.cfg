SPECIFICATION FairSpec
CONSTANTS
  c1 = c1
  c2 = c2
  u = u
  v = v
  w = w
  Stack <- TheStack
  Endpoints <- TheEndpoints
  Clients = {c1, c2}
  Users = {u, v, w}
  Knows <- TheUsers
  WaitsForConnections = TRUE
  MaxCancels = 2
INVARIANT TypeOK
INVARIANT Released
 
PROPERTY Stops
CHECK_DEADLOCK FALSE
