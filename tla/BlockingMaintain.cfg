SPECIFICATION FairSpec
CONSTANTS
  u1 = u1
  u2 = u2
  Users = {u1, u2}
  Capacity = 2
  MaxConns = 2
  MaxCalls = 1
  MaxSent = 1
  OddAfter = {0}
PROPERTY MaintainsSession
CHECK_DEADLOCK FALSE
