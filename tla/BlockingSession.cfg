SPECIFICATION FairSpec
CONSTANTS
  u1 = u1
  u2 = u2
  Users = {u1, u2}
  Capacity = 2
  MaxConns = 2
  MaxCalls = 2
  MaxSent = 2
  OddAfter = {0}
INVARIANT GetFindsItem
INVARIANT WireInOrder
INVARIANT ReadInOrder
PROPERTY Flushed
CHECK_DEADLOCK FALSE
