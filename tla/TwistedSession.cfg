SPECIFICATION FairSpec
CONSTANTS
  x = x
  y = y
  Chans = {x, y}
  MaxConns = 2
  MaxCalls = 3
  MaxSent = 2
  MaxReaders = 1
INVARIANT AsksProperly
PROPERTY ImplementsSession
PROPERTY Maintains
CHECK_DEADLOCK FALSE
