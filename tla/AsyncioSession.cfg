SPECIFICATION FairSpec
CONSTANTS
  x = x
  y = y
  Chans = {x, y}
  MaxConns = 2
  MaxCalls = 3
  MaxSent = 2
INVARIANT AsksProperly
PROPERTY ImplementsSession
INVARIANT ResolvedOnce
PROPERTY Maintains
PROPERTY CloseReturns
CHECK_DEADLOCK FALSE
