SPECIFICATION FairSpec
CONSTANTS
  x = x
  k1 = k1
  k2 = k2
  k3 = k3
  Chans = {x}
  Socks = {k1, k2, k3}
  Reconnect = TRUE
  MaxCalls = 2
  MaxSent = 1
  MaxBreaks = 1
INVARIANT TypeOK
INVARIANT AuthenticatedWhenFree
INVARIANT ListensSubscribed
PROPERTY RunReconnects
CHECK_DEADLOCK FALSE
