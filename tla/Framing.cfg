SPECIFICATION Spec
CONSTANTS
  MAXBUF = 7
  MAXAUTH = 4
  MaxMessages = 3
  Messages <- Msgs
INVARIANT ReadBack
INVARIANT RefusedForCause
INVARIANT NothingHeldBack
CHECK_DEADLOCK FALSE
