\* A window of three, and messages enough for the buffer to be used and drained.
CONSTANTS
  WINDOWSIZE  = 3
  MAXBUFSIZE  = 3
  NSimMax     = 6
  MaxInFlight = 3
SPECIFICATION Spec
INVARIANT RingHoldsWindow
CHECK_DEADLOCK FALSE
