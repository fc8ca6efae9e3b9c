\* The smallest window that lets one packet be outstanding beside another.
CONSTANTS
  WINDOWSIZE  = 2
  MAXBUFSIZE  = 2
  NSimMax     = 2
  MaxInFlight = 2
SPECIFICATION Spec
INVARIANT TimerForBase
CHECK_DEADLOCK FALSE
