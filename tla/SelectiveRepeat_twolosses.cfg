\* One message more than the window takes; the channel may fail often enough for
\* one packet's ACK to be lost twice, and the timers go off all the same.
CONSTANTS
  WINDOWSIZE  = 2
  MAXBUFSIZE  = 2
  NSimMax     = 3
  MaxInFlight = 3
  FaultBound  = 3
SPECIFICATION PromptSpec
PROPERTY RecoversFromTwo
CHECK_DEADLOCK FALSE
