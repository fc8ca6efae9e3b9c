\* A lossy channel; one message more than window and buffer can take, so that
\* the exit of a full buffer is reached too.
CONSTANTS
  WINDOWSIZE  = 3
  MAXBUFSIZE  = 3
  NSimMax     = 6
  MaxInFlight = 3
  FaultBound  = 2
SPECIFICATION FairSpec
INVARIANTS TypeOK InOrder WindowBound RingHoldsWindow OneTimerEach AckedIsHeld BufferedOnlyWhenFull ArrivalsInWindow
PROPERTIES ImplementsTransfer RecoversFromOne
CHECK_DEADLOCK FALSE
