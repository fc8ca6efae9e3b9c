\* A lossy channel, a window of four and enough messages to go round the
\* ring twice and to fill the buffer to its last slot.
CONSTANTS
  WINDOWSIZE  = 4
  MAXBUFSIZE  = 4
  NSimMax     = 8
  MaxInFlight = 4
SPECIFICATION FairSpec
INVARIANTS TypeOK InOrder WindowBound BufferedOnlyWhenFull ResendReadsWritten TimerForFullWindow
PROPERTIES ImplementsTransfer EverythingDelivered
CHECK_DEADLOCK FALSE
