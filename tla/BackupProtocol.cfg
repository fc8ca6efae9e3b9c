CONSTANTS
  Clients = {c1}
  Names <- MCNames
  ValidNames <- MCValidNames
  Contents <- MCContents
  SizeOf <- MCSizeOf
  ReadAs <- MCReadAs
  DATA_BUF_LEN = 1
  f = f
  g = g
  dotdot = dotdot
  note = note
  memo = memo
  image = image
  Absent = Absent
  Damaged = Damaged
  Partial = Partial
  TcpPort = 1
  LastPort = 2
  MaxCommands = 3
  MaxLost = 1
  MayCrash = TRUE
  MayDrop = FALSE
  LateAnswers = FALSE
SPECIFICATION FairSpec
INVARIANTS TypeOK ReportsAreTrue RefusedLeavesDisk OthersUntouched NoStaleAnswer DatagramHoldsFile ConnectFindsListener
PROPERTIES ServerReturns
CHECK_DEADLOCK FALSE
