CONSTANTS
  Clients = {c1}
  Names <- MCNames
  ValidNames <- MCValidNames
  Contents <- MCContents
  SizeOf <- MCSizeOf
  ReadAs <- MCReadAs
  DATA_BUF_LEN = 1
  f = f
  g = g
  dotdot = dotdot
  note = note
  memo = memo
  image = image
  Absent = Absent
  Damaged = Damaged
  Partial = Partial
  TcpPort = 1
  LastPort = 1
  MaxCommands = 1
  MaxLost = 0
  MayCrash = FALSE
  MayDrop = FALSE
  LateAnswers = FALSE
SPECIFICATION Spec
INVARIANT CommandsAreTyped
CHECK_DEADLOCK FALSE
