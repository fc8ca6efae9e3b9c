CONSTANTS
  Clients = {c1, c2}
  Names <- PairNames
  ValidNames <- PairValidNames
  Contents <- PairContents
  SizeOf <- PairSizeOf
  ReadAs <- PairReadAs
  DATA_BUF_LEN = 1
  f = f
  g = g
  dotdot = dotdot
  note = note
  memo = memo
  image = image
  Absent = Absent
  Damaged = Damaged
  Partial = Partial
  TcpPort = 1
  LastPort = 1
  MaxCommands = 3
  MaxLost = 0
  MayCrash = FALSE
  MayDrop = TRUE
  LateAnswers = TRUE
SPECIFICATION Spec
INVARIANT OnlyValidNames
SYMMETRY ClientSymmetry
CHECK_DEADLOCK FALSE
