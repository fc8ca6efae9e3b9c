CONSTANTS
  Names <- MCNames
  SmallFiles <- MCSmallFiles
  LargeFiles <- MCLargeFiles
  f = f
  g = g
  ReadAs <- MCReadAs
  note = note
  eraser = eraser
  wiper = wiper
  caller = caller
  stamp = stamp
  image = image
  Absent = Absent
  Damaged = Damaged
  TCP_BASE_PORT = 1
  MaxCommands = 4
  MaxLost = 1
SPECIFICATION Spec
INVARIANTS TypeOK ReportsAreTrue AcceptIsAwaited
PROPERTIES OnlyWhatWasAsked
CHECK_DEADLOCK FALSE
