CONSTANTS
  w1 = w1
  w2 = w2
  f = f
  g = g
  short = short
  long = long
  Main = Main
  Hole = Hole
  NoFile = NoFile
  Workers <- MCWorkers
  Names <- MCNames
  Data <- MCData
  Blocks <- MCBlocks
  Inodes <- MCInodes
  MaxRequests = 3
SPECIFICATION FairSpec
INVARIANTS TypeOK FilesAreWhole
PROPERTY StopReturns
CHECK_DEADLOCK FALSE
