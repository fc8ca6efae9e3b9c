CONSTANTS
  t1 = t1
  t2 = t2
  t3 = t3
  notFound = notFound
  NoThread = NoThread
  Threads <- MCThreads
  Codes <- MCCodes
  Latencies <- MCLatencies
  MAX_SAMPLES = 2
  MaxCalls = 3
SPECIFICATION FairSpec
INVARIANTS TypeOK LargestKept NothingLost PercentileIsNearestRank
PROPERTIES EveryCallReturns
CHECK_DEADLOCK FALSE
