SPECIFICATION FairSpec
CONSTANTS
  Sessions <- MCSessions
  MaxRunning = 2
  MaxId = 5
  MaxFaults = 1
INVARIANTS
  TransferInv
  
  ComparatorIsExact
PROPERTIES
  SyncReachesSource
