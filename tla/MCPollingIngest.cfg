SPECIFICATION FairSpec
CONSTANTS
  Workers = {w1, w2}
  Forcing = {w1}
  Sources <- MCSources
  Histories <- MCHistories
  MaxFaults = 1
INVARIANTS
  
  SnapshotReflectsState
  LedgerReplays
PROPERTIES
  IngestCatchesUp
