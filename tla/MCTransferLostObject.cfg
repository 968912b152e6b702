SPECIFICATION Spec
CONSTANTS
  Sessions <- MCSessions
  MaxRunning = 1
  MaxId = 4
  MaxFaults = 1
INVARIANT PushedDataIsThere
