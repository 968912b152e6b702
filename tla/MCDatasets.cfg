SPECIFICATION Spec
CONSTANTS
  w1 = w1
  w2 = w2
  Workers = {w1, w2}
  Root = root
  Derived = derived
  MaxSliceRecords = 2
  MaxTime = 3
  Requests <- MCRequests
INVARIANTS
  
  ChainsAreSequential
  DerivedMatchesItsInput
  CompactionKeepsRecords
  SummaryIsExact
  TransformProgresses
