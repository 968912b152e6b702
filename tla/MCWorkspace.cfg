SPECIFICATION Spec
CONSTANTS
  Tenancies = {FALSE, TRUE}
  Initial <- MCInitial
  Workers = {w1, w2}
  Requests <- MCRequests
  MaxOps = 3
  MaxFaults = 1
SYMMETRY Symmetric
INVARIANTS
  
  SearchesAreExact

  
CHECK_DEADLOCK FALSE
