SPECIFICATION Spec
CONSTANTS
  Remotes <- MCRemotes
  NameOf <- MCNameOf
  Workspaces <- MCWorkspaces
  Requests <- MCRequests
  Options <- MCOptions
  MaxVersion = 1
  MaxPulls = 2
INVARIANTS
  PullInv
  InputsPulledFirst
  
CHECK_DEADLOCK FALSE
