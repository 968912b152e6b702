CONSTANTS
    Keys = {"root"}
    RuleOf <- RootRule
    Downstream <- RootOnly
    Period = 2
    Throttling = 1
    BatchingInterval = 2
    Step = 1
    Requests = {"delete"}
    MaxDelay = 0
    MaxRequests = 1
    MaxFlows = 3
    MaxTasks = 3
    MaxTime = 4
SPECIFICATION Spec
INVARIANTS
    DeletionIsSafe
CHECK_DEADLOCK FALSE
