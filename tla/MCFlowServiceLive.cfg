CONSTANTS
    Keys = {"root"}
    RuleOf <- RootRule
    Downstream <- RootOnly
    Period = 2
    Throttling = 1
    BatchingInterval = 2
    Step = 1
    Requests = {"trigger", "set", "pause", "resume"}
    MaxDelay = 0
    MaxRequests = 2
    MaxFlows = 4
    MaxTasks = 4
    MaxTime = 3
SPECIFICATION FairSpec
INVARIANTS
    FlowsInv
    
PROPERTIES
    ActivatedFlowFinishes
CHECK_DEADLOCK FALSE
