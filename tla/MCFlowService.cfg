CONSTANTS
    Keys = {"root", "derived"}
    RuleOf <- CronPairRules
    Downstream <- PairGraph
    Period = 2
    Throttling = 1
    BatchingInterval = 2
    Step = 1
    Requests = {"trigger", "cancel", "delete"}
    MaxDelay = 0
    MaxRequests = 2
    MaxFlows = 3
    MaxTasks = 3
    MaxTime = 4
SPECIFICATION Spec
INVARIANTS
    
    NoStuckFlow
    ScheduleStaysAlive
    
PROPERTIES
    ThrottlingRespected
CHECK_DEADLOCK FALSE
