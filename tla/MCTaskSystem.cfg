CONSTANTS
    Callers = {c1, c2}
    MaxTasks = 2
    MaxStarts = 2
SPECIFICATION FairSpec
INVARIANTS
    TasksInv
    ProgressProtocol
    FailsOnlyOnBrokenStream
PROPERTY
    EventuallyFinished
CHECK_DEADLOCK FALSE
