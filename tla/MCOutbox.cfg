CONSTANTS
    Producers = {"tasks"}
    Consumers = {"flows", "configs"}
    Writers = {"w1", "w2"}
    BatchSize = 2
    CommitsInOrder = TRUE
    MaxMessages = 3
    MaxStops = 2
SPECIFICATION FairSpec
INVARIANTS
    ConsumedUpToBoundary
    InOrderWithinProcess
    
PROPERTY
    EventuallyPassed
CHECK_DEADLOCK FALSE
