CONSTANTS
    FlowIds = {1, 2}
    Times = {1, 2, 3}
    MaxCopies = 2
SPECIFICATION Spec
INVARIANTS
    TopIsLive
    ListedTwiceOnlyAfterCancel
PROPERTIES
    ImplementsPlan
    TakeReturnsDueFlows
CHECK_DEADLOCK FALSE
