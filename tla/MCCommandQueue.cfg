SPECIFICATION FairSpec
CONSTANTS
    Client = {c1, c2}
    Capacity = 2
    MaxOps = 3
CHECK_DEADLOCK FALSE
INVARIANTS
    PermitsConserved
    WaitLeavesAtMostOne
PROPERTIES
    ImplementsMailbox
    OperationsComplete
    AcceptedIsHandled
