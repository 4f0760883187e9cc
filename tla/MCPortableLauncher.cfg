SPECIFICATION FairSpec
CONSTANTS
    l1 = l1
    l2 = l2
    Launcher = {l1, l2}
    Attempts = 2
    MaxFaults = 2
INVARIANTS
    TypeOK
    ServesPreparedState
    StopsItsTree
    ChildrenStay
PROPERTIES
    OnlyOwnRequestEnds
    RequestEndsRun
CHECK_DEADLOCK FALSE
