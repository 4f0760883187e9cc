SPECIFICATION FairSpec
CONSTANTS
    q1 = q1
    q2 = q2
    Call = {q1, q2}
    Ttl = 2
    MinInterval = 2
    Interval = 2
    MaxTime = 5
INVARIANTS
    TypeOK
    ProbesAreSpaced
PROPERTIES
    MaintainedUntilStopped
CHECK_DEADLOCK FALSE
