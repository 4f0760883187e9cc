SPECIFICATION Spec
CONSTANTS
    r1 = r1
    r2 = r2
    Request = {r1}
    MaxLines = 1
    MaxChanges = 0
INVARIANTS
    ClosedBeforeFirstEvent
CHECK_DEADLOCK FALSE
