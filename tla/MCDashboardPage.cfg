SPECIFICATION Spec
CONSTANTS
    a1 = a1
    a2 = a2
    b1 = b1
    b2 = b2
    p1 = p1
    c1 = c1
    k1 = k1
    i1 = i1
    i2 = i2
    Password = {a1, a2}
    Session = {b1, b2}
    Challenge = {c1}
    Page = {p1}
    Key = {k1}
    Slot = {i1, i2}
    MaxDirect = 1
    MaxSessions = 1
    MaxChallenges = 1
SYMMETRY MCSymmetry
INVARIANTS
    TypeOK
    SessionsKnowThePassword
    KeysAreTracked
    LeavingForgets
PROPERTIES
    RefinesPasswordRecovery
CHECK_DEADLOCK FALSE
