SPECIFICATION FairSpec
CONSTANTS
    r1 = r1
    r2 = r2
    Request = {r1, r2}
    MaxLines = 1
    MaxChanges = 1
INVARIANTS
    TypeOK
    AccountedOnce
    TruthfulStatus
    Released
PROPERTIES
    RevokedKeyLetsNobodyIn
    StreamsClose
CHECK_DEADLOCK FALSE
