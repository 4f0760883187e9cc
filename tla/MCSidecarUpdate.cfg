SPECIFICATION Spec
CONSTANTS
    v1 = v1
    v2 = v2
    v3 = v3
    NoVersion = NoVersion
    good = good
    other = other
    mixed = mixed
    Version = {v1, v2, v3}
    Tested = {v1, v2}
    Candidate = {good, other, mixed}
    Staged <- MCStaged
    MaxBackups = 3
    MaxFaults = 2
    MaxCrashes = 1
INVARIANTS
    TypeOK
    Recoverable
    StartsWholePair
PROPERTIES
    CommitCanBeUndone
    UnsuccessfulLeavesPair
    RefinesAtomicPair
