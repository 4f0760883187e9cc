SPECIFICATION FairSpec
CONSTANTS
    c1 = c1
    c2 = c2
    Caller = {c1, c2}
    NoCaller = NoCaller
    MaxSpawns = 3
    Attempts = 2
    StopPolls = 1
INVARIANTS
    TypeOK
    OneChild
PROPERTIES
    AnswersForItsChild
    EveryCallReturns
