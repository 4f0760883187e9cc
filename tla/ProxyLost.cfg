SPECIFICATION PSpec
CONSTANTS
    a = a
    b = b
    api = api
    direct = direct
    p1 = p1
    p2 = p2
    Caller = {a, b}
    NoCaller = NoCaller
    Replacer = {a, b}
    Proxy = {direct, p1, p2}
    NoProxy = NoProxy
    MaxSpawns = 4
    Attempts = 1
    StopPolls = 1
    MaxFaults = 0
    MaxCalls = 0
INVARIANTS
    AnsweredSettingPersists
CHECK_DEADLOCK FALSE
