SPECIFICATION PSpec
CONSTANTS
    a = a
    b = b
    api = api
    direct = direct
    p1 = p1
    p2 = p2
    Caller = {a, b, api}
    NoCaller = NoCaller
    Replacer = {a, b}
    Proxy = {direct, p1}
    NoProxy = NoProxy
    MaxSpawns = 4
    Attempts = 1
    StopPolls = 1
    MaxFaults = 1
    MaxCalls = 1
INVARIANTS
    PTypeOK
    LiveChildRunsConfig
    SidecarComesBack
CHECK_DEADLOCK FALSE
