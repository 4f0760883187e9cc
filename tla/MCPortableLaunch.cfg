SPECIFICATION LaunchSpec
CONSTANTS
    v1 = v1
    v2 = v2
    NoVersion = NoVersion
    good = good
    Version = {v1, v2}
    Tested = {v1, v2}
    Candidate = {good}
    Staged <- MCStaged
    MaxBackups = 2
    MaxFaults = 0
    MaxCrashes = 1
PROPERTIES
    InterruptedPairIsRecovered
CHECK_DEADLOCK FALSE
