SPECIFICATION MCFairSpec
CONSTANTS
    j1 = j1
    p1 = p1
    p2 = p2
    Jobs = {j1}
    Runners = {p1, p2}
    NoRunner = NoRunner
    MaxAttempts <- MCMaxAttempts
    MaxCrashes = 2
    MaxFaults = 1
    Chunk = 2
    Capacity = 2
    Limit = 1
    Width = 2
    MaxWritten = 5
CHECK_DEADLOCK FALSE
PROPERTIES
    WallTimeIsBounded
