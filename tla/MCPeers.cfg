SPECIFICATION MCFairSpec
CONSTANTS
    r1 = r1
    r2 = r2
    Requests = {r1, r2}
    NoRequest = NoRequest
    MaxUnread = 2
    MaxCrashes = 1
    MaxFaults = 1
    w1 = w1
    w2 = w2
    Workers = {w1, w2}
    NoWorker = NoWorker
    MaxCalls = 2
    Attempts = 2
    MaxOrphans = 1
CHECK_DEADLOCK FALSE
INVARIANTS
    GateHolds
    ShutdownsAreReal
    OneSession
    RefusedIsUnsent
PROPERTIES
    DecidedPlansResume
    ShutdownRequestsStop
    NeverReplayed
    EffectsInOrder
    CallsEnd
