SPECIFICATION CronFairSpec
CONSTANTS
    once = once
    often = often
    p1 = p1
    p2 = p2
    Schedules = {often}
    Recurring = {often}
    Durable = {often}
    Legacy = {}
    Matches <- MCMatches
    LastMinute = 1
    Procs = {p1, p2}
    NoProc = NoProc
    MaxCrashes = 3
    MaxFaults = 2
CHECK_DEADLOCK FALSE
INVARIANTS
    DeliveredByHolder
PROPERTIES
    FiringsAreSettled
