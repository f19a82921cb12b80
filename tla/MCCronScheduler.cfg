SPECIFICATION CronSpec
CONSTANTS
    once = once
    often = often
    p1 = p1
    p2 = p2
    Schedules = {once, often}
    Recurring = {often}
    Durable = {once}
    Legacy = {once}
    Matches <- MCMatches
    LastMinute = 3
    Procs = {p1}
    NoProc = NoProc
    MaxCrashes = 1
    MaxFaults = 1
CHECK_DEADLOCK FALSE
INVARIANTS
    OneShotFiresOnce
    EndedStaysQuiet
