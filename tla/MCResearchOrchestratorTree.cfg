SPECIFICATION OrchSpec
CONSTANTS
    s1 = s1
    s2 = s2
    w1 = w1
    m1 = m1
    m2 = m2
    t1 = t1
    t2 = t2
    t3 = t3
    t4 = t4
    t5 = t5
    Methods = {m1, m2}
    Steps = {s1, s2}
    Plans <- MCPlans
    Tasks = {t1, t2, t3}
    Provers = {w1}
    NoOwner = NoOwner
    NoTask = NoTask
    NoMethod = NoMethod
    MaxCrashes = 2
    MaxFaults = 1
SYMMETRY Symmetry
CHECK_DEADLOCK FALSE
PROPERTIES
    ActivatedTasksHaveWorktree
