SPECIFICATION MCSpec
CONSTANTS
    s1 = s1
    s2 = s2
    s3 = s3
    m1 = m1
    m2 = m2
    Methods = {m1, m2}
    Steps = {s1, s2, s3}
    Plans <- MCPlans
    l1 = l1
    l2 = l2
    k1 = k1
    NoKey = NoKey
    Leads = {l1, l2}
    Keys = {k1, NoKey}
    MaxScopes = 3
    MaxRows = 2
    MaxExits = 1
    MaxRaises = 1
    mate1 = mate1
    NoThread = NoThread
    Mates = {mate1}
    MaxRuns = 3
    MaxCalls = 2
    MaxLost = 1
    MaxTries = 3
    Overloads = 2
    MaxRequests = 3
SYMMETRY MCSymmetry
CHECK_DEADLOCK FALSE
INVARIANTS
    ReviewedWorkIsFinished
    ProvingCanProgress
    ProblemsStayApart
    ScopesFollowLeads
    LegacyIsKept
    CallersAreRecorded
    RecordsAgree
    FallbackIsEarned
PROPERTIES
    GateSpec
