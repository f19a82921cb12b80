SPECIFICATION LdFairSpec
CONSTANTS
    q1 = q1
    q2 = q2
    p1 = p1
    l1 = l1
    Queries = {q1}
    Prompts = {p1}
    Letters = {l1}
    Long = 4
    Recent = 2
    MaxRecovery = 1
    MaxNudges = 1
    MaxCalls = 2
    MaxRounds = 1
    MaxFaults = 1
CHECK_DEADLOCK FALSE
INVARIANTS
    CallsAreAnswered
    PromptsSurvive
    GatedTurnsHideProse
PROPERTIES
    QueriesAreTaken
