SPECIFICATION FairSpec
CONSTANTS
    Timeouts = {0, 2, 4, 62}
    RequestTimeouts = {99, 1, 60}
    NotGiven = 99
    DefaultRequest = 2
    Slack = 3
    Late = 1
    HalfWord = 32
    Horizon = 12
    IntBits = 4
    ShortBits = 3
    PyValues <- MCPyValues
    MmsValues <- MCMmsValues
    Calls = {c1, c2}
    Plans <- MCPlans
    Objects = {"a", "b"}
    Initial <- MCInitial
    Members <- MCMembers
CHECK_DEADLOCK FALSE
INVARIANTS TypeOK BackstopIsLast TimeoutIsTrue TheAnswerIsReported WrittenReadsBack EffectsAccounted
PROPERTY EveryCallEnds
