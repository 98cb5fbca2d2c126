CONSTANTS
    Tasks <- TwoTopics
    Logs <- TwoTopicsLogs
    ChainId = "chain"
    StartBlock = 1
    BatchSize = 2
    SkipOld = FALSE
    TwoTo64 = 32
    Gwei = 2
    PageSize = 1
    MaxHead = 4
    MaxCrashes = 0
SPECIFICATION Spec
INVARIANTS UpdatesIndexed
CHECK_DEADLOCK FALSE
