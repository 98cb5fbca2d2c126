CONSTANTS
    Tasks <- RegistryTopics
    Logs <- RegistryLogs
    ChainId = "chain"
    StartBlock = 1
    BatchSize = 2
    SkipOld = FALSE
    TwoTo64 = 32
    Gwei = 2
    PageSize = 1
    MaxHead = 3
    MaxCrashes = 1
SPECIFICATION Spec
INVARIANTS TypeOK StampedByWriter RegistryAccounted RegisteredAreFound
PROPERTIES NeverBackdated
CHECK_DEADLOCK FALSE
