CONSTANTS
    Tasks <- OneListener
    Logs <- OneListenerLogs
    ProviderId <- OneProvider
    ChainId = "chain"
    StartBlock = 1
    BatchSize = 2
    SkipOld = FALSE
    TwoTo64 = 32
    MaxHead = 5
    MaxCrashes = 2
SPECIFICATION FairSpec
INVARIANTS TypeOK Sound ScannedAccounted Gapless
PROPERTIES IndexSpec EventuallySettled
CHECK_DEADLOCK FALSE
