CONSTANTS
    Tasks <- OneListener
    Logs <- OneListenerLogs
    ProviderId <- OneProvider
    ChainId = "chain"
    StartBlock = 1
    BatchSize = 2
    SkipOld = FALSE
    TwoTo64 = 32
    MaxHead = 5
    MaxCrashes = 0
SPECIFICATION Spec
PROPERTIES FailedInsertsRetried
CHECK_DEADLOCK FALSE
