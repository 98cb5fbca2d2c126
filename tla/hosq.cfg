CONSTANTS
    Tasks <- TheListener
    Logs <- TwoProviders
    ProviderId <- TheProvider
    ChainId = "chain"
    StartBlock = 0
    BatchSize = 2
    SkipOld = FALSE
    TwoTo64 = 32
    PageSize = 1
    MaxHead = 2
    MaxCrashes = 1
    Nodes = {"n1"}
    Faults = {"refused", "answer_lost"}
    MaxCopies = 1
SPECIFICATION HosqFairSpec
INVARIANTS AnswersTrue
PROPERTIES PinningSpec PromiseSpec NodesAsPaid EventuallyServed EventuallyReleased
CHECK_DEADLOCK FALSE
