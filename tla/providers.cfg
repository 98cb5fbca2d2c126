CONSTANTS
    Listeners <- TwoListeners
    MaxEvents = 2
    MaxHead = 2
    MaxCrashes = 1
SPECIFICATION FairSpec
INVARIANTS TypeOK ShownIsLatest ReportsInOrder
PROPERTIES ClockSpec EventuallyKnown
