CONSTANTS
    Chains = {"A"}
    Nodes = {"n1", "n2"}
    Cids = {"k"}
    Donations <- SingleTerm
    Faults = {"refused"}
    MaxBlock = 1
    MaxCopies = 1
    MaxCrashes = 0
SPECIFICATION FairSpec
INVARIANTS RecordedIsPinned EveryNodeAccounted
PROPERTIES EventuallyRecorded
