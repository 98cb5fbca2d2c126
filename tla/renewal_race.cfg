CONSTANTS
    Chains = {"A"}
    Nodes = {"n1"}
    Cids = {"k"}
    Donations <- Renewal
    Faults = {}
    MaxBlock = 1
    MaxCopies = 1
    MaxCrashes = 0
SPECIFICATION Spec
INVARIANTS RecordedIsPinned
