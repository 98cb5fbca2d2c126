CONSTANTS
    Chains = {"A"}
    Nodes = {"n1"}
    Cids = {"k", "j"}
    Donations <- RenewedEarly
    Faults = {}
    MaxBlock = 1
    MaxCopies = 1
    MaxCrashes = 0
SPECIFICATION FairSpec
PROPERTIES EventuallyRecorded
