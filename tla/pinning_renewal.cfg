CONSTANTS
    Chains = {"A"}
    Nodes = {"n1"}
    Cids = {"k"}
    Donations <- Renewal
    Faults = {"refused", "answer_lost", "db"}
    MaxBlock = 1
    MaxCopies = 1
    MaxCrashes = 1
SPECIFICATION Spec
INVARIANTS TypeOK Backed OnlyExpiredUnpinned UnpinnedByAnEnd
PROPERTIES UnexpiredKept LedgerSpec
