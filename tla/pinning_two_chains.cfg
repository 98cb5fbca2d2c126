CONSTANTS
    Chains = {"A", "B"}
    Nodes = {"n1"}
    Cids = {"k"}
    Donations <- TwoChainsEnd
    Faults = {"refused", "answer_lost"}
    MaxBlock = 1
    MaxCopies = 1
    MaxCrashes = 0
SPECIFICATION Spec
INVARIANTS Backed PinsOnTheBooks
PROPERTIES LastRowByUnpin LedgerSpec
