--------------------------- MODULE MCProviderIndex ---------------------------
(* Small instances of ProviderIndex.  Prices are in wei, two to a gwei, and    *)
(* numbers go up to 32.                                                      *)
EXTENDS ProviderIndex

Log(t, b, p, v) == [task |-> t, block |-> b, index |-> 0, pid |-> p, value |-> v]

Added(b, p, w) == Log("add", b, p, [owner |-> "o", price |-> w, url |-> "u", name |-> "n"])

\* One provider is added in block 1 and changed in the next blocks, a dearer one
\* is added in block 2, and the listener for prices dies of the last event.
RegistryTopics == {"add", "url", "price"}
RegistryLogs ==
    { Added(1, 1, 10), Log("url", 2, 1, "u2"), Added(2, 3, 20),
      Log("price", 3, 1, 14), Log("price", 3, 32, 14) }

\* Two columns change, one after the other.
TwoTopics == {"add", "url", "name"}
TwoTopicsLogs == { Added(1, 1, 10), Log("url", 2, 1, "u2"), Log("name", 3, 1, "n2") }
=============================================================================
