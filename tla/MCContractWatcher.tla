-------------------------- MODULE MCContractWatcher --------------------------
(* Small instances of ContractWatcher.                                      *)
EXTENDS ContractWatcher

\* One listener.  Two events share block 2, one of block 3 is another provider's,
\* and with batches of two blocks some range ends amid events.  With numbers up
\* to 32 the end of the event of block 4 becomes -1, and the listener dies of
\* the last event.
OneLog(b, i, p, c, e) ==
    [task |-> "uvb", block |-> b, index |-> i, pid |-> p, donor |-> "d", cid |-> c, end |-> e]

OneListener == {"uvb"}
OneProvider == [t \in OneListener |-> 1]
OneListenerLogs ==
    { OneLog(1, 0, 1, "a", 9), OneLog(2, 0, 1, "b", 9), OneLog(2, 1, 1, "c", 9),
      OneLog(3, 0, 2, "d", 9), OneLog(4, 0, 1, "e", 31), OneLog(5, 0, 32, "f", 9) }
=============================================================================
