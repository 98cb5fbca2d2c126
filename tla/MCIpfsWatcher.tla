---------------------------- MODULE MCIpfsWatcher ----------------------------
(* Small instances of IpfsWatcher.                                          *)
EXTENDS IpfsWatcher

Event(c, k, e) == [chain |-> c, cid |-> k, end |-> e]

\* A subscription that is renewed: the first end is reached, the second not.
Renewal == { Event("A", "k", 1), Event("A", "k", 9) }

\* A subscription is renewed well before its end, and another cid is paid for.
RenewedEarly == { Event("A", "k", 5), Event("A", "k", 9), Event("A", "j", 9) }

\* Two chains pay for the same cid, both till a block reached.
TwoChainsEnd == { Event("A", "k", 1), Event("B", "k", 1) }

\* A cid is paid for once, by one chain, till a block that may be reached.
SingleTerm == { Event("A", "k", 1) }
=============================================================================
