------------------------------- MODULE MCHosq -------------------------------
(* A small instance of Hosq.                                                 *)
EXTENDS Hosq

\* One listener.  A donor pays this provider for a cid till block 2, and then
\* another provider for another cid.
TheListener == {"uvb"}
TheProvider == [t \in TheListener |-> 1]

Donated(b, p, c, e) ==
    [task |-> "uvb", block |-> b, index |-> 0, pid |-> p, donor |-> "d", cid |-> c, end |-> e]

TwoProviders == { Donated(0, 1, "a", 2), Donated(1, 2, "b", 9) }
=============================================================================
