------------------------------ MODULE PinLedger ------------------------------
(***************************************************************************)
(* What pinned_cids promises as a book of obligations, whatever fails: a     *)
(* node is entered for an event that was indexed, an entry is only ever     *)
(* moved to a greater end that another indexed event pays for, two entries   *)
(* are never merged, and an entry is only struck out when its end block is   *)
(* behind the chain.  Never is less than every block, so an entry without an *)
(* end may be given one: the book makes no promise against that.  IPFS,      *)
(* tasks, loops and restarts are invisible here.                            *)
(***************************************************************************)
EXTENDS Integers

CONSTANTS Donations,   \* the events [chain, cid, end] there can be
          Nodes,       \* the IPFS nodes
          Never        \* the end of an event that does not expire, less than any block

VARIABLES block,       \* block[c]: how far chain c is known to be
          events,      \* the events indexed so far
          rows         \* the entries [chain, node, cid, end]

PaidFor(p, e) == [chain |-> p.chain, cid |-> p.cid, end |-> e] \in events

Init == events \subseteq Donations /\ rows = {}

Grow ==
    /\ \A c \in DOMAIN block : block'[c] >= block[c]
    /\ UNCHANGED <<events, rows>>

Learn(S) ==
    /\ events' = events \cup S
    /\ UNCHANGED <<block, rows>>

Enter(d, n) ==
    /\ d \in events
    /\ rows' = rows \cup {[chain |-> d.chain, node |-> n, cid |-> d.cid, end |-> d.end]}
    /\ UNCHANGED <<block, events>>

\* g gives every entry its end after the step.
Renew(g) ==
    LET After(p) == [p EXCEPT !.end = g[p]] IN
    /\ \A p \in rows : g[p] = p.end \/ (g[p] > p.end /\ PaidFor(p, g[p]))
    /\ \A p, q \in rows : After(p) = After(q) => p = q
    /\ rows' = { After(p) : p \in rows }
    /\ UNCHANGED <<block, events>>

StrikeOut(S) ==
    /\ \A p \in S : p.end # Never /\ p.end <= block[p.chain]
    /\ rows' = rows \ S
    /\ UNCHANGED <<block, events>>

Next ==
    \/ Grow
    \/ \E S \in SUBSET Donations : Learn(S)
    \/ \E d \in Donations, n \in Nodes : Enter(d, n)
    \/ \E g \in [rows -> { d.end : d \in Donations }] : Renew(g)
    \/ \E S \in SUBSET rows : StrikeOut(S)

Spec == Init /\ [][Next]_<<block, events, rows>>
=============================================================================
