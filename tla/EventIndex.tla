----------------------------- MODULE EventIndex -----------------------------
(***************************************************************************)
(* What the listener of one event table promises, whatever fails: the log of *)
(* the chain is indexed in block order, and a log is either indexed or known *)
(* to be lost by the time a log of a later block is indexed.  Restarts are   *)
(* invisible at this level.                                                 *)
(***************************************************************************)
EXTENDS Integers

CONSTANTS Relevant,   \* the logs this node has to index
          RowOf(_)    \* the row a log is stored as

VARIABLES indexed,    \* the table
          lost        \* the logs that were given up

Settled(l) == RowOf(l) \in indexed \/ l \in lost

Init == indexed = {} /\ lost = {}

Index(l) ==
    /\ \A m \in Relevant : m.block < l.block => Settled(m)
    /\ indexed' = indexed \cup {RowOf(l)}
    /\ UNCHANGED lost

GiveUp(S) ==
    /\ lost' = lost \cup S
    /\ UNCHANGED indexed

Next ==
    \/ \E l \in Relevant : Index(l)
    \/ \E S \in SUBSET Relevant : GiveUp(S)

Spec == Init /\ [][Next]_<<indexed, lost>>
=============================================================================
