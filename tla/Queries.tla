------------------------------ MODULE Queries ------------------------------
(***************************************************************************)
(* The read-only handlers of src/routes/handlers.rs, as operators that give  *)
(* the rows of an answer from the tables of HosqDb.  Here a row of           *)
(* event_update_valid_block has all its columns: chain, cid, donor, ub, end. *)
(* A query with a LIMIT is given as the set of the pages it may answer with:  *)
(* what its ORDER BY leaves open, and the order of names, is a choice.  JSON  *)
(* is left out.                                                             *)
(***************************************************************************)
EXTENDS HosqDb, FiniteSetsExt

CONSTANT PageSize   \* LIMIT: 100

ASSUME PageAssumption == PageSize \in Nat \ {0}

Full(page) == Cardinality(page) = PageSize

\* All the rows, or as many as there may be of those that come first.
Pages(rows, Precedes(_, _)) ==
    { p \in SUBSET rows :
        /\ p = rows \/ Full(p)
        /\ Cardinality(p) <= PageSize
        /\ \A r \in p, q \in rows \ p : ~Precedes(q, r) }

EndsOf(rows) == { r.end : r \in rows }

BlocksOf(rows) == { r.ub : r \in rows }

\* The rows of a cid on one chain.
Of(rows, c, k) == { r \in rows : r.chain = c /\ r.cid = k }

\* The rows get_cids counts as pinned at block bn.
StillPinned(rows, bn) == { r \in rows : r.end >= bn \/ r.end = Forever }

\* What get_cids says of a cid a donor has paid for: the greatest end of its
\* rows, if there is one, and the number of rows that count at block bn.  The
\* count of failed_pins does not except Forever.
CidReport(euvb, pinned, failed, c, donor, bn, k) ==
    LET paid == { e \in Of(euvb, c, k) : e.donor = donor }
        seen == IF Of(pinned, c, k) # {} THEN Of(pinned, c, k) ELSE paid
    IN  [cid |-> k, donor |-> donor,
         update_block |-> Min(BlocksOf(paid)),
         end_block |-> Max(EndsOf(seen)),
         node_count |-> Cardinality(StillPinned(Of(pinned, c, k), bn)),
         failed_node_count |-> Cardinality({ r \in Of(failed, c, k) : r.end >= bn })]

\* The cids with most failures come first, then those on fewest nodes, then those
\* that end first.
MoreUrgent(a, b) ==
    \/ a.failed_node_count > b.failed_node_count
    \/ /\ a.failed_node_count = b.failed_node_count
       /\ \/ a.node_count < b.node_count
          \/ a.node_count = b.node_count /\ a.end_block < b.end_block

\* get_cids
GetCids(euvb, pinned, failed, c, donor, bn) ==
    Pages({ CidReport(euvb, pinned, failed, c, donor, bn, e.cid) :
                e \in { f \in euvb : f.chain = c /\ f.donor = donor } }, MoreUrgent)

\* is_pinned: how many rows a cid has, over all chains, expired or not.
IsPinned(pinned, k) == Cardinality({ r \in pinned : r.cid = k })

\* cid_info: a row per chain.  Its FULL OUTER JOIN pairs every pinned row with
\* every failed one, and both counts are counts of pairs.  Of no rows the
\* greatest end is NULL, here no element.
CidInfo(pinned, failed, k) ==
    LET P(c) == Of(pinned, c, k)
        F(c) == Of(failed, c, k)
        Count(S, T) == Cardinality(S) * Max({1, Cardinality(T)})
        Top(S) == IF S = {} THEN {} ELSE {Max(EndsOf(S))}
    IN  { [chain_id |-> c,
           pinned_node_count |-> Count(P(c), F(c)), pinned_end_block |-> Top(P(c)),
           failed_node_count |-> Count(F(c), P(c)), failed_end_block |-> Top(F(c))] :
            c \in { r.chain : r \in { q \in pinned \cup failed : q.cid = k } } }

\* Variant: the order is the wrong way round.
Dearer(q, r) == q.price > r.price

Cheaper(q, r) == q.price < r.price

InAnyOrder(q, r) == FALSE

\* get_providers: the rows of a chain, also when a provider has several, the
\* cheapest first.
GetProviders(table, c) == Pages({ r \in table : r.chain = c }, Cheaper)

\* get_provider: those whose owner column is the address, by name.
GetProvider(table, c, address) ==
    Pages({ r \in table : r.chain = c /\ r.owner = address }, InAnyOrder)
=============================================================================
