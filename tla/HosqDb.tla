------------------------------- MODULE HosqDb -------------------------------
(***************************************************************************)
(* The SQL statements of src/db.rs over the tables of tables.sql, as        *)
(* operators on sets of records.                                            *)
(*                                                                          *)
(* Every primary key of tables.sql lists every column of its table          *)
(* (manual_add apart, which the event listeners always write FALSE), so a   *)
(* table is exactly a set of rows: INSERT ... ON CONFLICT DO NOTHING is set  *)
(* union, and a key can only be violated by writing a row that is already   *)
(* there.  The columns a statement does not look at are left open: a row    *)
(* of event_update_valid_block is any record with the fields chain, cid and *)
(* end (and, for the listener, donor and ub); a row of pinned_cids or of     *)
(* failed_pins is [chain, node, cid, end].                                  *)
(*                                                                          *)
(* end is end_block, ub is update_block.                                    *)
(***************************************************************************)
EXTENDS Integers

\* end_block of a subscription that never ends; db.rs tests for it by name.
Forever == -1

-----------------------------------------------------------------------------
(* event_update_valid_block                                                 *)

\* Variant: the insert replaces an older event of the cid.
UpsertValidBlock(euvb, row) ==
    { e \in euvb : e.chain # row.chain \/ e.cid # row.cid } \cup {row}

\* db::add_valid_block: ON CONFLICT (the whole row) DO NOTHING.
AddValidBlock(euvb, row) == euvb \cup {row}

\* db::get_max_update_block, as the set of its possible answers: MAX over no
\* row is NULL, which try_get turns into an error, so the set is then empty.
MaxUpdateBlock(table, c) ==
    { r.ub : r \in { q \in table : /\ q.chain = c
                                   /\ \A p \in table : p.chain = c => p.ub <= q.ub } }

-----------------------------------------------------------------------------
(* pinned_cids                                                              *)

\* db::add_cid has no ON CONFLICT clause: inserting a row that is already
\* there fails and leaves the table as it is, which is the same union.
AddCid(pinned, row) == pinned \cup {row}

\* Variant: the end block is missing in the WHERE clause.
DeleteCidWhateverEnd(pinned, row) ==
    { p \in pinned : p.chain # row.chain \/ p.node # row.node \/ p.cid # row.cid }

\* db::delete_cid: the WHERE clause names all four columns.
DeleteCid(pinned, row) == pinned \ {row}

\* Variant: a row is taken for expired one block too early.
ExpiredRowsEarly(pinned, c, bn) ==
    { p \in pinned : p.chain = c /\ p.end <= bn + 1 /\ p.end # Forever }

\* Rows of chain c whose end block is behind bn; Forever never is.
ExpiredRows(pinned, c, bn) ==
    { p \in pinned : p.chain = c /\ p.end <= bn /\ p.end # Forever }

\* Variant: the subquery does not ask for another chain.
DeleteAllExpired(pinned, c, bn) == pinned \ ExpiredRows(pinned, c, bn)

\* db::delete_multichain_expired_cids: an expired row goes as soon as another
\* chain has a row of the same cid, on whatever node and whatever its end.
DeleteMultichainExpired(pinned, c, bn) ==
    pinned \ { p \in ExpiredRows(pinned, c, bn) :
                 \E q \in pinned : q.chain # p.chain /\ q.cid = p.cid }

\* Variant: the join does constrain, to the cids of several chains.
SharedExpired(pinned, c, bn) ==
    { p \in ExpiredRows(pinned, c, bn) : \E q \in pinned : q.chain # c /\ q.cid = p.cid }

\* db::get_single_chain_expired_cids: its LEFT JOIN constrains nothing, every
\* expired row of the chain is selected.
SingleChainExpired(pinned, c, bn) == ExpiredRows(pinned, c, bn)

\* Variant: the events of all chains are looked at.
NewCidsOfAnyChain(euvb, pinned, c, bn) ==
    { [chain |-> c, cid |-> e.cid, end |-> e.end] :
        e \in { f \in euvb : /\ f.end > bn
                             /\ \A p \in pinned : ~(p.chain = c /\ p.cid = f.cid) } }

\* db::get_new_cids: for each cid of chain c that is still paid for and has no
\* row at all in pinned_cids, its largest end block.
NewCids(euvb, pinned, c, bn) ==
    LET wanted == { e \in euvb : /\ e.chain = c
                                 /\ e.end > bn \/ e.end = Forever
                                 /\ \A p \in pinned : ~(p.chain = c /\ p.cid = e.cid) }
    IN  { [chain |-> c, cid |-> e.cid, end |-> e.end] :
            e \in { f \in wanted : \A g \in wanted : g.cid = f.cid => g.end <= f.end } }

-----------------------------------------------------------------------------
(* db::update_existing_cids_end_block, an UPDATE ... FROM.  A pinned row may *)
(* join several event rows; PostgreSQL then applies an arbitrary one of them.*)
(* The statement is all or nothing: it fails when a row would become equal  *)
(* to another.  The unique index is checked row by row, so it may also fail *)
(* when a row is given the old value of a row the statement has yet to move. *)

\* Variant: the new end block need not be the later one.
ExtensionsAnyEnd(p, euvb, c, bn) ==
    { e.end : e \in { f \in euvb : f.chain = p.chain /\ f.chain = c /\ f.cid = p.cid /\ f.end > bn } }

\* The end blocks the join offers to pinned row p.
Extensions(p, euvb, c, bn) ==
    { e.end : e \in { f \in euvb : /\ f.chain = p.chain /\ f.chain = c
                                   /\ f.cid = p.cid
                                   /\ p.end < f.end
                                   /\ f.end > bn } }

Extendable(pinned, euvb, c, bn) ==
    { p \in pinned : Extensions(p, euvb, c, bn) # {} }

\* The choices of one joined event row for each row to update.
ExtensionChoices(pinned, euvb, c, bn) ==
    LET rows == Extendable(pinned, euvb, c, bn) IN
    { f \in [rows -> { e.end : e \in euvb }] :
        \A p \in rows : f[p] \in Extensions(p, euvb, c, bn) }

Moved(p, f) == IF p \in DOMAIN f THEN [p EXCEPT !.end = f[p]] ELSE p

\* The table after a successful update with choice f.
Extended(pinned, f) == { Moved(p, f) : p \in pinned }

\* Two rows would end up equal: the statement cannot succeed.
KeyViolated(pinned, f) ==
    \E p \in DOMAIN f, q \in pinned : p # q /\ Moved(p, f) = Moved(q, f)

\* Some row is moved onto the old value of another: the statement can fail.
KeyMayBeViolated(pinned, f) ==
    \E p \in DOMAIN f, q \in pinned : p # q /\ Moved(p, f) \in {q, Moved(q, f)}

-----------------------------------------------------------------------------
(* failed_pins                                                              *)

\* Variant: two arguments of add_failed_pin change places.
AddFailedPinSwapped(failed, row) ==
    failed \cup {[row EXCEPT !.node = row.cid, !.cid = row.node]}

\* db::add_failed_pin: ON CONFLICT (the whole row) DO NOTHING.
AddFailedPin(failed, row) == failed \cup {row}

\* db::delete_expired_failed_cids
DeleteExpiredFailed(failed, c, bn) ==
    { r \in failed : ~(r.end <= bn /\ r.chain = c) }

\* Variant: the comparison is the wrong way round.
FailedCidsExpired(failed, c, bn) == { r \in failed : r.end < bn /\ r.chain = c }

\* db::get_failed_cids
FailedCids(failed, c, bn) == { r \in failed : r.end > bn /\ r.chain = c }

-----------------------------------------------------------------------------
(* event_add_provider: the rows [pid, ub, owner, price, url, name] of one    *)
(* chain.                                                                   *)

\* db::add_provider: ON CONFLICT (the whole row) DO NOTHING.
AddProvider(table, row) == table \cup {row}

\* Variant: the WHERE clause forgets the block.
OutdatedAny(table, pid, b) == { r \in table : r.pid = pid }

\* The rows an event of block b may update: those of its provider that are of
\* an older block.
Outdated(table, pid, b) == { r \in table : r.pid = pid /\ r.ub < b }

\* Variant: the SET clause forgets the value.
StampOnly(r, b, column, v) == [r EXCEPT !.ub = b]

Stamp(r, b, column, v) == [r EXCEPT !.ub = b, ![column] = v]

\* db::update_provider_block_price, _api_url, _owner and _name, which differ in
\* the column.
UpdateProvider(table, pid, b, column, v) ==
    (table \ Outdated(table, pid, b)) \cup
        { Stamp(r, b, column, v) : r \in Outdated(table, pid, b) }

\* Two rows would become equal: the key forbids the update.
ProviderKeyViolated(table, pid, b, column, v) ==
    \E p \in Outdated(table, pid, b), q \in table :
        /\ p # q
        /\ \/ q = Stamp(p, b, column, v)
           \/ q \in Outdated(table, pid, b) /\ Stamp(q, b, column, v) = Stamp(p, b, column, v)
=============================================================================
