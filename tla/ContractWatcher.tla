--------------------------- MODULE ContractWatcher ---------------------------
(***************************************************************************)
(* The UpdateValidBlock listeners of one chain: the loop of GetLogs with the *)
(* handler update_valid_block, filling the table event_update_valid_block.   *)
(* There is one listener per configured provider on the chain, usually one.  *)
(*                                                                          *)
(* A log has, besides its place, the fields pid (the provider it is meant    *)
(* for), donor, cid and end; pid and end are the uint256 of the event.       *)
(***************************************************************************)
EXTENDS GetLogs, HosqDb

CONSTANTS
    ChainId,     \* the chain the listeners are on
    ProviderId   \* ProviderId[t]: Provider.provider_id of listener t

ASSUME ProviderIdAssumption == ProviderId \in [Tasks -> Int]

ASSUME WordsAssumption == \A l \in Logs : l.pid \in Nat /\ l.end \in Nat

VARIABLE table   \* event_update_valid_block

vars == <<loopVars, table>>

\* The event names this node.
ForMe(t, l) == ~TooLarge(l.pid) /\ AsI64(l.pid) = ProviderId[t]

\* update_valid_block panics: the provider is read of every event, the end only
\* of one that names this node.
Fatal(t, l) == TooLarge(l.pid) \/ (ForMe(t, l) /\ TooLarge(l.end))

\* Variant: two columns of the INSERT are given in the other order.
SwappedRow(l) ==
    [chain |-> ChainId, cid |-> l.donor, donor |-> l.cid, ub |-> l.block, end |-> AsI64(l.end)]

\* The row update_valid_block makes of a log.
ValidBlockRow(l) ==
    [chain |-> ChainId, cid |-> l.cid, donor |-> l.donor, ub |-> l.block, end |-> AsI64(l.end)]

-----------------------------------------------------------------------------
Init == LoopInit /\ table = {}

\* A query that fails, on an empty table or in the database, counts as no row.
Start(t) ==
    /\ \/ \E b \in MaxUpdateBlock(table, ChainId) : Boot(t, Resume(b))
       \/ Boot(t, StartBlock)
    /\ UNCHANGED table

Scan(t) == Poll(t) /\ UNCHANGED table

Fetch(t) == (FetchOk(t) \/ FetchFails(t)) /\ UNCHANGED table

\* Another provider's event: update_valid_block returns Ok and stores nothing.
Ignore(t, l) ==
    /\ ~ForMe(t, l) /\ ~Fatal(t, l)
    /\ Consume(t, l)
    /\ UNCHANGED <<lost, table>>

\* Variant: whatever the contract announces is indexed.
InsertUnasked(t, l) ==
    /\ ~Fatal(t, l)
    /\ Consume(t, l)
    /\ table' = AddValidBlock(table, ValidBlockRow(l))
    /\ UNCHANGED lost

Insert(t, l) ==
    /\ ForMe(t, l) /\ ~Fatal(t, l)
    /\ Consume(t, l)
    /\ table' = AddValidBlock(table, ValidBlockRow(l))
    /\ UNCHANGED lost

\* The insert fails: the error is logged, the loop takes the next log.
InsertFails(t, l) ==
    /\ ForMe(t, l) /\ ~Fatal(t, l)
    /\ Consume(t, l)
    /\ lost' = lost \cup PassedOver(t, l)
    /\ UNCHANGED table

\* A number of the event does not fit: nothing is stored, the listener is dead.
Panics(t, l) ==
    /\ Fatal(t, l)
    /\ Dies(t, l)
    /\ UNCHANGED table

Handle(t) ==
    \E l \in Logs : Ignore(t, l) \/ Insert(t, l) \/ InsertFails(t, l) \/ Panics(t, l)

EndBatch(t) == BatchDone(t) /\ UNCHANGED table

Environment == (NewBlock \/ StoreLatest \/ Restart) /\ UNCHANGED table

Next ==
    \/ Environment
    \/ \E t \in Tasks : Start(t) \/ Scan(t) \/ Fetch(t) \/ Handle(t) \/ EndBatch(t)

Spec == Init /\ [][Next]_vars

(***************************************************************************)
(* The runtime keeps polling every spawned loop, every await of a loop ends  *)
(* with an answer or an error, and the Providers loop keeps asking for the   *)
(* block number.  The chain need not grow and nothing restarts for sure.     *)
(***************************************************************************)
Fairness ==
    /\ WF_vars(StoreLatest /\ UNCHANGED table)
    /\ \A t \in Tasks : /\ WF_vars(Start(t))
                        /\ WF_vars(Scan(t))
                        /\ WF_vars(Fetch(t))
                        /\ WF_vars(Handle(t))
                        /\ WF_vars(EndBatch(t))

FairSpec == Spec /\ Fairness

-----------------------------------------------------------------------------
\* The logs listener t has to index.
RelevantTo(t) == { l \in Logs : l.task = t /\ ForMe(t, l) /\ l.block >= StartBlock }

Relevant == UNION { RelevantTo(t) : t \in Tasks }

Settled(l) == ValidBlockRow(l) \in table \/ l \in lost

TypeOK ==
    /\ LoopTypeOK
    /\ table \subseteq [chain : {ChainId},
                       cid : { l.cid : l \in Logs }, donor : { l.donor : l \in Logs },
                       ub : { l.block : l \in Logs }, end : { AsI64(l.end) : l \in Logs }]

\* Every row stems from an event for this provider that is on the chain.
Sound ==
    \A r \in table : \E t \in Tasks : \E l \in RelevantTo(t) :
        r = ValidBlockRow(l) /\ l.block <= head

\* What a listener has moved past, it has indexed or given up: below start
\* when it is about to choose a range, below the range when one is being
\* fetched, and when one is being handled also in it, but for the logs still
\* pending, also when the listener has died of one, and those of its last block,
\* which will be asked for again.
ScannedAccounted ==
    \A t \in Tasks : \A l \in RelevantTo(t) :
        \/ pc[t] = "boot"
        \/ l.block >= IF pc[t] = "fetch" THEN from[t] ELSE start[t]
        \/ pc[t] \in {"handle", "dead"} /\ l \in pending[t]
        \/ Settled(l)

\* The table has no hole that is not accounted for: every event older than
\* some row is itself a row or was given up.  A restart relies on it when it
\* resumes from the newest row's block.
Gapless ==
    \A r \in table : \A l \in Relevant : l.block < r.ub => Settled(l)

\* The promise of EventIndex, which knows neither loops nor restarts.
Index == INSTANCE EventIndex WITH
             RowOf <- ValidBlockRow, indexed <- table, lost <- lost \cap Relevant

IndexSpec == Index!Spec

\* The event comes before every event that its listener dies of.
OutOfDanger(l) == \A m \in Logs : m.task = l.task /\ Fatal(m.task, m) => l.block < m.block

\* Every event the chain has moved past is eventually indexed or given up, if no
\* event up to its block kills the listener: restarts and errors may repeat work,
\* only a number that does not fit stops a listener, and then for good, as it is
\* read again after every restart.
EventuallySettled == \A l \in Relevant : OutOfDanger(l) => ((head > l.block) ~> Settled(l))

-----------------------------------------------------------------------------
(* What the project's own words say, and the code does not do.              *)

\* contract_watcher.rs says of the loop over the logs "failed inserts will be
\* retried in the next loop", which asks for the blocks from start on.
FailedInsertsRetried ==
    [][\A t \in Tasks : \A l \in Logs : InsertFails(t, l) => l.block >= start[t]]_vars
=============================================================================
