---------------------------- MODULE ProviderIndex ----------------------------
(***************************************************************************)
(* The listeners of one chain that keep event_add_provider, the registry of  *)
(* all providers: five loops of GetLogs over five topics of one contract,    *)
(* which share one table.  Four of them do not add rows but update those the *)
(* first has added, and all five resume from the newest row, whoever wrote it. *)
(*                                                                          *)
(* A log has, besides its place, the field pid and the field value: the new  *)
(* value or, of AddProvider, the record of the four columns.  Identifiers and *)
(* prices are the uint256 of the event; a row has its price in gwei.          *)
(***************************************************************************)
EXTENDS GetLogs, Queries

CONSTANTS
    ChainId,   \* the chain the listeners are on
    Gwei       \* wei in a gwei: 10^9

\* "add" is AddProvider; the others are named for the column they update.
ASSUME TopicAssumption == Tasks \subseteq {"add", "price", "url", "owner", "name"}

ASSUME GweiAssumption == Gwei \in Nat \ {0}

\* The contract declares the fields of its events.
ASSUME EventAssumption ==
    \A l \in Logs :
        /\ l.pid \in Nat
        /\ l.task = "add" =>
             l.value \in [owner : STRING, price : Nat, url : STRING, name : STRING]
        /\ l.task = "price" => l.value \in Nat
        /\ l.task \in {"owner", "url", "name"} => l.value \in STRING

VARIABLES
    table,     \* event_add_provider, the rows of ChainId
    handled,   \* history: the logs whose statement went through
    resumed    \* history: the block each listener has started at

vars == <<loopVars, table, handled, resumed>>

Columns == {"owner", "price", "url", "name"}

\* What a handler writes of an update.  update_provider_block_price takes both
\* its provider and its price from the first word of the event.
Written(l) == IF l.task = "price" THEN AsI64(l.pid \div Gwei) ELSE l.value

\* The handler panics: an identifier or a price in gwei does not fit.  And
\* UpdateProviderAddress(uint256,address) carries an address, which
\* update_provider_owner decodes as a string: ethabi refuses every such event,
\* and the result is unwrapped.
Fatal(l) ==
    \/ l.task = "owner"
    \/ TooLarge(l.pid)
    \/ l.task = "add" /\ TooLarge(l.value.price \div Gwei)

\* Variant: two columns of the INSERT are given in the other order.
SwappedProviderRow(l) ==
    [chain |-> ChainId, pid |-> AsI64(l.value.price \div Gwei), ub |-> l.block,
     owner |-> l.value.owner, price |-> AsI64(l.pid), url |-> l.value.url, name |-> l.value.name]

\* The row of an AddProvider event.
ProviderRow(l) ==
    [chain |-> ChainId, pid |-> AsI64(l.pid), ub |-> l.block,
     owner |-> l.value.owner, price |-> AsI64(l.value.price \div Gwei), url |-> l.value.url, name |-> l.value.name]

-----------------------------------------------------------------------------
Init == LoopInit /\ table = {} /\ handled = {} /\ resumed = start

\* As in ContractWatcher: all five ask the one table for its newest row.
Start(t) ==
    /\ \/ \E b \in MaxUpdateBlock(table, ChainId) : Boot(t, Resume(b))
       \/ Boot(t, StartBlock)
    /\ resumed' = [resumed EXCEPT ![t] = start'[t]]
    /\ UNCHANGED <<table, handled>>

Scan(t) == Poll(t) /\ UNCHANGED <<table, handled, resumed>>

Fetch(t) == (FetchOk(t) \/ FetchFails(t)) /\ UNCHANGED <<table, handled, resumed>>

Add(l) ==
    /\ l.task = "add" /\ ~Fatal(l)
    /\ Consume("add", l)
    /\ table' = AddProvider(table, ProviderRow(l))
    /\ handled' = handled \cup {l}
    /\ UNCHANGED <<lost, resumed>>

\* It succeeds also when there is no row to update.
Update(l) ==
    /\ l.task \in {"price", "url", "name"} /\ ~Fatal(l)
    /\ Consume(l.task, l)
    /\ ~ProviderKeyViolated(table, AsI64(l.pid), l.block, l.task, Written(l))
    /\ table' = UpdateProvider(table, AsI64(l.pid), l.block, l.task, Written(l))
    /\ handled' = handled \cup {l}
    /\ UNCHANGED <<lost, resumed>>

\* The database fails, or the key forbids the update: the error is logged.
StatementFails(l) ==
    /\ ~Fatal(l)
    /\ Consume(l.task, l)
    /\ lost' = lost \cup PassedOver(l.task, l)
    /\ UNCHANGED <<table, handled, resumed>>

Panics(l) ==
    /\ Fatal(l)
    /\ Dies(l.task, l)
    /\ UNCHANGED <<table, handled, resumed>>

Handle(l) == Add(l) \/ Update(l) \/ StatementFails(l) \/ Panics(l)

EndBatch(t) == BatchDone(t) /\ UNCHANGED <<table, handled, resumed>>

Environment == (NewBlock \/ StoreLatest \/ Restart) /\ UNCHANGED <<table, handled, resumed>>

Next ==
    \/ Environment
    \/ \E t \in Tasks : Start(t) \/ Scan(t) \/ Fetch(t) \/ EndBatch(t)
    \/ \E l \in Logs : Handle(l)

Spec == Init /\ [][Next]_vars

-----------------------------------------------------------------------------
Rows == [chain : {ChainId}, pid : { AsI64(l.pid) : l \in Logs }, ub : 0..MaxHead,
         owner : STRING, price : Int, url : STRING, name : STRING]

TypeOK ==
    /\ LoopTypeOK
    /\ handled \subseteq Logs
    /\ resumed \in [Tasks -> Nat]
    /\ table \subseteq Rows

\* The events of the row's provider that are on the chain and can be handled.
EventsOf(r) == { l \in Logs : AsI64(l.pid) = r.pid /\ l.block <= head /\ ~Fatal(l) }

Stamped(r) ==
    /\ \E l \in EventsOf(r) :
          /\ l.block = r.ub
          /\ IF l.task = "add" THEN r = ProviderRow(l) ELSE r[l.task] = Written(l)
    /\ \A column \in Columns :
          \E l \in EventsOf(r) :
             /\ l.block <= r.ub
             /\ \/ l.task = "add" /\ r[column] = ProviderRow(l)[column]
                \/ l.task = column /\ r[column] = Written(l)

\* Whatever mixture of listeners wrote a row, update_block is the block of an
\* event that the row shows, and no column shows an event after it.
StampedByWriter == \A r \in table : Stamped(r)

\* Nobody sets a row back: it stays or is moved to a later block.
NeverBackdated ==
    [][\A r \in table : \E q \in table' :
          q = r \/ (q.pid = r.pid /\ q.ub > r.ub)]_vars

\* What a listener has moved past it has handled or given up, or skipped when
\* it started: then the table it shares had a newer row, whoever wrote it, be
\* it before a restart or because the others were quicker to start.
RegistryAccounted ==
    \A t \in Tasks : \A l \in Logs :
        l.task = t /\ l.block >= StartBlock =>
            \/ pc[t] = "boot"
            \/ l.block >= IF pc[t] = "fetch" THEN from[t] ELSE start[t]
            \/ pc[t] \in {"handle", "dead"} /\ l \in pending[t]
            \/ l \in handled \cup lost
            \/ l.block < resumed[t] /\ \E r \in table : resumed[t] <= r.ub

\* /providers and /provider do not lose who was registered, whatever updates and
\* duplicates came after: every answer shows the provider, to everybody and to
\* the owner who has added it, but for one that is full, to everybody of
\* providers that are not dearer.
RegisteredAreFound ==
    \A l \in handled : l.task = "add" =>
        \E r \in table :
            /\ r.pid = AsI64(l.pid) /\ r.owner = l.value.owner
            /\ \A p \in GetProviders(table, ChainId) :
                  r \in p \/ (Full(p) /\ \A q \in p : q.price <= r.price)
            /\ \A p \in GetProvider(table, ChainId, l.value.owner) : r \in p \/ Full(p)

-----------------------------------------------------------------------------
(* What the project's own words say, and the code does not do.              *)

\* The newest event of its column up to block b.
Newest(l, b) ==
    \A m \in Logs : m.task = l.task /\ m.pid = l.pid => ~Before(l, m) \/ m.block > b

\* README.md says the tool scans for the events and indexes them in the
\* database.  When no listener is behind and nothing was given up, a row should
\* show, of each column, the newest value up to the block it is stamped with: an
\* event that is older than the stamp is never applied to the row any more.
UpdatesIndexed ==
    (\A t \in Tasks : pc[t] = "poll" /\ start[t] >= latest) /\ lost = {} =>
        \A r \in table, l \in Logs :
            /\ l.task # "add" /\ AsI64(l.pid) = r.pid
            /\ l.block <= r.ub /\ Newest(l, r.ub)
            => r[l.task] = l.value
=============================================================================
