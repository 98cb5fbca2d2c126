# A TLA+ development for hosq

hosq is a daemon that watches EVM contracts, indexes their events in PostgreSQL,
and pins on IPFS nodes the cids that those events pay for, until the end block
they pay for. The repository has no tests; this project states what its services
have to guarantee while they interleave, fail and restart, checks it with TLC on
small instances and proves the safety part with TLAPS.

Line references are to the repository, e.g. `db.rs:43` is `src/src/db.rs`, line 43.

## 1. Inventory

| component | state | operations | talks to |
|---|---|---|---|
| **Providers service** `services/providers.rs` | per chain: `web3` (the websocket) and `latest_block`, each behind an `Arc<Mutex>` of its own | heartbeat loop: ask the block number, store it, reconnect on failure | RPC node; read by every other loop |
| **Log listeners** `services/contract_watcher.rs`, macros `watch_event!`, `get_logs!` | per loop: `start_block`; the fetched batch | choose a range, fetch its logs, hand each to a handler, record for monitoring | `latest_block`, RPC node, database |
| **Handlers of events** `contract_watcher.rs` | none | `update_valid_block`, `add_provider`, four `update_provider_*` | tables `event_update_valid_block`, `event_add_provider` |
| **IPFS service** `services/ipfs_watcher.rs` | none but what its tasks hold | per chain `pin_chain_cids`, `retry_failed_cids`, `unpin_cids`; detached tasks that pin to or unpin from a node | tables `event_update_valid_block`, `pinned_cids`, `failed_pins`; IPFS nodes |
| **Database** `db.rs`, `tables.sql` | the four tables | one function per statement | one connection per service |
| **Monitoring** `types/monitoring.rs` | per chain: the current block, and a list of at most 30 entries | block set by the heartbeat, entries appended by the listeners | `/monitoring` |
| **HTTP queries** `routes/handlers.rs` | none | read-only queries | database, monitoring |
| **Proxy** `utils/proxy.rs`, `routes/proxy.rs` | none | picks a node at random, streams request and answer | IPFS nodes |
| **Start-up** `main.rs` | none | reads the configuration, asks each chain for its block, spawns the services | all |
| Configuration, CORS, plain records | none | - | - |

How the parts interact. There are no calls between the services: they meet in
`latest_block` (one writer, many readers that take a copy and use it later) and
in the tables (the listeners fill `event_update_valid_block`, which the IPFS
service reads). Inside a service, concurrency is that of tokio tasks: six
listeners per chain, three IPFS loops per chain, and any number of detached pin
and unpin tasks. Each service owns one database connection, so its statements
are serialised, but nothing is serialised between a task's request to a node and
its statement.

What makes it hard, and what correctness means per component:

* **Listeners.** `start_block` is moved before the range is fetched, handler
  errors are skipped, and a restart resumes from the newest row of the table.
  Correct: what a loop has passed is indexed or known to be given up; the
  newest row is a sound resumption point; no error that a handler returns stops
  a loop for good. A number that does not fit does: its handler panics.
* **Registry.** Five loops write one table with one `update_block` per row.
  Correct: a row is a mixture of real events and is never set back.
* **IPFS service.** Turns work with a block number that may be stale, tasks
  outlive their turn, requests fail before or after their effect. Correct: rows
  stem from events; what is paid for is not dropped; only expired rows are
  unpinned; recorded means pinned; expired ends up unpinned, unless a task that
  pins was still under way.
* **Providers.** Correct: `latest_block` is a block of the chain, never goes
  back, and follows the chain after every loss of the connection. **Monitoring.**
  The list stays bounded and tells each listener's rounds in their order.
* **Queries.** Correct: they do not tell of copies that are not there, and lose a
  provider only to a page that is full. **Proxy.** Correct: a body that is cut or broken off is not
  reported as complete, and no upload waits forever for one of its two ends.
* **The daemon as a whole.** Correct: what an event on the chain pays for ends up
  on a node until the end paid for, and off it afterwards; on every node as long as
  no restart comes between its tasks.

`PROJECT.json` lists the hazards line by line with the properties that cover
each, and says of the uncovered ones why.

## 2. Modules

| module | models | extends / instances |
|---|---|---|
| `HosqDb` | the statements of `db.rs` over tables as sets of records | - |
| `GetLogs` | `watch_event!` and `get_logs!`, with the part of the Providers service they see; the handler is a parameter | - |
| `EventIndex` | *abstract*: logs are indexed in block order or given up | - |
| `ContractWatcher` | the `UpdateValidBlock` listener(s) of a chain | `GetLogs`, `HosqDb`; implements `EventIndex` |
| `ContractWatcherProofs` | its theorems | `ContractWatcher` |
| `ProviderIndex` | the five listeners that share `event_add_provider` | `GetLogs`, `Queries` |
| `ProviderIndexProofs` | its theorems | `ProviderIndex` |
| `PinLedger` | *abstract*: `pinned_cids` as a book of obligations | - |
| `IpfsWatcher` | the three IPFS loops per chain and the tasks they spawn | `HosqDb`; implements `PinLedger` |
| `IpfsWatcherProofs` | its theorems about rows, notes and tasks | `IpfsWatcher`, theorems of `PinLedger` |
| `IpfsCopiesProofs` | its theorems about rows and what is pinned on the nodes | `IpfsWatcherProofs` |
| `BlockClock` | *abstract*: `latest_block` follows the chain | - |
| `Providers` | the heartbeat with its reconnects, the monitoring record, and of the listeners what shares both | implements `BlockClock` |
| `ProvidersProofs` | its theorems | `Providers` |
| `Queries` | the read-only statements of `handlers.rs` | `HosqDb` |
| `Hosq` | the daemon on one chain: listener, IPFS service and answers over the same tables | `ContractWatcher`, `Queries`; implements `IpfsWatcher` and `PinLedger` |
| `HosqProofs` | its theorems | `Hosq`, `ContractWatcherProofs`, `IpfsCopiesProofs` |
| `HosqAnswersProofs` | its theorems about copies and HTTP answers | `HosqProofs` |
| `Proxy` | an upload through the proxy | - |
| `ProxyProofs` | its theorems | `Proxy` |
| `MC...` | the instances TLC checks | the module of that name |

Definitions whose comment begins with *Variant* are plausible mistakes in the
definition that follows them. No specification uses them; `PROJECT.json` pairs
each with a property that must fail when it takes the definition's place.

### Data

A table is a set of rows. This is exact: every primary key in `tables.sql` spans
the whole row (`manual_add` apart, which the listeners always write FALSE). An
`INSERT` that conflicts leaves the set as it is, with or without `ON CONFLICT`. The
one statement where the key matters is the `UPDATE ... FROM` of
`update_existing_cids_end_block`: the choice of the joined row is left open
(`ExtensionChoices`), the update fails if two rows would be equal (`KeyViolated`)
and may fail when a row is moved onto the old value of one yet to be moved
(`KeyMayBeViolated`, PostgreSQL checks the index row by row). Cids, nodes,
chains and donors are model values or strings; block numbers are integers; a log
has its chain position, the listener that selects it, and its decoded fields.

Numbers of an event are the naturals they are on the chain. The handlers read
them with `U256::as_u64`, which panics from 2^64 on (`TooLarge`), and cast to `i64`,
which wraps (`AsI64`); `TwoTo64` is a parameter, and 32 in the instances. So a row may have
a negative end, and -1 among them, which the statements take for no end.

### GetLogs and ContractWatcher

| model | code |
|---|---|
| `pc[t] = "boot"`, `Start` | `watch_event!`: `get_max_update_block`, compared with the configured `start_block` |
| `Scan` / `Poll` | top of the loop: `latest_block`, `skip_old`, end of the range, `start_block` moved |
| `Fetch` | `eth_getLogs` answers or fails (`continue`) |
| `Ignore`, `Insert`, `InsertFails` | one round of `for l in logs` with `update_valid_block`: not for this provider; stored; the statement fails |
| `Panics` | a number of the event does not fit: the listener's task is gone (`pc[t] = "dead"`) until the process is restarted, when it reads the event again |
| `EndBatch` | the end of the batch |
| `StoreLatest` | the heartbeat stores the block number |
| `Restart` | the process ends and is started; also `main.rs` reading the block number before it launches the services |
| `lost` | history variable: logs passed over without being handled |

Sleeps are not modelled; a step may come at any time after the previous one.
Apart from the numbers, the handlers' parsing cannot fail for logs of the contract's own
events, but for the one handler that decodes an address as a string: it panics on
every event (`Fatal` in `ProviderIndex`).

Environment: the chain does not reorganise (the code has no notion of it), its
head only grows, `eth_getLogs` answers with all matching logs of the range in
log order, or with an error.

### ProviderIndex

`Add`, `Update`, `StatementFails` and `Panics` are the handlers over the
same loop. `Update` writes what the code writes: for a price that is the first
word of the event divided by 10^9 (`Written`, `Gwei`), which is the provider's id
and not the price; `contract_watcher.rs:333` reads `dec_d[0]` where the price is
`dec_d[1]`. `handled` and `resumed` are history variables: the logs whose statement
went through, and the block each listener has begun at.

### IpfsWatcher

| model | code |
|---|---|
| `Look(c, loop)` | a turn reads `latest_block` |
| `PinTurn`, `UpdateFails`, `PinQueryFails` | `pin_chain_cids`: update end blocks, select new cids, spawn a task per node; each statement may fail and ends the turn |
| `RetryTurn` | `retry_failed_cids`: drop expired notes, spawn a task per note |
| `UnpinTurn` | `unpin_cids`: drop expired rows shared with another chain, spawn a task per remaining expired row |
| `TurnFails` | the first statement of one of these two fails |
| `PinOk`, `PinFails`, `Record`, `Note` | a task of `pin_unpin_cid(.., true)`: the request, then `add_cid` or `add_failed_pin` |
| `RmOk`, `RmFails`, `Delete` | a task of `pin_unpin_cid(.., false)`: the request, then `delete_cid` |
| `Donate`, `NewBlock` | the contract service inserts an event; the Providers service stores a block |
| `Crash` | the process ends: loops and tasks are gone, tables and nodes stay, requests may be on their way (`Stranded`) |
| `Arrives` | such a request takes effect on the node, or is lost |

`flying[t]` counts the tasks at stage `t.at` for the row `t.row`: two equal
tasks are alike, so a count is all there is to tell. Faults are a parameter:
`"refused"` (the node says no or cannot be reached), `"answer_lost"` (the node did it,
the answer does not arrive), `"db"` (a statement fails).

A turn's statements are one step, although an event may be inserted by the other
service between its two: the second statement then sees one event more, which
is what a turn that began later would have seen; no statement of the pinning
service itself comes between. The block number is read in an
earlier step, since a turn waits for the connection in between.

### Providers

| model | code |
|---|---|
| `Ask`, `Answer`, `AskFails` | `eth_blockNumber` on a clone of the connection |
| `Connect`, `ConnectFails` | a new websocket takes the place of the old one, or does not |
| `Store`, `Show` | `latest_block`, then the monitoring record, under two locks |
| `Poll(t)`, `Fetched(t)`, `FetchFails(t)`, `Report(t)` | a round of `get_logs!`: number and connection are taken, the request ends, the entry is pushed |
| `Break` | the connection is lost, with the clones taken of it |

The listeners are here only what they are to the heartbeat: a range may end
anywhere up to the number they have read. The other modules have `latest`
follow the chain by a jump to any newer block (`StoreLatest`, `NewBlock`); that
this is all the heartbeat does to it is what the refinement of `BlockClock` says.

### Hosq

`Listening` is a step of `ContractWatcher`, `Keeping` one of the loops or tasks of
`IpfsWatcher`, `RestartAll` takes both down. `IpfsWatcher` is instantiated with the
listener's table for `euvb` and its `latest` for the chain's: `Donate` is then the
listener's `Insert`, and `PinningSpec` says that whatever the listener does is
allowed by what `IpfsWatcher` assumes of its environment. `AnswerTo(d, b)` is what
`/cid/pinned` may tell donor `d` with block number `b`, as a set of pages; `get_cids` reads the number
before it waits for a connection, so `b` may be any number up to `latest`.

An `only_api` process runs the handlers alone; it has no state of its own, and
its `latest_block` stays what it was when the process was started.

### Queries

The answers as sets of records, without JSON. A query with `LIMIT 100` is the set of the
pages it may answer with (`Pages`, `PageSize`): all rows, or as many as fit of those that come
first. Of the order, the columns that are compared are modelled and names are not;
within equals, any choice is a page. `CidInfo`
counts pairs of rows, as the `FULL OUTER JOIN` of `cid_info` does.

### Proxy

| model | code |
|---|---|
| `NodeChoices` | `gen_range(0..len - 1)`: the last node is left out. An empty list, on which it panics, is excluded |
| `Copy`, `CopyBreaks`, `CopyEnds`, `ClientFails` | `stream_to` and `poll_write`: a chunk for the channel, the channel's reader is gone, the end of the body or of the first 100 MiB, the client breaks off |
| `Take`, `SendEnd`, `TooShort` | hyper takes what is in the channel onto its connection; when the sending end is dropped the channel is at its end (`ChannelEnds`), which hyper checks against a `Content-Length` |
| `Deliver`, `DeliverEnd` | what hyper has sent reaches the node; up to `Buffer` chunks are held in between, in hyper's buffer, sockets and network |
| `Answer`, `NodeCloses` | the node |
| `Finish` | after `join!`: the outcome of the copying, then of the request, then the JSON of the first chunk of the answer |

The client's headers, with its `Content-Length` if there is one, are passed on
(`LengthKnown`); errors in building the request end the upload before it begins
and are left out.

## 3. Runs

| run | instance | shows |
|---|---|---|
| `listener` | one listener, six events in five blocks (two share a block, one is another provider's, the end of one becomes -1, one kills the listener), batches of two blocks, errors of fetch and insert, two restarts | `TypeOK`, `Sound`, `ScannedAccounted`, `Gapless`, refinement of `EventIndex`, `EventuallySettled` |
| `registry` | add, url and price listeners, two providers of different prices, the price listener dies of a number that does not fit, pages of one row, one restart | `StampedByWriter`, `NeverBackdated`, `RegistryAccounted`, `RegisteredAreFound` |
| `pinning_renewal` | one chain and node, a subscription that is renewed, all faults, one restart with requests on their way | `Backed`, `OnlyExpiredUnpinned`, `UnpinnedByAnEnd`, `UnexpiredKept`, refinement of `PinLedger` |
| `pinning_two_chains` | two chains pay for one cid and both terms end; nodes may refuse, answers get lost | `Backed`, `PinsOnTheBooks`, `LastRowByUnpin`, refinement of `PinLedger` |
| `pinning_single` | one cid paid for once, two nodes that may refuse, no restart | `RecordedIsPinned`, `EveryNodeAccounted`, `EventuallyRecorded` |
| `providers` | heartbeat and two listeners, a connection that may break any time, a list of two entries, one restart | `ShownIsLatest`, `ReportsInOrder`, refinement of `BlockClock`, `EventuallyKnown` |
| `hosq` | one listener, two events of which one is another provider's, one node that may refuse or whose answers may get lost, one restart with requests on their way, pages of one row | `AnswersTrue`, `NodesAsPaid`, refinement of `IpfsWatcher` and of `PinLedger`, `EventuallyServed`, `EventuallyReleased` |
| `proxy` | three nodes, a body of up to four chunks with three allowed, a channel of one chunk and two on their way | `PartIsNoticed`, `UploadEnds` |

The type invariants are checked in the runs `listener`, `registry`, `pinning_renewal`,
`providers` and `proxy`.

Runs that must find a violation, each of a sentence of the repository:

| run | statement | what happens |
|---|---|---|
| `failed_insert` | "failed inserts will be retried in the next loop" (`contract_watcher.rs:102`) | only if the event is in the last block of its range |
| `update_overtaken` | the README: the events meant for the tool are indexed | without any failure, the listener of one column begins at the block that a faster one has written and skips an update of its own, for good: the row is stamped with a later block |
| `renewal_race` | "PINNED ... till block ..." (`ipfs_watcher.rs:255`) | a row is renewed while its unpin task is on the way: the row remains, the pin does not, and no loop looks at it again |
| `blocked_chain` | the README: "It will pin CIDs to the IPFS nods that are under its management" | two overlapping turns give a cid two rows with different ends; the `UPDATE` of the next turns fails on the key, and with it the selection of new cids of that chain, until the older row is gone. When that row expires, its task unpins the cid although the other row is still paid for |

More can be seen by changing a bound, and is why these properties say what they
say:

* `EveryNodeAccounted` says `crashes = 0 /\ "db" \notin Faults`: without that it
  fails in `pinning_single` with `MaxCrashes = 1`: the process ends when one node has its row and the task for the other has not run;
  `get_new_cids` does not return the cid any more, although `ipfs_watcher.rs:83`
  says "no break, need to pin to all nodes". `EventuallyServed`, over restarts,
  therefore speaks of some node. With two nodes and no restart the stronger
  statement, of every node, is `EventuallyRecorded`.
* A pin can stay for good without any fault: a second pin task pins after another
  task has unpinned, and its row is taken by that task's `DELETE`. It takes two tasks in flight
  for one row (`MaxCopies = 2`). `EventuallyReleased` excepts it: it speaks of a row that
  has expired when no task that pins or records it is under way (`Quiet`), so
  it does not rest on the bound.
* A fetch that fails loses the events of its range but for those in the last
  block; `ScannedAccounted` counts them as given up (`lost`).

### Bounds, and why they are enough

* `MaxHead`, `MaxBlock` bound the chain. Five blocks with batches of two make
  full and partial ranges and ranges whose last block is read twice. The IPFS
  service only compares an end block with the current one, so one block step
  with an end at it and an end beyond it gives all the outcomes of a comparison:
  never expired, expires, already expired when the event arrives.
* `MaxCrashes` bounds restarts. Two let a listener be interrupted while it
  repeats what it had read before the first one.
* `MaxCopies` bounds the tasks in flight *for one row*, over all stages. A turn
  that would exceed it does not spawn the task for that row, which in the code
  would be one more equal task; tasks for the same cid with different ends are
  different rows and overlap all the same. It is 1 in the runs. No property rests on it: the
  theorems about `IpfsWatcher` and `Hosq` hold for every value that lets a
  task start at all (`MaxCopies >= 1`), which covers every safety property of these
  runs; `pinning_renewal` also passes with 2, where two equal tasks overtake each other,
  in 1.4 million states. Of the liveness properties, what `EventuallyReleased` says has
  been checked with 2 and 3 for one cid paid for once, on one node that refuses, loses answers and
  sees one restart.
* `providers`: two blocks let an answer be overtaken by the chain, two listeners
  and two entries fill the list and push out an entry of either.
* `hosq`: the term of the event ends at the last block of the chain, so it may be
  served, expire before it is indexed, or expire while it is being pinned; the
  other provider's event makes the listener pass something over. The theorems
  say for every instance what its two refinements say for this one. `EventuallyServed` and
  `EventuallyReleased` are for a cid with one term that counts: the run `blocked_chain` shows
  what overlapping terms can do. `EventuallyServed` has also been checked with
  two nodes and one restart, without faults (119,750 states).
* `PageSize` is 1: with two rows one of them is left out.
* `listener`, `registry` and `hosq`: with `TwoTo64 = 32`, 31 becomes -1 and 32 kills the
  listener. The owner listener, which dies of any event in the same step, is
  not in the instance of `registry`; the theorems cover it.
* `proxy`: a body below, at and above the limit, each announced or not; the channel and
  what is on its way together hold as much as the limit.
* One node and one cid suffice in `pinning_renewal` and `pinning_two_chains`,
  as no statement relates different nodes or cids but the two that ask for
  *any* row of a cid; those need two chains (`pinning_two_chains`) or two nodes
  (`pinning_single`). `UnpinnedByAnEnd` holds in `pinning_renewal` where
  `RecordedIsPinned` does not: what the run `renewal_race` shows is the one way
  in which a row can lose its pin.

`CHECK_DEADLOCK FALSE` in the listener and registry runs and in `hosq`: with the
chain at its bound, every listener waits in `poll` for a block that does not
come. In `proxy`, an upload is over when it is over. The
pinning runs check for deadlock.

### Fairness

`ContractWatcher!Fairness`: weak fairness of each step of each listener and of
the heartbeat's store: tokio keeps polling a spawned task, and each await ends
with an answer or an error. None for the chain, for restarts, or for
success: a fetch may fail each time, the event then counts as given up. A listener
that has died does nothing until a restart, and dies again after it:
`EventuallySettled` is about the events before every event that kills their
listener (`OutOfDanger`).

`IpfsWatcher!Fairness`: weak fairness of each loop and of each task, where
succeeding and failing count alike, for the same reason; and strong fairness of a
node's success: a node asked again and again to pin, or to unpin
what it has pinned, does so in the end. The code justifies the retrying, the
node the success. A request that has outlived its process arrives or is lost in
the end (`Arrives`). `pinning_single` has no restart, since with one
`EventuallyRecorded` fails (see above and the hazards).

`Hosq!HosqFairness` is both together. `EventuallyServed` excepts what the listener
gave up or dies before, terms that are over, and pages that are full of other
cids; restarts, refusals and lost answers are in the instance.
`EventuallyReleased` speaks of the pin only: the row
may stay for good when the answer to `pin/rm` is lost.

`Providers!Fairness`: weak fairness of the heartbeat, and strong fairness of
`Connect`, of asking on a live connection and of being answered: who tries again
and again succeeds in the end. The code justifies the trying again. The awaits
have no timeout (`providers.rs:73`): a request that is never answered and never
fails would stop the heartbeat, and is excluded here.

`Proxy!Fairness`: each side is polled, and so is hyper's connection; a node reads what it is sent or closes, and
answers what it has read to the end or closes. There is no timeout either.

## 4. Proofs

Every safety invariant and every action property that a passing run checks, and
every refinement, is also a theorem here; the run shows it on a small instance,
the theorem for every value of the constants.

Assumed: `LoopAssumption`, `LogsAssumption` and `ProviderIdAssumption` for the
listeners, with `TopicAssumption` and `EventAssumption` for the registry,
`WordsAssumption` and `GweiAssumption` on the numbers of events,
`IpfsAssumption` for the IPFS service (`MaxCopies >= 1` among it),
`PageAssumption` for the queries, `ServiceAssumption` for the composition (finitely many logs
and nodes, so that the answers have something to count), `ProvidersAssumption`
and `ProxyAssumption`, all on the types of the constants; TLC evaluates them in
the runs. Two theorems or groups of them have a hypothesis besides:

* `SoleListener` (`ContractWatcherProofs`): one listener on the chain, in
  `NothingForgotten`, `NoHole` and `ImplementsIndex`. It is what a usual
  configuration has; with two providers on one chain both loops resume from the
  newest row of either, and what they say is false.
* `PaidOnce` (`IpfsCopiesProofs`): each cid is paid for by one event, in
  `RecordedPinned`, which the run `renewal_race` refutes without it.
  `LostOnlyToAnEnd` needs no such hypothesis.

**Listeners** (`ContractWatcherProofs`), for every chain, set of logs, batch
size and number of restarts, with `skip_old` or without.

* `TypeCorrect`, `OnlyRealEvents`: `TypeOK` and `Sound` are inductive together
  with `RangeInv`, which orders `StartBlock`, `from`, `start`, `latest` and
  `head` and keeps a batch within its range.
* `NothingForgotten`, `NoHole`: neither `ScannedAccounted` nor `Gapless` is
  inductive. Inserting a log keeps the table gapless because everything before
  it in the batch's order is handled and everything before the range is
  accounted for; starting from the newest row keeps the account because the
  table has no hole below it. `AccountingStep` proves both at once; handling the
  logs in order and re-reading the newest row's block are where it would break.
* `ImplementsIndex`: an insert is an `Index` step, skips and failures are
  `GiveUp`, restarts and the rest stutter.
* `IndexHasNoHole`: `EventIndex` entails `Gapless`, so the abstract specification
  says at least that much.

**IPFS service: rows, notes and tasks** (`IpfsWatcherProofs`), for all chains,
nodes, cids, donations, faults, restarts and numbers of tasks.

* `TypeCorrect`, `EverythingBacked`: rows, notes and tasks move together, as a
  task turns into a row and a row into a task; a pin comes from a task
  (`PinsBacked`).
* `NoEarlyUnpin`: needs `Snapshots`, that the number a turn holds is never ahead
  of `latest`, and `FlightInv`, that an unpin task's row has expired, kept since
  `latest` only grows, and by a restart for the requests it leaves on their way
  (`StrandedFlight`).
* `PaidIsKept`, `LastRowGoesByUnpin`: from the invariant and a case analysis of
  the table steps.
* `ImplementsLedger`: `TableSteps` shows of each step that it leaves
  `pinned_cids` alone, adds a backed row, moves rows to later backed ends
  without merging any, or removes expired rows; that is `PinLedger`.
  `BookKeepsPaid`: whatever implements `PinLedger` keeps what is paid for.

**IPFS service: rows and copies** (`IpfsCopiesProofs`). The first part states once
what a step can do to pins, rows and tasks (`PinsStep`, `RecordStep`, `RowStep`,
`FlightStep`); the invariants are then about those few changes, not about
fifteen actions.

* `LostOnlyToAnEnd`: `UnpinnedByAnEnd` is not inductive, because a row is only added
  some steps after its pin. `HeldInv` says the same of tasks about to add a row.
  A `pin/rm` takes the pin from all rows of the copy at once, also of those
  renewed in the meantime, and so does one that arrives after its process has ended
  (`StrayStep`); `FlightInv` gives the term that was over. It stays so
  since terms do not begin again. `RecordedPinned` follows: with one term per
  cid, the term that is over is the row's own.
* `NobodyForgotten`: `EveryNodeAccounted` speaks of rows, but by the time a node has
  its row the others must have been provided for. `NodesInv` says it of notes and
  tasks too, from the turn on that starts a task for every node
  (`EveryNodeStarted`). The bound leaves a task out only where another is in flight
  for the same row: one that unpins would mean that the term is over, and any
  other is in `NodesInv` itself. `OneTerm` keeps the `UPDATE` from moving a row away.
  `AccountedStep` follows a task through failure, note, row and `UPDATE`.
* `NoStrayPin`: a retry leaves its pin to the note, so `RetryInv` is needed: while a
  task tries again, its note is there or its term is over. The pin of a lost
  answer is then covered by a note, also when the cid is pinned by another task. As
  long as there was no restart no request has outlived its process (`StrayInv`).

**Registry** (`ProviderIndexProofs`), for any of the five listeners, logs, batch
sizes and restarts.

* `RowsStamped`: an update only touches rows of an older block, so the columns it
  leaves show events of an older block still. `RangeInv` gives that a log being
  handled is on the chain.
* `RowsMoveForward`: of every statement; used for the next one.
* `NothingElseSkipped`: `RegistryAccounted` is inductive given that no row goes
  back: a listener that has begun at another one's row keeps a row as its
  excuse.
* `NobodyVanishes`: `RegisteredAreFound` by way of `Owned`, since no update changes
  the owner. A page that lacks the provider's row is full, and what is on it does
  not come after what is not (`Pages`).

**Providers** (`ProvidersProofs`): `BeatInv`, that the number the heartbeat holds is
never older than the stored one, carries `ImplementsClock` and `ShownRight`;
`ReportsOrdered` needs that a round's number is at most `latest`.

**Composition** (`HosqProofs`). `ImplementsPinning` shows that every step of the daemon
is a step of `IpfsWatcher` or a stutter, using the listener's invariant `Sound`
for what it inserts. The theorems about `IpfsWatcher` then hold in the daemon:
`PromiseKept` uses `Backed` with `Sound` to lead every row back to an event on the
chain, `NodesServed` does so for what the nodes are asked to pin and unpin.

**Answers** (`HosqAnswersProofs`). `CopiesInTheDaemon` carries what is proved of rows
and copies over. For `AnswersAreTrue` the number of an answer is that of the rows that count, node by node.
A row of a cid that is still running stands for a copy on its node (`CopyBehindRow`, from
`UnpinnedByAnEnd`), so a node without the cid has none; and the rows of one cid on one node differ
in their ends, which are ends of indexed events: the end is an injection
(`CopiesBehindCount`). The end an answer tells is the greatest of a finite set (`MaxIsGreatest`,
`EndsFinite`), hence that of an event (`EventShown`, `RowShown`, `EntryShown`).

**Proxy** (`ProxyProofs`): `FlowInv` orders what the node has, what hyper has sent and what was
copied, and says what the end of the body means; `PartIsNoticed` follows.

Only model-checked: liveness (`EventuallySettled`, `EventuallyRecorded`,
`EventuallyKnown`, `EventuallyServed`, `EventuallyReleased`,
`UploadEnds`), which is out of the prover's reach, and the four violations.

## 5. Not modelled, and the plan

Left to do, in this order:

1. An abstract specification of the registry (`/providers` as a set of providers
   that only grows, with columns that move forward) and the proof that
   `ProviderIndex` implements it, as `EventIndex` and `PinLedger` do for theirs.
2. What can be proved of several listeners on one chain, where `SoleListener` does
   not hold: an event is indexed, given up, or was skipped for a newer row of
   another listener, as `RegistryAccounted` says for the registry.
3. Instances of `IpfsWatcher` with a subscription that never ends (`Forever`, -1): the
   statements compare -1 as a number, so such a row can be given an end and its
   note is dropped at once; `UnexpiredKept` and `PinLedger` except it. And with
   chains that have different nodes, where a dropped row leaves a pin that no
   row accounts for.
4. Duplicate rows of a provider, which `/providers` lists twice and which fill its pages.

Left out for good: downloads through the proxy, which hand one body through
without a decision but for the choice of the node (what a client sees of an
error that `routes/proxy.rs:89` drops is decided inside reqwest and Rocket);
reading the configuration, CORS headers, copying of HTTP headers, and the data
records: no state and no control to check; times and durations in the
monitoring entries; the binary decoding of events, which `ethabi` does and which
cannot fail for the contract's own events but in the cases modelled.
