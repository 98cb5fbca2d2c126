------------------------------- MODULE GetLogs -------------------------------
(***************************************************************************)
(* The log listeners of src/services/contract_watcher.rs for one chain: the  *)
(* watch_event! macro, which starts a listener, and the get_logs! macro, the *)
(* endless loop of a listener, together with what the loop reads of the      *)
(* Providers service, the shared latest_block.                              *)
(*                                                                          *)
(* What a listener does with a log is the parameter $f of the macro.  Here it *)
(* is left to the modules that extend this one: Consume(t, l) takes the log  *)
(* off the batch, and the extending module adds the handler's effect.        *)
(*                                                                          *)
(* Environment: the chain only grows, the node behind the websocket answers  *)
(* eth_blockNumber with its head and eth_getLogs with every matching log of  *)
(* the range, in log order, or with an error.  Sleeps are not modelled: a    *)
(* listener may take its next step at any time after the previous one.       *)
(***************************************************************************)
EXTENDS Integers

CONSTANTS
    Tasks,       \* the listeners: one per spawned get_logs! loop on this chain
    Logs,        \* every log of the watched contracts, in whatever block
    StartBlock,  \* Provider.start_block of the configuration
    BatchSize,   \* Provider.batch_size
    SkipOld,     \* Provider.skip_old is Some(true)
    TwoTo64,     \* what a number of 64 bits is less than
    MaxHead,     \* bound: the chain grows up to this block
    MaxCrashes   \* bound: the process is restarted at most so often

ASSUME LoopAssumption ==
    /\ StartBlock \in Nat
    /\ BatchSize \in Nat \ {0}
    /\ SkipOld \in BOOLEAN
    /\ TwoTo64 \in Nat \ {0}
    /\ MaxHead \in Nat
    /\ MaxCrashes \in Nat

\* A log has the listener its address and topic select, and a place on the chain.
ASSUME LogsAssumption ==
    \A l \in Logs : l.task \in Tasks /\ l.block \in Nat /\ l.index \in Nat

VARIABLES
    head,     \* the chain's last block
    latest,   \* Web3Node.latest_block, shared by all loops of the process
    pc,       \* where each listener is
    start,    \* start_block of the loop
    from,     \* first block of the range being fetched; start is its last
    pending,  \* logs of the fetched range not handled yet
    crashes,  \* restarts so far
    lost      \* history: logs a listener has moved past without handling them

loopVars == <<head, latest, pc, start, from, pending, crashes, lost>>

-----------------------------------------------------------------------------
LogsIn(t, a, b) == { l \in Logs : l.task = t /\ l.block \in a..b }

\* eth_getLogs orders its answer by block and by position in the block.
Before(l, m) == l.block < m.block \/ (l.block = m.block /\ l.index < m.index)

\* skip_old: a loop more than a batch behind jumps to one batch behind.
SkipTo(s, bn) == IF SkipOld /\ bn - s > BatchSize THEN bn - BatchSize ELSE s

\* A uint256 of an event is read with U256::as_u64, which panics when it does
\* not fit, and then cast to i64, which wraps.
TooLarge(w) == w >= TwoTo64

AsI64(w) == IF 2 * w >= TwoTo64 THEN w - TwoTo64 ELSE w

\* Variant: a full batch does not move the loop on.
RangeEndStuck(s, bn) == IF bn - s > BatchSize THEN s ELSE bn

\* The last block of the next range, which is also where the loop goes on.
RangeEnd(s, bn) == IF bn - s > BatchSize THEN s + BatchSize ELSE bn

\* Variant: the block of the newest row is taken to be complete.
ResumeAfter(maxBlock) == IF maxBlock >= StartBlock THEN maxBlock + 1 ELSE StartBlock

\* Where a listener starts when the newest row of its table is of maxBlock.
Resume(maxBlock) == IF maxBlock > StartBlock THEN maxBlock ELSE StartBlock

-----------------------------------------------------------------------------
\* main() has read the block number once before the services are launched.
LoopInit ==
    /\ head \in 0..MaxHead
    /\ latest = head
    /\ pc = [t \in Tasks |-> "boot"]
    /\ start = [t \in Tasks |-> StartBlock]
    /\ from = [t \in Tasks |-> StartBlock]
    /\ pending = [t \in Tasks |-> {}]
    /\ crashes = 0
    /\ lost = {}

NewBlock ==
    /\ head < MaxHead
    /\ head' = head + 1
    /\ UNCHANGED <<latest, pc, start, from, pending, crashes, lost>>

\* The Providers loop stores the block number it has been answered, which may
\* have been overtaken by the chain meanwhile.
StoreLatest ==
    /\ latest' \in (latest + 1)..head
    /\ UNCHANGED <<head, pc, start, from, pending, crashes, lost>>

\* watch_event!: the listener starts at block b, what Resume makes of its
\* table or, when the query fails, StartBlock.
Boot(t, b) ==
    /\ pc[t] = "boot"
    /\ start' = [start EXCEPT ![t] = b]
    /\ pc' = [pc EXCEPT ![t] = "poll"]
    /\ UNCHANGED <<head, latest, from, pending, crashes, lost>>

\* The top of the loop: the next range is chosen and start is moved to its end
\* before the range is fetched.  Nothing happens while start has caught up.
Poll(t) ==
    LET s == SkipTo(start[t], latest) IN
    /\ pc[t] = "poll"
    /\ s < latest
    /\ from' = [from EXCEPT ![t] = s]
    /\ start' = [start EXCEPT ![t] = RangeEnd(s, latest)]
    /\ pc' = [pc EXCEPT ![t] = "fetch"]
    /\ lost' = lost \cup LogsIn(t, start[t], s - 1)
    /\ UNCHANGED <<head, latest, pending, crashes>>

FetchOk(t) ==
    /\ pc[t] = "fetch"
    /\ pending' = [pending EXCEPT ![t] = LogsIn(t, from[t], start[t])]
    /\ pc' = [pc EXCEPT ![t] = "handle"]
    /\ UNCHANGED <<head, latest, start, from, crashes, lost>>

\* The error is logged and the loop continues, from where start already is:
\* of the range only its last block will be asked for again.
FetchFails(t) ==
    /\ pc[t] = "fetch"
    /\ pc' = [pc EXCEPT ![t] = "poll"]
    /\ lost' = lost \cup LogsIn(t, from[t], start[t] - 1)
    /\ UNCHANGED <<head, latest, start, from, pending, crashes>>

\* Variant: the logs of a batch are handled in any order.
IsPending(t, l) == pc[t] = "handle" /\ l \in pending[t]

IsNext(t, l) ==
    /\ pc[t] = "handle"
    /\ l \in pending[t]
    /\ \A m \in pending[t] : ~Before(m, l)

\* for l in logs: the next log of the batch is given to the handler.
Consume(t, l) ==
    /\ IsNext(t, l)
    /\ pending' = [pending EXCEPT ![t] = @ \ {l}]
    /\ UNCHANGED <<head, latest, pc, start, from, crashes>>

\* The handler returned an error for l: it is logged and the loop goes on to
\* the next log.  The last block of the range is asked for again next time.
PassedOver(t, l) == IF l.block < start[t] THEN {l} ELSE {}

\* The handler panics on l: the task of the listener is gone till the process
\* is restarted, when it will be given l again.
Dies(t, l) ==
    /\ IsNext(t, l)
    /\ pc' = [pc EXCEPT ![t] = "dead"]
    /\ UNCHANGED <<head, latest, start, from, pending, crashes, lost>>

BatchDone(t) ==
    /\ pc[t] = "handle"
    /\ pending[t] = {}
    /\ pc' = [pc EXCEPT ![t] = "poll"]
    /\ UNCHANGED <<head, latest, start, from, pending, crashes, lost>>

\* The process ends at any point and is started again: the tables stay, every
\* loop is back at its first step and latest_block is read afresh.
Restart ==
    /\ crashes < MaxCrashes
    /\ crashes' = crashes + 1
    /\ latest' = head
    /\ pc' = [t \in Tasks |-> "boot"]
    /\ start' = [t \in Tasks |-> StartBlock]
    /\ from' = [t \in Tasks |-> StartBlock]
    /\ pending' = [t \in Tasks |-> {}]
    /\ UNCHANGED <<head, lost>>

-----------------------------------------------------------------------------
LoopTypeOK ==
    /\ head \in 0..MaxHead
    /\ latest \in 0..MaxHead
    /\ pc \in [Tasks -> {"boot", "poll", "fetch", "handle", "dead"}]
    /\ start \in [Tasks -> Nat]
    /\ from \in [Tasks -> Nat]
    /\ pending \in [Tasks -> SUBSET Logs]
    /\ crashes \in 0..MaxCrashes
    /\ lost \subseteq Logs
=============================================================================
