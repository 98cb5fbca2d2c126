----------------------------- MODULE IpfsWatcher -----------------------------
(***************************************************************************)
(* The IPFS service of src/services/ipfs_watcher.rs: for every chain the     *)
(* loops pin_chain_cids, retry_failed_cids and unpin_cids, and the detached  *)
(* tasks they spawn to pin a cid to a node or to unpin it.                  *)
(*                                                                          *)
(* A turn of a loop has two steps: it reads latest_block, and later, when it *)
(* gets the connection, runs its statements with the number it has read.  The *)
(* service shares one connection, so the statements of one turn are not      *)
(* interleaved with those of another turn or task; an event the contract     *)
(* service inserts between the two statements of a turn has the effect of one *)
(* inserted before or after them.  The tasks are spawned, not awaited: they   *)
(* run at their own pace against node and database, also when the loop is on *)
(* its next turn, and end with the process; what they have asked of a node by *)
(* then may still be done.                                                  *)
(*                                                                          *)
(* Environment: event_update_valid_block is filled with Donations, in any    *)
(* order (the contract service does that), latest_block only grows (the      *)
(* Providers service), and a node keeps a set of pinned cids.                *)
(***************************************************************************)
EXTENDS HosqDb

CONSTANTS
    Chains,      \* the configured providers' chains
    Nodes,       \* the configured IPFS nodes
    Cids,
    Donations,   \* events [chain, cid, end] that may be indexed
    Faults,      \* what can go wrong: "refused", "answer_lost", "db"
    MaxBlock,    \* bound: chains grow up to this block
    MaxCopies,   \* bound: so many tasks in flight for the same row
    MaxCrashes   \* bound: the process is restarted at most so often

ASSUME IpfsAssumption ==
    /\ Donations \subseteq [chain : Chains, cid : Cids, end : Int]
    /\ MaxBlock \in Nat
    /\ MaxCopies \in Nat \ {0}
    /\ MaxCrashes \in Nat

VARIABLES
    latest,   \* latest[c]: Web3Node.latest_block of chain c
    euvb,     \* event_update_valid_block
    pinned,   \* pinned_cids
    failed,   \* failed_pins
    pins,     \* the pairs <<node, cid>> that are pinned out there
    bn,       \* bn[c][loop]: the block number a turn works with
    flying,   \* flying[t]: how many tasks are at t
    crashes   \* restarts so far

vars == <<latest, euvb, pinned, failed, pins, bn, flying, crashes>>

Loops == {"pin", "retry", "unpin"}

\* The loop is between two turns.
Asleep == -1

Ends == { d.end : d \in Donations }

Rows == [chain : Chains, node : Nodes, cid : Cids, end : Ends]

(***************************************************************************)
(* Where a task is.  "pin": about to post pin/add, noting a failure in       *)
(* failed_pins (store_failed); "retry": the same without noting it; "record": *)
(* pinned, about to add the row; "note": failed, about to note it; "rm":     *)
(* about to post pin/rm; "delete": unpinned, about to delete the row.        *)
(* Strays are the requests, to pin or to unpin, of a process that has ended.  *)
(***************************************************************************)
Stages == {"pin", "retry", "record", "note", "rm", "delete"}

Strays == {"stray_pin", "stray_rm"}

TaskStates == [at : Stages \cup Strays, row : Rows]

Task(stage, r) == [at |-> stage, row |-> r]

\* The tasks there are for a row.
InFlight(r) ==
    LET At(stage) == flying[Task(stage, r)] IN
    At("pin") + At("retry") + At("record") + At("note") + At("rm") + At("delete")

Copy(r) == <<r.node, r.cid>>

\* A cycle starts a task for each of S; the bound stops further copies.
Spawned(S) ==
    [t \in TaskStates |-> IF t \in S /\ InFlight(t.row) < MaxCopies
                     THEN flying[t] + 1 ELSE flying[t]]

Expired(r) == r.end # Forever /\ r.end <= latest[r.chain]

-----------------------------------------------------------------------------
Init ==
    /\ latest \in [Chains -> 0..MaxBlock]
    /\ euvb = {}
    /\ pinned = {}
    /\ failed = {}
    /\ pins = {}
    /\ bn = [c \in Chains |-> [loop \in Loops |-> Asleep]]
    /\ flying = [t \in TaskStates |-> 0]
    /\ crashes = 0

\* The Providers service learns of new blocks.
NewBlock(c) ==
    /\ \E b \in (latest[c] + 1)..MaxBlock : latest' = [latest EXCEPT ![c] = b]
    /\ UNCHANGED <<euvb, pinned, failed, pins, bn, flying, crashes>>

\* The contract service indexes an event.
Donate(d) ==
    /\ d \notin euvb
    /\ euvb' = AddValidBlock(euvb, d)
    /\ UNCHANGED <<latest, pinned, failed, pins, bn, flying, crashes>>

\* What is on its way to the nodes when the process ends.
Stranded ==
    [t \in TaskStates |->
        CASE t.at = "stray_pin" ->
               flying[t] + flying[Task("pin", t.row)] + flying[Task("retry", t.row)]
          [] t.at = "stray_rm" -> flying[t] + flying[Task("rm", t.row)]
          [] OTHER -> 0]

\* The process ends and is started again: tables and nodes are as they were, a
\* request may have been sent, main() reads the block numbers afresh.
Crash ==
    /\ crashes < MaxCrashes
    /\ crashes' = crashes + 1
    /\ latest' \in [Chains -> 0..MaxBlock]
    /\ \A c \in Chains : latest'[c] >= latest[c]
    /\ bn' = [c \in Chains |-> [loop \in Loops |-> Asleep]]
    /\ flying' = Stranded
    /\ UNCHANGED <<euvb, pinned, failed, pins>>

-----------------------------------------------------------------------------
(* The loops.                                                               *)

\* A turn begins.  main() has set latest_block before the service starts and
\* nothing sets it to None again.
Look(c, loop) ==
    /\ bn[c][loop] = Asleep
    /\ bn' = [bn EXCEPT ![c][loop] = latest[c]]
    /\ UNCHANGED <<latest, euvb, pinned, failed, pins, flying, crashes>>

\* A turn ends, having started the tasks S.
TurnEnds(c, loop, S) ==
    /\ bn[c][loop] # Asleep
    /\ bn' = [bn EXCEPT ![c][loop] = Asleep]
    /\ flying' = Spawned(S)
    /\ UNCHANGED <<latest, euvb, pins, crashes>>

\* Variant: the loop over the nodes stops after the first.
PinTasksOneNode(new) ==
    { Task("pin", [chain |-> d.chain, node |-> CHOOSE n \in Nodes : TRUE,
                   cid |-> d.cid, end |-> d.end]) : d \in new }

\* pin_unpin_cid(.., true): one task for every node.
PinTasks(new) ==
    { Task("pin", [chain |-> d.chain, node |-> n, cid |-> d.cid, end |-> d.end]) :
        d \in new, n \in Nodes }

\* pin_chain_cids: the end blocks are updated, then the new cids are pinned.
PinTurn(c) ==
    \E f \in ExtensionChoices(pinned, euvb, c, bn[c]["pin"]) :
        /\ ~KeyViolated(pinned, f)
        /\ pinned' = Extended(pinned, f)
        /\ TurnEnds(c, "pin", PinTasks(NewCids(euvb, pinned', c, bn[c]["pin"])))
        /\ UNCHANGED failed

\* The update fails, because of the key or of the database: with it the turn.
UpdateFails(c) ==
    /\ \/ \E f \in ExtensionChoices(pinned, euvb, c, bn[c]["pin"]) : KeyMayBeViolated(pinned, f)
       \/ "db" \in Faults
    /\ TurnEnds(c, "pin", {})
    /\ UNCHANGED <<pinned, failed>>

\* The update went through, the query for the new cids fails.
PinQueryFails(c) ==
    /\ "db" \in Faults
    /\ \E f \in ExtensionChoices(pinned, euvb, c, bn[c]["pin"]) :
          /\ ~KeyViolated(pinned, f)
          /\ pinned' = Extended(pinned, f)
    /\ TurnEnds(c, "pin", {})
    /\ UNCHANGED failed

\* retry_failed_cids: what was noted as failed is tried again, on its node, as
\* long as it is worth it.  That it succeeds does not take the note away.
RetryTurn(c) ==
    /\ failed' = DeleteExpiredFailed(failed, c, bn[c]["retry"])
    /\ \/ TurnEnds(c, "retry", { Task("retry", r) : r \in FailedCids(failed', c, bn[c]["retry"]) })
       \/ "db" \in Faults /\ TurnEnds(c, "retry", {})
    /\ UNCHANGED pinned

\* unpin_cids: expired rows of cids that another chain has too are dropped,
\* what remains expired is unpinned from the node of the row.
UnpinTurn(c) ==
    /\ pinned' = DeleteMultichainExpired(pinned, c, bn[c]["unpin"])
    /\ \/ TurnEnds(c, "unpin", { Task("rm", r) : r \in SingleChainExpired(pinned', c, bn[c]["unpin"]) })
       \/ "db" \in Faults /\ TurnEnds(c, "unpin", {})
    /\ UNCHANGED failed

\* The first statement of a turn of retry_failed_cids or unpin_cids fails.
TurnFails(c, loop) ==
    /\ "db" \in Faults
    /\ TurnEnds(c, loop, {})
    /\ UNCHANGED <<pinned, failed>>

-----------------------------------------------------------------------------
(* The tasks.                                                               *)

\* A task at t goes on to u.
GoesOn(t, u) ==
    /\ flying[t] > 0
    /\ flying' = [flying EXCEPT ![t] = @ - 1, ![u] = @ + 1]
    /\ UNCHANGED <<latest, euvb, bn, crashes>>

\* A task at t is done.
IsDone(t) ==
    /\ flying[t] > 0
    /\ flying' = [flying EXCEPT ![t] = @ - 1]
    /\ UNCHANGED <<latest, euvb, bn, crashes>>

\* pin_cid_to_node: the node pins the cid, anew or again, and says so.
PinOk(r) ==
    /\ \E stage \in {"pin", "retry"} : GoesOn(Task(stage, r), Task("record", r))
    /\ pins' = pins \cup {Copy(r)}
    /\ UNCHANGED <<pinned, failed>>

\* Variant: the status of the answer is not looked at.
PinUnchecked(r) ==
    /\ GoesOn(Task("pin", r), Task("record", r))
    /\ UNCHANGED <<pinned, failed, pins>>

\* Variant: a failure is not noted (store_failed is false).
PinFailsUnnoted(r) ==
    /\ \/ "refused" \in Faults /\ UNCHANGED pins
       \/ "answer_lost" \in Faults /\ pins' = pins \cup {Copy(r)}
    /\ \E stage \in {"pin", "retry"} : IsDone(Task(stage, r))
    /\ UNCHANGED <<pinned, failed>>

\* The node refuses or cannot be reached, or it pins and its answer is lost.
PinFails(r) ==
    /\ \/ "refused" \in Faults /\ UNCHANGED pins
       \/ "answer_lost" \in Faults /\ pins' = pins \cup {Copy(r)}
    /\ GoesOn(Task("pin", r), Task("note", r)) \/ IsDone(Task("retry", r))
    /\ UNCHANGED <<pinned, failed>>

\* The row is added; when it is already there the insert fails, to no effect.
Record(r) ==
    /\ IsDone(Task("record", r))
    /\ pinned' = AddCid(pinned, r) \/ ("db" \in Faults /\ UNCHANGED pinned)
    /\ UNCHANGED <<failed, pins>>

\* add_failed_pin_to_db
Note(r) ==
    /\ IsDone(Task("note", r))
    /\ failed' = AddFailedPin(failed, r) \/ ("db" \in Faults /\ UNCHANGED failed)
    /\ UNCHANGED <<pinned, pins>>

\* unpin_cid_from_node: the node unpins the cid, which it has pinned.
RmOk(r) ==
    /\ Copy(r) \in pins
    /\ GoesOn(Task("rm", r), Task("delete", r))
    /\ pins' = pins \ {Copy(r)}
    /\ UNCHANGED <<pinned, failed>>

\* A cid that is not pinned cannot be unpinned; otherwise as for pin/add.  The
\* row stays, for the next turn.
RmFails(r) ==
    /\ \/ (Copy(r) \notin pins \/ "refused" \in Faults) /\ UNCHANGED pins
       \/ "answer_lost" \in Faults /\ pins' = pins \ {Copy(r)}
    /\ IsDone(Task("rm", r))
    /\ UNCHANGED <<pinned, failed>>

Delete(r) ==
    /\ IsDone(Task("delete", r))
    /\ pinned' = DeleteCid(pinned, r) \/ ("db" \in Faults /\ UNCHANGED pinned)
    /\ UNCHANGED <<failed, pins>>

\* A request that has outlived its process is done, or never was.
Arrives(r) ==
    /\ \/ /\ IsDone(Task("stray_pin", r))
          /\ pins' = pins \cup {Copy(r)} \/ UNCHANGED pins
       \/ /\ IsDone(Task("stray_rm", r))
          /\ pins' = pins \ {Copy(r)} \/ UNCHANGED pins
    /\ UNCHANGED <<pinned, failed>>

-----------------------------------------------------------------------------
Turn(c) ==
    \/ \E loop \in Loops : Look(c, loop)
    \/ PinTurn(c) \/ UpdateFails(c) \/ PinQueryFails(c)
    \/ RetryTurn(c) \/ UnpinTurn(c)
    \/ \E loop \in {"retry", "unpin"} : TurnFails(c, loop)

TaskStep(r) ==
    \/ PinOk(r) \/ PinFails(r) \/ Record(r) \/ Note(r)
    \/ RmOk(r) \/ RmFails(r) \/ Delete(r)
    \/ Arrives(r)

Next ==
    \/ \E c \in Chains : NewBlock(c)
    \/ \E d \in Donations : Donate(d)
    \/ Crash
    \/ \E c \in Chains : Turn(c)
    \/ \E r \in Rows : TaskStep(r)

Spec == Init /\ [][Next]_vars

(***************************************************************************)
(* The runtime keeps polling loops and tasks, a statement ends with a result *)
(* or an error, and so does a request.  A node that is asked again and again *)
(* to pin, or to unpin what it has pinned, does so in the end.              *)
(***************************************************************************)
Fairness ==
    /\ \A c \in Chains :
         /\ \A loop \in Loops : WF_vars(Look(c, loop))
         /\ WF_vars(PinTurn(c) \/ UpdateFails(c) \/ PinQueryFails(c))
         /\ WF_vars(RetryTurn(c) \/ TurnFails(c, "retry"))
         /\ WF_vars(UnpinTurn(c) \/ TurnFails(c, "unpin"))
    /\ \A r \in Rows :
         /\ WF_vars(PinOk(r) \/ PinFails(r)) /\ SF_vars(PinOk(r))
         /\ WF_vars(RmOk(r) \/ RmFails(r)) /\ SF_vars(RmOk(r))
         /\ WF_vars(Record(r)) /\ WF_vars(Note(r)) /\ WF_vars(Delete(r))
         /\ WF_vars(Arrives(r))

FairSpec == Spec /\ Fairness

-----------------------------------------------------------------------------
TypeOK ==
    /\ latest \in [Chains -> 0..MaxBlock]
    /\ euvb \subseteq Donations
    /\ pinned \subseteq Rows
    /\ failed \subseteq Rows
    /\ pins \subseteq Nodes \X Cids
    /\ bn \in [Chains -> [Loops -> 0..MaxBlock \cup {Asleep}]]
    /\ flying \in [TaskStates -> Nat]
    /\ crashes \in 0..MaxCrashes

EventOf(r) == [chain |-> r.chain, cid |-> r.cid, end |-> r.end]

\* Nothing is recorded, noted or unpinned but for an event that was indexed with
\* that very end block, however often rows were moved to later ends; and nothing
\* is pinned but for an event of its cid.
Backed ==
    /\ \A r \in pinned \cup failed : EventOf(r) \in euvb
    /\ \A t \in TaskStates : flying[t] > 0 => EventOf(t.row) \in euvb
    /\ \A p \in pins : \E d \in euvb : d.cid = p[2]

\* A task that unpins is after a row whose end block is behind the chain, no
\* matter how old the block number was that its turn went by, and also when its
\* request has outlived the process.
OnlyExpiredUnpinned ==
    \A r \in Rows, stage \in {"rm", "delete", "stray_rm"} :
        flying[Task(stage, r)] > 0 => Expired(r)

\* While its end block is ahead of the chain a row is not removed, only moved
\* to a later end, by whichever loop, task, failure or restart.
\* Rows that never end are excepted: update_existing_cids_end_block compares -1
\* as a number and gives them the end of any later event.
UnexpiredKept ==
    [][\A r \in pinned : r.end # Forever /\ ~Expired(r) =>
          \E q \in pinned' : Copy(q) = Copy(r) /\ q.chain = r.chain /\ q.end >= r.end]_vars

\* The last row of a cid goes only after a node has unpinned the cid: dropping
\* the rows of one chain in favour of another's never leaves a cid without one,
\* also when both chains have expired.
LastRowByUnpin ==
    [][\A k \in Cids :
          (\E r \in pinned : r.cid = k) /\ (\A r \in pinned' : r.cid # k) =>
              \E r \in Rows : r.cid = k /\ Delete(r)]_vars

\* The promise of PinLedger.
Ledger == INSTANCE PinLedger WITH
              Never <- Forever, block <- latest, events <- euvb, rows <- pinned

LedgerSpec == Ledger!Spec

-----------------------------------------------------------------------------
(* What tables, tasks and nodes tell of one another.                         *)

\* What pinned_cids says is pinned till a block to come is pinned.  True of a
\* cid that is paid for once; otherwise see UnpinnedByAnEnd.
RecordedIsPinned == \A r \in pinned : Expired(r) \/ Copy(r) \in pins

\* A row whose cid is not on its node has lost it to an end: some term of that
\* cid, of whatever chain, is over.  No other failure, restart or overlapping
\* of tasks takes the cid from a node that is said to have it.
UnpinnedByAnEnd ==
    \A r \in pinned : Copy(r) \in pins \/ \E d \in euvb : d.cid = r.cid /\ Expired(d)

\* There is a row, or a note or task that leads to one.
Accounted(r) ==
    \/ r \in pinned \cup failed
    \/ \E stage \in {"pin", "record", "note"} : flying[Task(stage, r)] > 0

\* The cid has been paid for once on the chain, and not for ever.
OneTerm(r) ==
    /\ r.end # Forever
    /\ \A d \in euvb : d.chain = r.chain /\ d.cid = r.cid => d.end = r.end

\* No node is forgotten: when one has a row of a cid till a block to come, every
\* other node is accounted for, though get_new_cids does not return the cid any
\* more.  A restart loses the tasks, and a failing database their rows.
EveryNodeAccounted ==
    crashes = 0 /\ "db" \notin Faults =>
        \A r \in pinned, n \in Nodes :
            OneTerm(r) /\ ~Expired(r) => Accounted([r EXCEPT !.node = n])

\* No pin gets off the books before a term of its cid is over: also when the
\* answer to pin/add is lost, a row, a note or a task knows of the copy.  Of a
\* cid that is paid for for ever the note is deleted at once.
PinsOnTheBooks ==
    crashes = 0 /\ "db" \notin Faults =>
        \A p \in pins :
            \/ \E r \in Rows : Copy(r) = p /\ Accounted(r)
            \/ \E d \in euvb : <<p[1], d.cid>> = p /\ (d.end = Forever \/ Expired(d))

\* An indexed event gets a row on every node, till its end block or a later
\* one, unless it expires before.
EventuallyRecorded ==
    \A d \in Donations, n \in Nodes :
        d \in euvb ~>
            \/ Expired(d)
            \/ \E r \in pinned :
                  r.chain = d.chain /\ r.node = n /\ r.cid = d.cid /\ r.end >= d.end

\* Nothing is under way that could pin the copy again or take its row, neither a
\* task or a request nor a turn with a block number from before the end.
Quiet(r) ==
    /\ \A stage \in {"pin", "retry", "record", "delete", "stray_pin"} :
          flying[Task(stage, r)] = 0
    /\ \A loop \in {"pin", "retry"} :
          bn[r.chain][loop] = Asleep \/ bn[r.chain][loop] >= r.end
=============================================================================
