------------------------------ MODULE Providers ------------------------------
(***************************************************************************)
(* The Providers service of src/services/providers.rs for one chain: the     *)
(* heartbeat, which asks for the block number, stores it, shows it in the    *)
(* monitoring record and makes a new connection when it gets no answer.      *)
(* Beside it, what shares the connection and the record: the get_logs! loops *)
(* of src/services/contract_watcher.rs, reduced to the block number they     *)
(* work with, the connection they have taken and the entry they leave.       *)
(*                                                                          *)
(* web3, latest_block and the monitoring map are behind three locks, each   *)
(* held for one access: every access is a step of its own.                  *)
(*                                                                          *)
(* Environment: the chain only grows; a connection may break at any time,    *)
(* and then answers no more; a request may fail on any connection.           *)
(***************************************************************************)
EXTENDS Integers, Sequences

CONSTANTS
    Listeners,   \* the get_logs! loops of the chain
    MaxEvents,   \* the longest events list, 30 in get_logs!
    MaxHead,     \* bound: the chain grows up to this block
    MaxCrashes   \* bound: the process is restarted at most so often

ASSUME ProvidersAssumption ==
    /\ MaxEvents \in Nat \ {0}
    /\ MaxHead \in Nat
    /\ MaxCrashes \in Nat

VARIABLES
    head,      \* the chain's last block
    up,        \* the connection in Web3Node.web3 is not broken
    latest,    \* Web3Node.latest_block
    beat,      \* where the heartbeat is
    answer,    \* bn of the heartbeat
    shown,     \* Monitoring.current_block
    events,    \* Monitoring.events, as [event, update_block]
    at,        \* where each listener is
    start,     \* start_block of each listener
    bn,        \* bn of each listener
    socket,    \* the connection each listener has taken: "shared", "old" or "broken"
    crashes    \* restarts so far

beatVars == <<up, beat, answer, shown>>
listenerVars == <<at, start, bn, socket, events>>
vars == <<head, latest, beatVars, listenerVars, crashes>>

-----------------------------------------------------------------------------
\* get_providers: main() has connected and asked once before any loop starts.
\* A record that is not there yet reads as Monitoring::default().
Init ==
    /\ head \in 0..MaxHead
    /\ up = TRUE
    /\ latest = head
    /\ beat = "idle"
    /\ answer = head
    /\ shown = 0
    /\ events = << >>
    /\ at = [t \in Listeners |-> "poll"]
    /\ start \in [Listeners -> 0..MaxHead]
    /\ bn = [t \in Listeners |-> 0]
    /\ socket = [t \in Listeners |-> "shared"]
    /\ crashes = 0

NewBlock ==
    /\ head < MaxHead
    /\ head' = head + 1
    /\ UNCHANGED <<latest, beatVars, listenerVars, crashes>>

\* The shared connection breaks, and with it the clones taken of it.
Break ==
    /\ up
    /\ up' = FALSE
    /\ socket' = [t \in Listeners |-> IF socket[t] = "shared" THEN "broken" ELSE socket[t]]
    /\ UNCHANGED <<head, latest, beat, answer, shown, at, start, bn, events, crashes>>

\* Variant: the listeners begin behind the block they resume from.
RestartBehind ==
    /\ crashes < MaxCrashes
    /\ crashes' = crashes + 1
    /\ up' = TRUE
    /\ latest' = head
    /\ beat' = "idle"
    /\ answer' = head
    /\ shown' = 0
    /\ events' = << >>
    /\ at' = [t \in Listeners |-> "poll"]
    /\ start' \in [Listeners -> 1..(MaxHead + 1)]
    /\ bn' = [t \in Listeners |-> 0]
    /\ socket' = [t \in Listeners |-> "shared"]
    /\ UNCHANGED head

\* The process ends and is started again; the listeners resume from a table.
Restart ==
    /\ crashes < MaxCrashes
    /\ crashes' = crashes + 1
    /\ up' = TRUE
    /\ latest' = head
    /\ beat' = "idle"
    /\ answer' = head
    /\ shown' = 0
    /\ events' = << >>
    /\ at' = [t \in Listeners |-> "poll"]
    /\ start' \in [Listeners -> 0..MaxHead]
    /\ bn' = [t \in Listeners |-> 0]
    /\ socket' = [t \in Listeners |-> "shared"]
    /\ UNCHANGED head

-----------------------------------------------------------------------------
(* The heartbeat.                                                           *)

Ask ==
    /\ beat = "idle"
    /\ beat' = "asked"
    /\ UNCHANGED <<head, latest, up, answer, shown, listenerVars, crashes>>

Answer ==
    /\ beat = "asked"
    /\ up
    /\ beat' = "answered"
    /\ answer' = head
    /\ UNCHANGED <<head, latest, up, shown, listenerVars, crashes>>

\* Variant: an error counts as block 0.
AskFailsAsZero ==
    /\ beat = "asked"
    /\ beat' = "answered"
    /\ answer' = 0
    /\ UNCHANGED <<head, latest, up, shown, listenerVars, crashes>>

\* No answer, whatever the reason: a new connection is tried.
AskFails ==
    /\ beat = "asked"
    /\ beat' = "connect"
    /\ UNCHANGED <<head, latest, up, answer, shown, listenerVars, crashes>>

\* Variant: the new connection is made but not put in place.
ConnectUnused ==
    /\ beat = "connect"
    /\ beat' = "idle"
    /\ UNCHANGED <<head, latest, up, answer, shown, listenerVars, crashes>>

\* The new connection takes the place of the shared one.  Who has taken the
\* old one goes on with it.
Connect ==
    /\ beat = "connect"
    /\ beat' = "idle"
    /\ up' = TRUE
    /\ socket' = [t \in Listeners |-> IF socket[t] = "shared" THEN "old" ELSE socket[t]]
    /\ UNCHANGED <<head, latest, answer, shown, at, start, bn, events, crashes>>

\* The old connection stays in place and is asked again, after a while.
ConnectFails ==
    /\ beat = "connect"
    /\ beat' = "idle"
    /\ UNCHANGED <<head, latest, up, answer, shown, listenerVars, crashes>>

Store ==
    /\ beat = "answered"
    /\ beat' = "stored"
    /\ latest' = answer
    /\ UNCHANGED <<head, up, answer, shown, listenerVars, crashes>>

\* Variant: the record is only filled in when it is made.
ShowOnce ==
    /\ beat = "stored"
    /\ beat' = "idle"
    /\ shown' = IF shown = 0 THEN answer ELSE shown
    /\ UNCHANGED <<head, latest, up, answer, listenerVars, crashes>>

Show ==
    /\ beat = "stored"
    /\ beat' = "idle"
    /\ shown' = answer
    /\ UNCHANGED <<head, latest, up, answer, listenerVars, crashes>>

-----------------------------------------------------------------------------
(* The listeners.                                                           *)

\* The listener takes block number and connection and moves on by a range,
\* which with a batch size or skip_old may end anywhere up to the number.
Poll(t) ==
    /\ at[t] = "poll"
    /\ \E e \in (start[t] + 1)..latest : start' = [start EXCEPT ![t] = e]
    /\ bn' = [bn EXCEPT ![t] = latest]
    /\ socket' = [socket EXCEPT ![t] = IF up THEN "shared" ELSE "broken"]
    /\ at' = [at EXCEPT ![t] = "fetch"]
    /\ UNCHANGED <<head, latest, beatVars, events, crashes>>

\* The logs arrive and are handled.
Fetched(t) ==
    /\ at[t] = "fetch"
    /\ socket[t] # "broken"
    /\ at' = [at EXCEPT ![t] = "report"]
    /\ UNCHANGED <<head, latest, beatVars, start, bn, socket, events, crashes>>

\* The request fails: the round leaves no entry.
FetchFails(t) ==
    /\ at[t] = "fetch"
    /\ at' = [at EXCEPT ![t] = "poll"]
    /\ UNCHANGED <<head, latest, beatVars, start, bn, socket, events, crashes>>

\* The oldest entry makes room.
Room(s) == IF Len(s) >= MaxEvents THEN Tail(s) ELSE s

\* Variant: the newest entry comes first.
ReportFirst(t) ==
    /\ at[t] = "report"
    /\ events' = <<[event |-> t, update_block |-> bn[t]]>> \o Room(events)
    /\ at' = [at EXCEPT ![t] = "poll"]
    /\ UNCHANGED <<head, latest, beatVars, start, bn, socket, crashes>>

Report(t) ==
    /\ at[t] = "report"
    /\ events' = Append(Room(events), [event |-> t, update_block |-> bn[t]])
    /\ at' = [at EXCEPT ![t] = "poll"]
    /\ UNCHANGED <<head, latest, beatVars, start, bn, socket, crashes>>

-----------------------------------------------------------------------------
Environment == NewBlock \/ Break \/ Restart

Heartbeat == Ask \/ Answer \/ AskFails \/ Connect \/ ConnectFails \/ Store \/ Show

Listener(t) == Poll(t) \/ Fetched(t) \/ FetchFails(t) \/ Report(t)

Next == Environment \/ Heartbeat \/ \E t \in Listeners : Listener(t)

Spec == Init /\ [][Next]_vars

(***************************************************************************)
(* The runtime keeps polling the loop and every await of it ends.  Who keeps *)
(* trying gets a connection, now and then one that lives until it is asked,   *)
(* and who asks again and again is answered in the end.  Connections may go  *)
(* on breaking and requests failing forever.                                *)
(***************************************************************************)
Fairness ==
    WF_vars(Heartbeat) /\ SF_vars(Connect) /\ SF_vars(Ask /\ up) /\ SF_vars(Answer)

FairSpec == Spec /\ Fairness

-----------------------------------------------------------------------------
Entries == [event : Listeners, update_block : 0..MaxHead]

TypeOK ==
    /\ head \in 0..MaxHead
    /\ up \in BOOLEAN
    /\ latest \in 0..MaxHead
    /\ beat \in {"idle", "asked", "answered", "stored", "connect"}
    /\ answer \in 0..MaxHead
    /\ shown \in 0..MaxHead
    /\ events \in Seq(Entries)
    /\ at \in [Listeners -> {"poll", "fetch", "report"}]
    /\ start \in [Listeners -> 0..MaxHead]
    /\ bn \in [Listeners -> 0..MaxHead]
    /\ socket \in [Listeners -> {"shared", "old", "broken"}]
    /\ crashes \in 0..MaxCrashes

\* /monitoring shows the block number the services work with, whichever of
\* them made the record, but before the first beat of the process and between
\* the two locks of a beat.
ShownIsLatest == shown = latest \/ shown = 0 \/ beat = "stored"

\* The list tells the rounds of a listener in their order, none of them ahead
\* of what the listener is at or of what the services know, although
\* connections are replaced and restarts begin the list anew.
ReportsInOrder ==
    /\ Len(events) <= MaxEvents
    /\ \A i \in DOMAIN events :
         /\ events[i].update_block <= bn[events[i].event]
         /\ events[i].update_block <= latest
    /\ \A i, j \in DOMAIN events :
         i < j /\ events[i].event = events[j].event =>
             events[i].update_block <= events[j].update_block

\* The promise of BlockClock: over failing answers, new connections and
\* restarts, latest_block is real and never goes back.
Clock == INSTANCE BlockClock

ClockSpec == Clock!Spec

\* However often the connection breaks, a block of the chain becomes known to
\* the services and is shown.
EventuallyKnown == \A b \in 1..MaxHead : (head >= b) ~> (latest >= b /\ shown >= b)
=============================================================================
