-------------------------- MODULE IpfsWatcherProofs --------------------------
(***************************************************************************)
(* Proofs about IpfsWatcher, for every set of chains, nodes, cids and events, *)
(* every fault and every bound.                                             *)
(*                                                                          *)
(* The invariant that carries them joins what the tables hold to what is in  *)
(* flight: a task outlives the turn that started it, so what the turn knew   *)
(* of the row has to stay true while events are indexed, rows are moved and  *)
(* the chain grows.                                                         *)
(***************************************************************************)
EXTENDS IpfsWatcher, TLAPS

\* Every row stems from an event with that very end.
RowsBacked == \A r \in pinned \cup failed : EventOf(r) \in euvb

Unpinning == {"rm", "delete", "stray_rm"}

\* So does every task, and one that unpins is after an expired row; the requests
\* that have outlived their process are no exception.
FlightInv ==
    \A t \in TaskStates : flying[t] > 0 =>
        /\ EventOf(t.row) \in euvb
        /\ t.at \in Unpinning => Expired(t.row)

\* A turn works with a block number the chain has reached.
Snapshots == \A c \in Chains, loop \in Loops : bn[c][loop] <= latest[c]

IInv == TypeOK /\ RowsBacked /\ FlightInv /\ Snapshots

USE IpfsAssumption

-----------------------------------------------------------------------------
(* What the statements do to rows and events.                               *)

(* An event is the event of the rows made of it.                            *)
LEMMA EventIsRecord ==
    ASSUME NEW d \in Donations
    PROVE  d = [chain |-> d.chain, cid |-> d.cid, end |-> d.end]
           /\ d.chain \in Chains /\ d.cid \in Cids /\ d.end \in Ends
BY DEF Ends

(* A cid is never pinned anew but for an indexed event of its chain.         *)
LEMMA NewCidsAreEvents ==
    ASSUME TypeOK, NEW rows, NEW c, NEW b
    PROVE  NewCids(euvb, rows, c, b) \subseteq euvb
<1> SUFFICES ASSUME NEW d \in NewCids(euvb, rows, c, b) PROVE d \in euvb
  OBVIOUS
<1>1. PICK e \in euvb : e.chain = c /\ d = [chain |-> c, cid |-> e.cid, end |-> e.end]
  BY DEF NewCids
<1>2. e \in Donations
  BY DEF TypeOK
<1>3. QED
  BY <1>1, <1>2, EventIsRecord

(* Updating the end blocks moves each row to the end of an event of its cid, *)
(* forward if at all, and makes no other change.                            *)
LEMMA UpdateMovesForward ==
    ASSUME TypeOK, NEW c, NEW b, NEW f \in ExtensionChoices(pinned, euvb, c, b),
           NEW p \in pinned
    PROVE  /\ Moved(p, f) \in Rows
           /\ Copy(Moved(p, f)) = Copy(p) /\ Moved(p, f).chain = p.chain
           /\ Moved(p, f).cid = p.cid
           /\ Moved(p, f) = p \/ (p.end < Moved(p, f).end /\ EventOf(Moved(p, f)) \in euvb)
           /\ Moved(p, f) = [p EXCEPT !.end = Moved(p, f).end]
<1>1. p \in Rows
  BY DEF TypeOK
<1>2. CASE p \in DOMAIN f
  <2>1. f[p] \in Extensions(p, euvb, c, b)
    BY <1>2 DEF ExtensionChoices
  <2>2. PICK e \in euvb : e.chain = p.chain /\ e.cid = p.cid /\ p.end < e.end /\ f[p] = e.end
    BY <2>1 DEF Extensions
  <2>3. e \in Donations
    BY DEF TypeOK
  <2>4. Moved(p, f) = [p EXCEPT !.end = e.end] /\ e.end \in Ends
    BY <1>2, <2>2, <2>3, EventIsRecord DEF Moved
  <2>5. Moved(p, f) \in Rows /\ Moved(p, f).end = e.end
        /\ Moved(p, f).chain = p.chain /\ Moved(p, f).cid = p.cid /\ Moved(p, f).node = p.node
    BY <1>1, <2>4 DEF Rows
  <2>6. EventOf(Moved(p, f)) = e
    BY <2>2, <2>3, <2>5, EventIsRecord DEF EventOf
  <2>7. QED
    BY <2>2, <2>4, <2>5, <2>6 DEF Copy
<1>3. CASE p \notin DOMAIN f
  <2>1. Moved(p, f) = p
    BY <1>3 DEF Moved
  <2>2. p = [p EXCEPT !.end = p.end]
    BY <1>1 DEF Rows
  <2>3. QED
    BY <1>1, <2>1, <2>2
<1>4. QED
  BY <1>2, <1>3

-----------------------------------------------------------------------------
(* What turns and tasks do to what is in flight.                            *)

LEMMA TaskType ==
    ASSUME NEW stage \in Stages \cup Strays, NEW r \in Rows
    PROVE  Task(stage, r) \in TaskStates /\ Task(stage, r).row = r /\ Task(stage, r).at = stage
BY DEF Task, TaskStates

(* The end of a turn starts no task but those asked for.                     *)
LEMMA TurnFlight ==
    ASSUME TypeOK, Snapshots, NEW c \in Chains, NEW loop \in Loops, NEW S,
           TurnEnds(c, loop, S)
    PROVE  /\ flying' \in [TaskStates -> Nat]
           /\ \A t \in TaskStates : flying'[t] > 0 => flying[t] > 0 \/ t \in S
           /\ bn' \in [Chains -> [Loops -> 0..MaxBlock \cup {Asleep}]]
           /\ UNCHANGED <<latest, euvb, pins, crashes>>
           /\ Snapshots'
           /\ bn[c][loop] \in 0..MaxBlock
<1>1. flying' = Spawned(S) /\ UNCHANGED <<latest, euvb, pins, crashes>>
      /\ bn' = [bn EXCEPT ![c][loop] = Asleep] /\ bn[c][loop] # Asleep
  BY DEF TurnEnds
<1>2. Spawned(S) \in [TaskStates -> Nat]
      /\ \A t \in TaskStates : Spawned(S)[t] > 0 => flying[t] > 0 \/ t \in S
  BY DEF Spawned, TypeOK
<1>3. bn' \in [Chains -> [Loops -> 0..MaxBlock \cup {Asleep}]] /\ bn[c][loop] \in 0..MaxBlock
  BY <1>1 DEF TypeOK
<1>4. Snapshots'
  BY <1>1 DEF Snapshots, Asleep, TypeOK
<1>5. QED
  BY <1>1, <1>2, <1>3, <1>4

(* A task that goes on leaves one stage for the other.                       *)
LEMMA GoesOnFlight ==
    ASSUME TypeOK, NEW t \in TaskStates, NEW u \in TaskStates, t # u, GoesOn(t, u)
    PROVE  /\ flying' \in [TaskStates -> Nat]
           /\ flying[t] > 0
           /\ \A x \in TaskStates : flying'[x] > 0 => flying[x] > 0 \/ x = u
           /\ UNCHANGED <<latest, euvb, bn, crashes>>
BY DEF GoesOn, TypeOK

LEMMA IsDoneFlight ==
    ASSUME TypeOK, NEW t \in TaskStates, IsDone(t)
    PROVE  /\ flying' \in [TaskStates -> Nat]
           /\ flying[t] > 0
           /\ \A x \in TaskStates : flying'[x] > 0 => flying[x] > 0
           /\ UNCHANGED <<latest, euvb, bn, crashes>>
BY DEF IsDone, TypeOK

(* What a process leaves behind stems from tasks that were in flight.        *)
LEMMA StrandedFlight ==
    ASSUME TypeOK
    PROVE  /\ Stranded \in [TaskStates -> Nat]
           /\ \A t \in TaskStates : Stranded[t] > 0 =>
                 /\ t.at \in Strays
                 /\ \E u \in TaskStates :
                       /\ flying[u] > 0 /\ u.row = t.row
                       /\ t.at \in Unpinning => u.at \in Unpinning
<1> SUFFICES ASSUME NEW t \in TaskStates
             PROVE  /\ Stranded[t] \in Nat
                    /\ Stranded[t] > 0 =>
                         /\ t.at \in Strays
                         /\ \E u \in TaskStates :
                               /\ flying[u] > 0 /\ u.row = t.row
                               /\ t.at \in Unpinning => u.at \in Unpinning
  BY DEF Stranded
<1>1. t.row \in Rows /\ t.at \in Stages \cup Strays
  BY DEF TaskStates
<1>2. \A stage \in {"pin", "retry", "rm"} :
        /\ Task(stage, t.row) \in TaskStates /\ flying[Task(stage, t.row)] \in Nat
        /\ Task(stage, t.row).row = t.row /\ Task(stage, t.row).at = stage
  BY <1>1, TaskType DEF Stages, TypeOK
<1>3. flying[t] \in Nat
  BY DEF TypeOK
<1>4. CASE t.at = "stray_pin"
  <2>1. Stranded[t] = flying[t] + flying[Task("pin", t.row)] + flying[Task("retry", t.row)]
    BY <1>4 DEF Stranded
  <2>2. /\ Stranded[t] \in Nat
        /\ Stranded[t] > 0 =>
             \/ flying[t] > 0
             \/ \E stage \in {"pin", "retry"} : flying[Task(stage, t.row)] > 0
    BY <1>2, <1>3, <2>1
  <2>3. t.at \in Strays /\ t.at \notin Unpinning
    BY <1>4 DEF Strays, Unpinning
  <2>4. QED
    BY <1>2, <2>2, <2>3
<1>5. CASE t.at = "stray_rm"
  <2>1. Stranded[t] = flying[t] + flying[Task("rm", t.row)]
    BY <1>5 DEF Stranded
  <2>2. /\ Stranded[t] \in Nat
        /\ Stranded[t] > 0 => flying[t] > 0 \/ flying[Task("rm", t.row)] > 0
    BY <1>2, <1>3, <2>1
  <2>3. t.at \in Strays /\ "rm" \in Unpinning
    BY <1>5 DEF Strays, Unpinning
  <2>4. QED
    BY <1>2, <2>2, <2>3
<1>6. CASE t.at \notin Strays
  <2>1. Stranded[t] = 0
    BY <1>6 DEF Stranded, Strays
  <2>2. QED
    BY <2>1
<1>7. QED
  BY <1>4, <1>5, <1>6 DEF Strays

(* The invariant holds after a step that keeps the types, does not turn the  *)
(* chain back or forget an event, and whose new rows and tasks are in order. *)
LEMMA Kept ==
    ASSUME IInv, TypeOK', Snapshots', euvb \subseteq euvb',
           \A c \in Chains : latest[c] <= latest'[c],
           \A r \in pinned' : r \in pinned \/ EventOf(r) \in euvb',
           \A r \in failed' : r \in failed \/ EventOf(r) \in euvb',
           \A t \in TaskStates : flying'[t] > 0 =>
               \/ flying[t] > 0
               \/ /\ EventOf(t.row) \in euvb'
                  /\ t.at \in Unpinning => Expired(t.row)'
    PROVE  IInv'
<1>1. RowsBacked'
  BY DEF IInv, RowsBacked, EventOf
<1>2. FlightInv'
  <2> SUFFICES ASSUME NEW t \in TaskStates, flying'[t] > 0
               PROVE  EventOf(t.row) \in euvb'
                      /\ (t.at \in Unpinning => Expired(t.row)')
    BY DEF FlightInv, EventOf
  <2>1. t.row \in Rows /\ t.row.chain \in Chains /\ t.row.end \in Int
    BY DEF TaskStates, Rows, Ends, Forever
  <2>2. latest[t.row.chain] \in Int /\ latest'[t.row.chain] \in Int
    BY <2>1 DEF IInv, TypeOK
  <2>3. Expired(t.row) => Expired(t.row)'
    BY <2>1, <2>2 DEF Expired
  <2>4. QED
    BY <2>3 DEF IInv, FlightInv
<1>3. QED
  BY <1>1, <1>2 DEF IInv

-----------------------------------------------------------------------------
LEMMA IInvInit == Init => IInv
<1> SUFFICES ASSUME Init PROVE IInv
  OBVIOUS
<1>1. TypeOK
  BY DEF Init, TypeOK, Asleep
<1>2. RowsBacked
  BY DEF Init, RowsBacked
<1>3. FlightInv
  BY DEF Init, FlightInv
<1>4. Snapshots
  BY DEF Init, Snapshots, Asleep
<1>5. QED
  BY <1>1, <1>2, <1>3, <1>4 DEF IInv

(* The tasks a turn of pin_chain_cids starts are for indexed events.         *)
LEMMA PinTasksBacked ==
    ASSUME TypeOK, NEW rows, NEW c, NEW b, NEW t \in PinTasks(NewCids(euvb, rows, c, b))
    PROVE  t \in TaskStates /\ t.at = "pin" /\ EventOf(t.row) \in euvb
<1>1. PICK d \in NewCids(euvb, rows, c, b), n \in Nodes :
        t = Task("pin", [chain |-> d.chain, node |-> n, cid |-> d.cid, end |-> d.end])
  BY DEF PinTasks
<1>2. d \in euvb /\ d \in Donations
  BY NewCidsAreEvents DEF TypeOK
<1> DEFINE r == [chain |-> d.chain, node |-> n, cid |-> d.cid, end |-> d.end]
<1>3. r \in Rows /\ EventOf(r) = d
  BY <1>2, EventIsRecord DEF Rows, EventOf
<1>4. "pin" \in Stages
  BY DEF Stages
<1>5. QED
  BY <1>1, <1>2, <1>3, <1>4, TaskType

(* What is expired by the number a turn works with is expired.               *)
LEMMA ExpiredForTurn ==
    ASSUME IInv, NEW c \in Chains, NEW rows \in SUBSET pinned,
           bn[c]["unpin"] \in 0..MaxBlock,
           NEW r \in ExpiredRows(rows, c, bn[c]["unpin"])
    PROVE  r \in pinned /\ r.chain = c /\ Expired(r)
<1>1. r \in rows /\ r.chain = c /\ r.end <= bn[c]["unpin"] /\ r.end # Forever
  BY DEF ExpiredRows
<1>2. bn[c]["unpin"] <= latest[c] /\ latest[c] \in Int
  BY DEF IInv, Snapshots, Loops, TypeOK
<1>3. r \in Rows /\ r.end \in Int
  BY <1>1 DEF IInv, TypeOK, Rows, Ends, Forever
<1>4. QED
  BY <1>1, <1>2, <1>3 DEF Expired

(* What a successful update leaves in pinned_cids.                          *)
LEMMA AfterUpdate ==
    ASSUME IInv, NEW c, NEW b, NEW f \in ExtensionChoices(pinned, euvb, c, b)
    PROVE  /\ Extended(pinned, f) \subseteq Rows
           /\ \A r \in Extended(pinned, f) : EventOf(r) \in euvb
<1> SUFFICES ASSUME NEW r \in Extended(pinned, f) PROVE r \in Rows /\ EventOf(r) \in euvb
  OBVIOUS
<1>1. PICK p \in pinned : r = Moved(p, f)
  BY DEF Extended
<1>2. QED
  BY <1>1, UpdateMovesForward DEF IInv, RowsBacked

(* The end of any turn keeps the invariant when the rows it leaves and the   *)
(* tasks it starts are in order.                                            *)
LEMMA TurnKeeps ==
    ASSUME IInv, NEW c \in Chains, NEW loop \in Loops, NEW S, TurnEnds(c, loop, S),
           pinned' \subseteq Rows, failed' \subseteq Rows,
           \A r \in pinned' \cup failed' : EventOf(r) \in euvb,
           \A t \in S : t \in TaskStates =>
               EventOf(t.row) \in euvb /\ (t.at \in Unpinning => Expired(t.row))
    PROVE  IInv'
<1>1. /\ flying' \in [TaskStates -> Nat]
      /\ \A t \in TaskStates : flying'[t] > 0 => flying[t] > 0 \/ t \in S
      /\ bn' \in [Chains -> [Loops -> 0..MaxBlock \cup {Asleep}]]
      /\ UNCHANGED <<latest, euvb, pins, crashes>>
      /\ Snapshots'
  BY TurnFlight DEF IInv
<1>2. TypeOK'
  BY <1>1 DEF IInv, TypeOK
<1>3. \A x \in Chains : latest[x] <= latest'[x]
  BY <1>1 DEF IInv, TypeOK
<1>4. \A t \in TaskStates : flying'[t] > 0 =>
        \/ flying[t] > 0
        \/ EventOf(t.row) \in euvb' /\ (t.at \in Unpinning => Expired(t.row)')
  BY <1>1 DEF Expired
<1>5. QED
  BY <1>1, <1>2, <1>3, <1>4, Kept

(* A step of a task keeps the invariant when the rows it leaves are in order *)
(* and the stage it moves to, if any, is.                                   *)
LEMMA TaskKeeps ==
    ASSUME IInv, NEW r \in Rows, flying' \in [TaskStates -> Nat],
           UNCHANGED <<latest, euvb, bn, crashes>>,
           pins' \subseteq Nodes \X Cids,
           EventOf(r) \in euvb,
           pinned' \subseteq pinned \cup {r}, failed' \subseteq failed \cup {r},
           \A t \in TaskStates : flying'[t] > 0 =>
               \/ flying[t] > 0
               \/ t.row = r /\ (t.at \in Unpinning => Expired(r))
    PROVE  IInv'
<1>1. TypeOK'
  BY DEF IInv, TypeOK
<1>2. Snapshots'
  BY DEF IInv, Snapshots
<1>3. \A x \in Chains : latest[x] <= latest'[x]
  BY DEF IInv, TypeOK
<1>4. \A q \in pinned' : q \in pinned \/ EventOf(q) \in euvb'
  OBVIOUS
<1>5. \A q \in failed' : q \in failed \/ EventOf(q) \in euvb'
  OBVIOUS
<1>6. \A t \in TaskStates : flying'[t] > 0 =>
        \/ flying[t] > 0
        \/ EventOf(t.row) \in euvb' /\ (t.at \in Unpinning => Expired(t.row)')
  BY DEF Expired
<1>7. QED
  BY <1>1, <1>2, <1>3, <1>4, <1>5, <1>6, Kept

(* A turn of any loop keeps the invariant.                                   *)
LEMMA TurnStep ==
    ASSUME IInv, NEW c \in Chains, Turn(c)
    PROVE  IInv'
<1> USE DEF Loops
<1>0. /\ pinned \subseteq Rows /\ failed \subseteq Rows
      /\ \A r \in pinned \cup failed : EventOf(r) \in euvb
  BY DEF IInv, TypeOK, RowsBacked
<1>1. ASSUME NEW loop \in Loops, Look(c, loop) PROVE IInv'
  <2>1. TypeOK' /\ Snapshots'
    BY <1>1 DEF IInv, TypeOK, Snapshots, Look
  <2>2. \A x \in Chains : latest[x] <= latest'[x]
    BY <1>1 DEF Look, IInv, TypeOK
  <2>3. QED
    BY <1>1, <2>1, <2>2, Kept DEF Look
<1>2. CASE PinTurn(c)
  <2>1. PICK f \in ExtensionChoices(pinned, euvb, c, bn[c]["pin"]) :
          /\ pinned' = Extended(pinned, f)
          /\ TurnEnds(c, "pin", PinTasks(NewCids(euvb, pinned', c, bn[c]["pin"])))
          /\ UNCHANGED failed
    BY <1>2 DEF PinTurn
  <2>2. pinned' \subseteq Rows /\ \A r \in pinned' \cup failed' : EventOf(r) \in euvb
    BY <1>0, <2>1, AfterUpdate
  <2>3. \A t \in PinTasks(NewCids(euvb, pinned', c, bn[c]["pin"])) :
          EventOf(t.row) \in euvb /\ t.at = "pin"
    BY PinTasksBacked DEF IInv
  <2>4. QED
    BY <1>0, <2>1, <2>2, <2>3, TurnKeeps DEF Unpinning
<1>3. CASE UpdateFails(c)
  BY <1>0, <1>3, TurnKeeps DEF UpdateFails
<1>4. CASE PinQueryFails(c)
  <2>1. PICK f \in ExtensionChoices(pinned, euvb, c, bn[c]["pin"]) : pinned' = Extended(pinned, f)
    BY <1>4 DEF PinQueryFails
  <2>2. TurnEnds(c, "pin", {}) /\ UNCHANGED failed
    BY <1>4 DEF PinQueryFails
  <2>3. pinned' \subseteq Rows /\ \A r \in pinned' \cup failed' : EventOf(r) \in euvb
    BY <1>0, <2>1, <2>2, AfterUpdate
  <2>4. QED
    BY <1>0, <2>2, <2>3, TurnKeeps
<1>5. CASE RetryTurn(c)
  <2>1. failed' \subseteq failed /\ UNCHANGED pinned
    BY <1>5 DEF RetryTurn, DeleteExpiredFailed
  <2> DEFINE S == { Task("retry", r) : r \in FailedCids(failed', c, bn[c]["retry"]) }
  <2>2. \A t \in S : EventOf(t.row) \in euvb /\ t.at = "retry"
    <3> SUFFICES ASSUME NEW r \in FailedCids(failed', c, bn[c]["retry"])
                 PROVE  EventOf(Task("retry", r).row) \in euvb /\ Task("retry", r).at = "retry"
      OBVIOUS
    <3>1. r \in failed /\ r \in Rows
      BY <1>0, <2>1 DEF FailedCids
    <3>2. QED
      BY <1>0, <3>1, TaskType DEF Stages
  <2>3. TurnEnds(c, "retry", S) \/ TurnEnds(c, "retry", {})
    BY <1>5 DEF RetryTurn
  <2> HIDE DEF S
  <2>4. QED
    BY <1>0, <2>1, <2>2, <2>3, TurnKeeps DEF Unpinning
<1>6. CASE UnpinTurn(c)
  <2>1. pinned' \subseteq pinned /\ UNCHANGED failed
    BY <1>6 DEF UnpinTurn, DeleteMultichainExpired
  <2> DEFINE S == { Task("rm", r) : r \in SingleChainExpired(pinned', c, bn[c]["unpin"]) }
  <2>2. TurnEnds(c, "unpin", S) \/ TurnEnds(c, "unpin", {})
    BY <1>6 DEF UnpinTurn
  <2>3. bn[c]["unpin"] \in 0..MaxBlock
    BY <2>2, TurnFlight DEF IInv
  <2>4. \A t \in S : EventOf(t.row) \in euvb /\ Expired(t.row)
    <3> SUFFICES ASSUME NEW r \in SingleChainExpired(pinned', c, bn[c]["unpin"])
                 PROVE  EventOf(Task("rm", r).row) \in euvb /\ Expired(Task("rm", r).row)
      OBVIOUS
    <3>1. r \in pinned /\ Expired(r)
      BY <2>1, <2>3, ExpiredForTurn DEF SingleChainExpired
    <3>2. QED
      BY <1>0, <3>1, TaskType DEF Stages
  <2> HIDE DEF S
  <2>5. QED
    BY <1>0, <2>1, <2>2, <2>4, TurnKeeps
<1>7. ASSUME NEW loop \in {"retry", "unpin"}, TurnFails(c, loop) PROVE IInv'
  BY <1>0, <1>7, TurnKeeps DEF TurnFails
<1>8. QED
  BY <1>1, <1>2, <1>3, <1>4, <1>5, <1>6, <1>7 DEF Turn

(* A step of any task keeps the invariant.                                   *)
LEMMA TaskInv ==
    ASSUME IInv, NEW r \in Rows, TaskStep(r)
    PROVE  IInv'
<1> DEFINE All == Stages \cup Strays
<1>0. /\ \A stage \in All : Task(stage, r) \in TaskStates /\ Task(stage, r).row = r
                            /\ Task(stage, r).at = stage
      /\ \A stage \in {"pin", "retry"} : Task(stage, r) # Task("record", r)
      /\ Task("pin", r) # Task("note", r) /\ Task("rm", r) # Task("delete", r)
      /\ "record" \notin Unpinning /\ "note" \notin Unpinning
      /\ "rm" \in Unpinning /\ "delete" \in Unpinning
      /\ All = {"pin", "retry", "record", "note", "rm", "delete", "stray_pin", "stray_rm"}
  BY TaskType DEF Stages, Strays, Task, Unpinning
<1> HIDE DEF All
<1>1. ASSUME NEW stage \in All, flying[Task(stage, r)] > 0
      PROVE  EventOf(r) \in euvb /\ (stage \in Unpinning => Expired(r))
  BY <1>0, <1>1 DEF IInv, FlightInv
<1>2. pins \subseteq Nodes \X Cids /\ Copy(r) \in Nodes \X Cids /\ TypeOK
  BY DEF IInv, TypeOK, Copy, Rows
<1>3. CASE PinOk(r)
  <2>1. PICK stage \in {"pin", "retry"} : GoesOn(Task(stage, r), Task("record", r))
    BY <1>3 DEF PinOk
  <2>2. QED
    BY <1>0, <1>1, <1>2, <1>3, <2>1, GoesOnFlight, TaskKeeps DEF PinOk
<1>4. CASE PinFails(r)
  <2>1. CASE GoesOn(Task("pin", r), Task("note", r))
    BY <1>0, <1>1, <1>2, <1>4, <2>1, GoesOnFlight, TaskKeeps DEF PinFails
  <2>2. CASE IsDone(Task("retry", r))
    BY <1>0, <1>1, <1>2, <1>4, <2>2, IsDoneFlight, TaskKeeps DEF PinFails
  <2>3. QED
    BY <1>4, <2>1, <2>2 DEF PinFails
<1>5. CASE Record(r)
  BY <1>0, <1>1, <1>2, <1>5, IsDoneFlight, TaskKeeps DEF Record, AddCid
<1>6. CASE Note(r)
  BY <1>0, <1>1, <1>2, <1>6, IsDoneFlight, TaskKeeps DEF Note, AddFailedPin
<1>7. CASE RmOk(r)
  BY <1>0, <1>1, <1>2, <1>7, GoesOnFlight, TaskKeeps DEF RmOk
<1>8. CASE RmFails(r)
  BY <1>0, <1>1, <1>2, <1>8, IsDoneFlight, TaskKeeps DEF RmFails
<1>9. CASE Delete(r)
  BY <1>0, <1>1, <1>2, <1>9, IsDoneFlight, TaskKeeps DEF Delete, DeleteCid
<1>10. CASE Arrives(r)
  BY <1>0, <1>1, <1>2, <1>10, IsDoneFlight, TaskKeeps DEF Arrives
<1>11. QED
  BY <1>3, <1>4, <1>5, <1>6, <1>7, <1>8, <1>9, <1>10 DEF TaskStep

LEMMA IInvStep == IInv /\ [Next]_vars => IInv'
<1> SUFFICES ASSUME IInv, [Next]_vars PROVE IInv'
  OBVIOUS
<1>1. CASE UNCHANGED vars
  BY <1>1 DEF vars, IInv, TypeOK, RowsBacked, FlightInv, Snapshots, EventOf, Expired
<1>2. ASSUME NEW c \in Chains, NewBlock(c) PROVE IInv'
  <2>1. TypeOK' /\ Snapshots'
    BY <1>2 DEF NewBlock, IInv, TypeOK, Snapshots, Loops, Asleep
  <2>2. \A x \in Chains : latest[x] <= latest'[x]
    BY <1>2 DEF NewBlock, IInv, TypeOK
  <2>3. QED
    BY <1>2, <2>1, <2>2, Kept DEF NewBlock
<1>3. ASSUME NEW d \in Donations, Donate(d) PROVE IInv'
  <2>1. TypeOK' /\ Snapshots' /\ euvb \subseteq euvb'
    BY <1>3 DEF Donate, AddValidBlock, IInv, TypeOK, Snapshots
  <2>2. \A x \in Chains : latest[x] <= latest'[x]
    BY <1>3 DEF Donate, IInv, TypeOK
  <2>3. QED
    BY <1>3, <2>1, <2>2, Kept DEF Donate
<1>4. CASE Crash
  <2>1. TypeOK' /\ Snapshots'
    BY <1>4, StrandedFlight DEF Crash, IInv, TypeOK, Snapshots, Asleep
  <2>2. \A x \in Chains : latest[x] <= latest'[x]
    BY <1>4 DEF Crash, IInv, TypeOK
  <2>3. ASSUME NEW t \in TaskStates, flying'[t] > 0
        PROVE  EventOf(t.row) \in euvb' /\ (t.at \in Unpinning => Expired(t.row)')
    <3>1. PICK u \in TaskStates : /\ flying[u] > 0 /\ u.row = t.row
                                  /\ t.at \in Unpinning => u.at \in Unpinning
      BY <1>4, <2>3, StrandedFlight DEF Crash, IInv
    <3>2. EventOf(t.row) \in euvb /\ (t.at \in Unpinning => Expired(t.row))
      BY <3>1 DEF IInv, FlightInv
    <3>3. t.row.chain \in Chains /\ t.row.end \in Int
      BY DEF TaskStates, Rows, Ends, Forever
    <3>4. Expired(t.row) => Expired(t.row)'
      BY <2>2, <3>3, <1>4 DEF Expired, IInv, TypeOK, Crash
    <3>5. QED
      BY <1>4, <3>2, <3>4 DEF Crash
  <2>4. QED
    BY <1>4, <2>1, <2>2, <2>3, Kept DEF Crash
<1>5. QED
  BY <1>1, <1>2, <1>3, <1>4, TurnStep, TaskInv DEF Next

-----------------------------------------------------------------------------
LEMMA IInvAlways == Spec => []IInv
BY IInvInit, IInvStep, PTL DEF Spec

(* The variables of the IPFS service keep their types.                       *)
THEOREM TypeCorrect == Spec => []TypeOK
<1>1. IInv => TypeOK
  BY DEF IInv
<1>2. QED
  BY <1>1, IInvAlways, PTL

\* Every pin stems from an event of its cid.
PinsBacked == \A p \in pins : \E d \in euvb : d.cid = p[2]

(* A pin comes from a task, which has an event behind it; events stay.       *)
LEMMA PinsBackedStep == IInv /\ PinsBacked /\ [Next]_vars => PinsBacked'
<1> SUFFICES ASSUME IInv, PinsBacked, [Next]_vars PROVE PinsBacked'
  OBVIOUS
<1>1. ASSUME NEW r \in Rows, PinOk(r) \/ PinFails(r) \/ Arrives(r) PROVE PinsBacked'
  <2>1. PICK stage \in {"pin", "retry"} \cup Strays : flying[Task(stage, r)] > 0
    BY <1>1 DEF PinOk, PinFails, Arrives, Strays, GoesOn, IsDone
  <2>2. EventOf(r) \in euvb
    <3>1. Task(stage, r) \in TaskStates /\ Task(stage, r).row = r
      BY TaskType DEF Stages
    <3>2. QED
      BY <2>1, <3>1 DEF IInv, FlightInv
  <2>3. pins' \subseteq pins \cup {Copy(r)} /\ UNCHANGED euvb
    BY <1>1 DEF PinOk, PinFails, Arrives, GoesOn, IsDone
  <2>4. EventOf(r).cid = Copy(r)[2]
    BY DEF EventOf, Copy
  <2>5. QED
    BY <2>2, <2>3, <2>4 DEF PinsBacked
<1>2. CASE pins' \subseteq pins /\ euvb \subseteq euvb'
  BY <1>2 DEF PinsBacked
<1>3. QED
  BY <1>1, <1>2
     DEF Next, vars, NewBlock, Donate, AddValidBlock, Crash, Turn, Look, PinTurn, UpdateFails,
         PinQueryFails, RetryTurn, UnpinTurn, TurnFails, TurnEnds, TaskStep, Record, Note,
         RmOk, RmFails, Delete, GoesOn, IsDone

(* Nothing is recorded, noted, pinned or unpinned but for an indexed event.  *)
THEOREM EverythingBacked == Spec => []Backed
<1>1. IInv /\ PinsBacked => Backed
  BY DEF IInv, RowsBacked, FlightInv, PinsBacked, Backed
<1>2. Init => PinsBacked
  BY DEF Init, PinsBacked
<1>3. QED
  BY <1>1, <1>2, PinsBackedStep, IInvAlways, PTL DEF Spec

(* No task unpins for a row whose end block is still ahead.                  *)
THEOREM NoEarlyUnpin == Spec => []OnlyExpiredUnpinned
<1>1. ASSUME IInv PROVE OnlyExpiredUnpinned
  <2> SUFFICES ASSUME NEW r \in Rows, NEW stage \in Unpinning, flying[Task(stage, r)] > 0
               PROVE  Expired(r)
    BY DEF OnlyExpiredUnpinned, Unpinning
  <2>1. Task(stage, r) \in TaskStates /\ Task(stage, r).row = r /\ Task(stage, r).at = stage
    BY TaskType DEF Stages, Strays, Unpinning
  <2>2. QED
    BY <1>1, <2>1 DEF IInv, FlightInv
<1>2. QED
  BY <1>1, IInvAlways, PTL

-----------------------------------------------------------------------------
(* The ways in which pinned_cids can change: a row is added for an indexed   *)
(* event, rows are moved by an update of the end blocks, or expired rows go. *)
Added(r) == pinned' = pinned \cup {r} /\ EventOf(r) \in euvb

Updated ==
    \E c \in Chains : \E b : \E f \in ExtensionChoices(pinned, euvb, c, b) :
        ~KeyViolated(pinned, f) /\ pinned' = Extended(pinned, f)

Dropped == pinned' \subseteq pinned /\ \A r \in pinned \ pinned' : Expired(r)

LEMMA TableSteps ==
    ASSUME IInv, [Next]_vars
    PROVE  (\E r \in Rows : Added(r)) \/ Updated \/ Dropped
<1>1. CASE UNCHANGED pinned
  BY <1>1 DEF Dropped
<1>2. ASSUME NEW c \in Chains, Turn(c)
      PROVE  UNCHANGED pinned \/ Updated \/ Dropped
  <2>1. CASE PinTurn(c) \/ PinQueryFails(c)
    BY <2>1 DEF PinTurn, PinQueryFails, Updated
  <2>2. CASE UnpinTurn(c)
    <3>1. pinned' = DeleteMultichainExpired(pinned, c, bn[c]["unpin"])
      BY <2>2 DEF UnpinTurn
    <3>2. bn[c]["unpin"] \in 0..MaxBlock
      BY <2>2, TurnFlight DEF UnpinTurn, IInv, Loops
    <3>3. \A r \in pinned \ pinned' : r \in ExpiredRows(pinned, c, bn[c]["unpin"])
      BY <3>1 DEF DeleteMultichainExpired
    <3>4. QED
      BY <3>1, <3>2, <3>3, ExpiredForTurn DEF Dropped, DeleteMultichainExpired
  <2>3. QED
    BY <1>2, <2>1, <2>2 DEF Turn, Look, UpdateFails, RetryTurn, TurnFails
<1>3. ASSUME NEW r \in Rows, TaskStep(r)
      PROVE  UNCHANGED pinned \/ Added(r) \/ Dropped
  <2>1. CASE Record(r)
    <3>1. EventOf(r) \in euvb
      <4>1. Task("record", r) \in TaskStates /\ Task("record", r).row = r
        BY TaskType DEF Stages
      <4>2. QED
        BY <2>1, <4>1 DEF Record, IsDone, IInv, FlightInv
    <3>2. QED
      BY <2>1, <3>1 DEF Record, AddCid, Added
  <2>2. CASE Delete(r)
    <3>1. Expired(r)
      <4>1. /\ Task("delete", r) \in TaskStates /\ Task("delete", r).row = r
            /\ Task("delete", r).at = "delete"
        BY TaskType DEF Stages
      <4>2. QED
        BY <2>2, <4>1 DEF Delete, IsDone, IInv, FlightInv, Unpinning
    <3>2. QED
      BY <2>2, <3>1 DEF Delete, DeleteCid, Dropped
  <2>3. QED
    BY <1>3, <2>1, <2>2 DEF TaskStep, PinOk, PinFails, Note, RmOk, RmFails, Arrives
<1>4. QED
  BY <1>1, <1>2, <1>3 DEF Next, vars, NewBlock, Donate, Crash

(* A row is not lost before its end block, it can only be moved further.     *)
THEOREM PaidIsKept == Spec => UnexpiredKept
<1>1. ASSUME IInv, [Next]_vars, NEW r \in pinned, ~Expired(r)
      PROVE  \E q \in pinned' : Copy(q) = Copy(r) /\ q.chain = r.chain /\ q.end >= r.end
  <2>1. r \in Rows /\ r.end \in Int
    BY <1>1 DEF IInv, TypeOK, Rows, Ends, Forever
  <2>2. CASE r \in pinned'
    BY <2>1, <2>2
  <2>3. CASE Updated
    <3>1. PICK c \in Chains : \E b : \E f \in ExtensionChoices(pinned, euvb, c, b) :
                                        pinned' = Extended(pinned, f)
      BY <2>3 DEF Updated
    <3>2. PICK b : \E f \in ExtensionChoices(pinned, euvb, c, b) : pinned' = Extended(pinned, f)
      BY <3>1
    <3>3. PICK f \in ExtensionChoices(pinned, euvb, c, b) : pinned' = Extended(pinned, f)
      BY <3>2
    <3>4. Moved(r, f) \in pinned'
      BY <3>3 DEF Extended
    <3>5. /\ Copy(Moved(r, f)) = Copy(r) /\ Moved(r, f).chain = r.chain
          /\ Moved(r, f) = r \/ r.end < Moved(r, f).end
          /\ Moved(r, f).end \in Int
      BY <1>1, <3>3, UpdateMovesForward DEF IInv, Rows, Ends, Forever
    <3>6. QED
      BY <2>1, <3>4, <3>5
  <2>4. QED
    BY <1>1, <2>2, <2>3, TableSteps DEF Added, Dropped
<1>2. IInv /\ [Next]_vars =>
        [\A r \in pinned : r.end # Forever /\ ~Expired(r) =>
            \E q \in pinned' : Copy(q) = Copy(r) /\ q.chain = r.chain /\ q.end >= r.end]_vars
  BY <1>1
<1>3. QED
  BY <1>2, IInvAlways, PTL DEF Spec, UnexpiredKept

(* Dropping the expired rows of one chain leaves the row on another chain    *)
(* that was the reason to, so a cid's last row is left to unpin_cid_from_node. *)
THEOREM LastRowGoesByUnpin == Spec => LastRowByUnpin
<1>1. ASSUME [Next]_vars, NEW k \in Cids,
             \E r \in pinned : r.cid = k, \A r \in pinned' : r.cid # k
      PROVE  \E r \in Rows : r.cid = k /\ Delete(r)
  <2>1. PICK p \in pinned : p.cid = k /\ p \notin pinned'
    BY <1>1
  <2>2. ASSUME NEW c \in Chains, UnpinTurn(c) PROVE FALSE
    <3>1. pinned' = DeleteMultichainExpired(pinned, c, bn[c]["unpin"])
      BY <2>2 DEF UnpinTurn
    <3>2. PICK q \in pinned : q.chain # c /\ q.cid = k
      BY <2>1, <3>1 DEF DeleteMultichainExpired, ExpiredRows
    <3>3. q \in pinned'
      BY <3>1, <3>2 DEF DeleteMultichainExpired, ExpiredRows
    <3>4. QED
      BY <1>1, <3>2, <3>3
  <2>3. ASSUME NEW c \in Chains, PinTurn(c) \/ PinQueryFails(c) PROVE FALSE
    <3>1. PICK f : pinned' = Extended(pinned, f)
      BY <2>3 DEF PinTurn, PinQueryFails
    <3>2. Moved(p, f) \in pinned'
      BY <3>1 DEF Extended
    <3>3. Moved(p, f).cid = p.cid
      BY DEF Moved
    <3>4. QED
      BY <1>1, <2>1, <3>2, <3>3
  <2>4. PICK r \in Rows : TaskStep(r)
    BY <1>1, <2>1, <2>2, <2>3
       DEF Next, vars, NewBlock, Donate, Crash, Turn, Look, UpdateFails, RetryTurn, TurnFails
  <2>5. pinned' = pinned \ {r} /\ Delete(r)
    BY <2>1, <2>4 DEF TaskStep, PinOk, PinFails, Note, RmOk, RmFails, Arrives, Record,
                      AddCid, Delete, DeleteCid
  <2>6. r.cid = k
    BY <2>1, <2>5
  <2>7. QED
    BY <2>5, <2>6
<1>2. [Next]_vars =>
        [\A k \in Cids :
            (\E r \in pinned : r.cid = k) /\ (\A r \in pinned' : r.cid # k) =>
                \E r \in Rows : r.cid = k /\ Delete(r)]_vars
  BY <1>1
<1>3. QED
  BY <1>2, PTL DEF Spec, LastRowByUnpin

-----------------------------------------------------------------------------
(* pinned_cids changes only in steps that leave chain and events alone.      *)
LEMMA TableAlone ==
    ASSUME [Next]_vars, pinned' # pinned
    PROVE  UNCHANGED <<latest, euvb>>
BY DEF Next, vars, NewBlock, Donate, Crash, Turn, Look, PinTurn, UpdateFails, PinQueryFails,
       RetryTurn, UnpinTurn, TurnFails, TurnEnds, TaskStep, PinOk, PinFails, Record, Note,
       RmOk, RmFails, Delete, Arrives, GoesOn, IsDone

(* An update of the end blocks is a renewal of the ledger: forward, paid for, *)
(* and without merging rows, which the primary key forbids.                  *)
LEMMA UpdateRenews ==
    ASSUME IInv, Updated, UNCHANGED <<latest, euvb>>
    PROVE  Ledger!Next
<1>1. PICK c \in Chains :
        \E b : \E f \in ExtensionChoices(pinned, euvb, c, b) :
            ~KeyViolated(pinned, f) /\ pinned' = Extended(pinned, f)
  BY DEF Updated
<1>2. PICK b : \E f \in ExtensionChoices(pinned, euvb, c, b) :
            ~KeyViolated(pinned, f) /\ pinned' = Extended(pinned, f)
  BY <1>1
<1>3. PICK f \in ExtensionChoices(pinned, euvb, c, b) :
            ~KeyViolated(pinned, f) /\ pinned' = Extended(pinned, f)
  BY <1>2
<1> DEFINE g == [p \in pinned |-> Moved(p, f).end]
<1>4. \A p \in pinned : /\ Moved(p, f) \in Rows
                        /\ Moved(p, f) = [p EXCEPT !.end = g[p]]
                        /\ p \in Rows
                        /\ Moved(p, f).chain = p.chain /\ Moved(p, f).cid = p.cid
                        /\ Moved(p, f) = p \/ (p.end < g[p] /\ EventOf(Moved(p, f)) \in euvb)
  BY <1>3, UpdateMovesForward DEF IInv, TypeOK
<1>5. g \in [pinned -> { d.end : d \in Donations }]
  BY <1>4 DEF Rows, Ends
<1>6. \A p \in pinned : g[p] = p.end \/ (g[p] > p.end /\ Ledger!PaidFor(p, g[p]))
  <2> SUFFICES ASSUME NEW p \in pinned, g[p] # p.end
               PROVE  g[p] > p.end /\ Ledger!PaidFor(p, g[p])
    OBVIOUS
  <2>1. p.end < g[p] /\ EventOf(Moved(p, f)) \in euvb
    BY <1>4
  <2>2. EventOf(Moved(p, f)) = [chain |-> p.chain, cid |-> p.cid, end |-> g[p]]
    BY <1>4 DEF EventOf
  <2>3. p.end \in Int /\ g[p] \in Int
    BY <1>4 DEF Rows, Ends, Forever
  <2>4. QED
    BY <2>1, <2>2, <2>3 DEF Ledger!PaidFor
<1>7. ASSUME NEW p \in pinned, NEW q \in pinned,
             [p EXCEPT !.end = g[p]] = [q EXCEPT !.end = g[q]]
      PROVE  p = q
  <2>0. Moved(p, f) = Moved(q, f)
    <3>1. Moved(p, f) = [p EXCEPT !.end = g[p]] /\ Moved(q, f) = [q EXCEPT !.end = g[q]]
      BY <1>4
    <3>2. QED
      BY <1>7, <3>1
  <2>1. CASE p \in DOMAIN f \/ q \in DOMAIN f
    BY <1>3, <2>0, <2>1 DEF KeyViolated
  <2>2. CASE p \notin DOMAIN f /\ q \notin DOMAIN f
    BY <2>0, <2>2 DEF Moved
  <2>3. QED
    BY <2>1, <2>2
<1>8. pinned' = { [p EXCEPT !.end = g[p]] : p \in pinned }
  BY <1>3, <1>4 DEF Extended
<1> HIDE DEF g
<1>9. Ledger!Renew(g)
  BY <1>6, <1>7, <1>8 DEF Ledger!Renew
<1>10. QED
  BY <1>5, <1>9 DEF Ledger!Next

(* Every step of the service is a step of the ledger or a stutter.           *)
LEMMA LedgerStep ==
    ASSUME IInv, [Next]_vars
    PROVE  [Ledger!Next]_<<latest, euvb, pinned>>
<1>1. CASE pinned' # pinned
  <2>1. UNCHANGED <<latest, euvb>>
    BY <1>1, TableAlone
  <2>2. ASSUME NEW r \in Rows, Added(r) PROVE Ledger!Next
    <3>1. r = [chain |-> r.chain, node |-> r.node, cid |-> r.cid, end |-> r.end] /\ r.node \in Nodes
      BY DEF Rows
    <3>2. EventOf(r) \in Donations /\ EventOf(r) \in euvb
      BY <2>2 DEF Added, IInv, TypeOK
    <3>3. Ledger!Enter(EventOf(r), r.node)
      BY <2>1, <2>2, <3>1, <3>2 DEF Added, EventOf, Ledger!Enter
    <3>4. QED
      BY <3>1, <3>2, <3>3 DEF Ledger!Next
  <2>3. CASE Updated
    BY <2>1, <2>3, UpdateRenews
  <2>4. CASE Dropped
    <3>1. pinned' = pinned \ (pinned \ pinned')
      BY <2>4 DEF Dropped
    <3>2. Ledger!StrikeOut(pinned \ pinned')
      BY <2>1, <2>4, <3>1 DEF Dropped, Expired, Ledger!StrikeOut
    <3>3. QED
      BY <3>2 DEF Ledger!Next
  <2>5. QED
    BY <2>2, <2>3, <2>4, TableSteps
<1>2. CASE pinned' = pinned
  <2>1. ASSUME NEW c \in Chains, NewBlock(c) PROVE Ledger!Grow
    BY <1>2, <2>1 DEF NewBlock, IInv, TypeOK, Ledger!Grow
  <2>2. ASSUME NEW d \in Donations, Donate(d) PROVE Ledger!Next
    <3>1. Ledger!Learn({d}) /\ {d} \in SUBSET Donations
      BY <2>2 DEF Donate, AddValidBlock, Ledger!Learn
    <3>2. QED
      BY <3>1 DEF Ledger!Next
  <2>3. CASE Crash
    <3>1. Ledger!Grow
      BY <1>2, <2>3 DEF Crash, IInv, TypeOK, Ledger!Grow
    <3>2. QED
      BY <3>1 DEF Ledger!Next
  <2>4. QED
    BY <1>2, <2>1, <2>2, <2>3
       DEF Next, vars, Turn, Look, PinTurn, UpdateFails, PinQueryFails, RetryTurn,
           UnpinTurn, TurnFails, TurnEnds, TaskStep, PinOk, PinFails, Record, Note, RmOk,
           RmFails, Delete, Arrives, GoesOn, IsDone, Ledger!Next
<1>3. QED
  BY <1>1, <1>2

(* The IPFS service, with its loops, detached tasks, failures and restarts,  *)
(* keeps pinned_cids as PinLedger promises.                                 *)
THEOREM ImplementsLedger == Spec => LedgerSpec
<1>1. Init => Ledger!Init
  BY DEF Init, Ledger!Init
<1>2. IInv /\ [Next]_vars => [Ledger!Next]_<<latest, euvb, pinned>>
  BY LedgerStep
<1>3. QED
  BY <1>1, <1>2, IInvAlways, PTL DEF Spec, LedgerSpec, Ledger!Spec

-----------------------------------------------------------------------------
(* What the book itself promises, of whatever keeps it.                     *)

\* Its entries are typed and stem from events it has learned of.
BookInv == euvb \subseteq Donations /\ pinned \subseteq Rows /\ \A r \in pinned : EventOf(r) \in euvb

LEMMA BookStep == BookInv /\ [Ledger!Next]_<<latest, euvb, pinned>> => BookInv'
<1> SUFFICES ASSUME BookInv, [Ledger!Next]_<<latest, euvb, pinned>> PROVE BookInv'
  OBVIOUS
<1>1. CASE pinned' \subseteq pinned /\ euvb \subseteq euvb' /\ euvb' \subseteq Donations
  BY <1>1 DEF BookInv, EventOf
<1>2. ASSUME NEW d \in Donations, NEW n \in Nodes, Ledger!Enter(d, n) PROVE BookInv'
  <2> DEFINE r == [chain |-> d.chain, node |-> n, cid |-> d.cid, end |-> d.end]
  <2>1. r \in Rows /\ EventOf(r) = d
    BY EventIsRecord DEF Rows, EventOf
  <2>2. d \in euvb /\ pinned' = pinned \cup {r} /\ UNCHANGED euvb
    BY <1>2 DEF Ledger!Enter
  <2>3. QED
    BY <2>1, <2>2 DEF BookInv, EventOf
<1>3. ASSUME NEW g \in [pinned -> Ends], Ledger!Renew(g) PROVE BookInv'
  <2>1. UNCHANGED euvb /\ pinned' = { [p EXCEPT !.end = g[p]] : p \in pinned }
    BY <1>3 DEF Ledger!Renew
  <2>2. ASSUME NEW p \in pinned
        PROVE  [p EXCEPT !.end = g[p]] \in Rows /\ EventOf([p EXCEPT !.end = g[p]]) \in euvb
    <3>1. p \in Rows /\ EventOf(p) \in euvb /\ g[p] \in Ends
      BY <1>3 DEF BookInv
    <3>2. g[p] = p.end \/ [chain |-> p.chain, cid |-> p.cid, end |-> g[p]] \in euvb
      BY <1>3 DEF Ledger!Renew, Ledger!PaidFor
    <3>3. QED
      BY <3>1, <3>2 DEF Rows, EventOf
  <2>3. QED
    BY <2>1, <2>2 DEF BookInv, EventOf
<1>4. QED
  BY <1>1, <1>2, <1>3
     DEF BookInv, Ledger!Next, Ledger!Grow, Ledger!Learn, Ledger!StrikeOut, Ends

(* Whatever keeps the book of PinLedger keeps rows while they are paid for:   *)
(* the refinement says at least what UnexpiredKept says.                    *)
THEOREM BookKeepsPaid == LedgerSpec => UnexpiredKept
<1> DEFINE A == \A r \in pinned : r.end # Forever /\ ~Expired(r) =>
                  \E q \in pinned' : Copy(q) = Copy(r) /\ q.chain = r.chain /\ q.end >= r.end
<1>1. Ledger!Init => BookInv
  BY DEF Ledger!Init, BookInv
<1>2. BookInv /\ [Ledger!Next]_<<latest, euvb, pinned>> => A
  <2> SUFFICES ASSUME BookInv, [Ledger!Next]_<<latest, euvb, pinned>>,
                      NEW r \in pinned, r.end # Forever, ~Expired(r)
               PROVE  \E q \in pinned' : Copy(q) = Copy(r) /\ q.chain = r.chain /\ q.end >= r.end
    OBVIOUS
  <2>1. r \in Rows /\ r.end \in Int
    BY DEF BookInv, Rows, Ends, Forever
  <2>2. CASE r \in pinned'
    BY <2>1, <2>2
  <2>3. ASSUME NEW S \in SUBSET pinned, Ledger!StrikeOut(S) PROVE r \in pinned'
    BY <2>3 DEF Ledger!StrikeOut, Expired
  <2>4. ASSUME NEW g \in [pinned -> Ends], Ledger!Renew(g)
        PROVE  \E q \in pinned' : Copy(q) = Copy(r) /\ q.chain = r.chain /\ q.end >= r.end
    <3> DEFINE q == [r EXCEPT !.end = g[r]]
    <3>1. q \in pinned'
      BY <2>4 DEF Ledger!Renew
    <3>2. g[r] >= r.end
      <4>1. (g[r] = r.end \/ g[r] > r.end) /\ g[r] \in Int
        BY <2>4 DEF Ledger!Renew, Ends, Forever, BookInv
      <4>2. QED
        BY <2>1, <4>1
    <3>3. Copy(q) = Copy(r) /\ q.chain = r.chain /\ q.end = g[r]
      BY <2>1 DEF Rows, Copy
    <3>4. QED
      BY <3>1, <3>2, <3>3
  <2>5. QED
    BY <2>2, <2>3, <2>4 DEF Ledger!Next, Ledger!Grow, Ledger!Learn, Ledger!Enter, Ends
<1>3. QED
  BY <1>1, <1>2, BookStep, PTL DEF LedgerSpec, Ledger!Spec, UnexpiredKept
=============================================================================
