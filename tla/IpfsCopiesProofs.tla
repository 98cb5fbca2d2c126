--------------------------- MODULE IpfsCopiesProofs ---------------------------
(***************************************************************************)
(* Proofs about IpfsWatcher that relate the tables to what the nodes hold:   *)
(* when a row may lack its pin, when a pin may lack a row, and that no node  *)
(* is forgotten.                                                            *)
(*                                                                          *)
(* Each invariant looks at one or two variables, and most actions leave them *)
(* alone.  So what a step can do to rows, pins and tasks is stated once, in  *)
(* lemmas that are cited instead of the actions.                            *)
(***************************************************************************)
EXTENDS IpfsWatcherProofs

USE IpfsAssumption

\* r's cid is on its node, or one of the cid's terms is over.
Held(r) == Copy(r) \in pins \/ \E d \in euvb : d.cid = r.cid /\ Expired(d)

\* So it is of rows and of what is about to become one.
HeldInv == \A r \in Rows : r \in pinned \/ flying[Task("record", r)] > 0 => Held(r)

-----------------------------------------------------------------------------
(* What a step can do.                                                      *)

LEMMA StageTask ==
    ASSUME NEW r \in Rows
    PROVE  \A stage \in Stages \cup Strays :
             /\ Task(stage, r) \in TaskStates
             /\ Task(stage, r).row = r /\ Task(stage, r).at = stage
             /\ \A other, q : Task(stage, r) = Task(other, q) <=> stage = other /\ r = q
BY DEF Task, TaskStates

(* A request of a process that has ended touches tasks and tables no more.   *)
LEMMA StrayStep ==
    ASSUME TypeOK, NEW r \in Rows, Arrives(r)
    PROVE  /\ \A t \in TaskStates : /\ flying'[t] > 0 => flying[t] > 0
                                    /\ t.at \in Stages => flying'[t] = flying[t]
           /\ \E stage \in Strays : flying[Task(stage, r)] > 0
           /\ UNCHANGED <<latest, euvb, pinned, failed, bn, crashes>>
<1>1. PICK stage \in Strays : IsDone(Task(stage, r))
  BY DEF Arrives, Strays
<1>2. Task(stage, r) \in TaskStates /\ Task(stage, r).at \notin Stages
  BY StageTask DEF Strays, Stages
<1>3. UNCHANGED <<pinned, failed>>
  BY DEF Arrives
<1>4. QED
  BY <1>1, <1>2, <1>3 DEF IsDone, TypeOK

LEMMA CrashFlight ==
    ASSUME TypeOK, Crash
    PROVE  \A t \in TaskStates : t.at \in Stages => ~(flying'[t] > 0)
BY StrandedFlight DEF Crash, Stages, Strays

LEMMA PinTaskPins ==
    ASSUME NEW new, NEW t \in PinTasks(new)
    PROVE  t.at = "pin"
BY DEF PinTasks, Task

(* Chains grow and events stay.                                             *)
LEMMA WorldGrows ==
    ASSUME IInv, [Next]_vars
    PROVE  /\ \A c \in Chains : latest[c] <= latest'[c]
           /\ euvb \subseteq euvb'
<1>1. TypeOK
  BY DEF IInv
<1>2. ASSUME NEW c \in Chains, NewBlock(c)
      PROVE  (\A x \in Chains : latest[x] <= latest'[x]) /\ euvb \subseteq euvb'
  BY <1>1, <1>2 DEF NewBlock, TypeOK
<1>3. CASE Crash
  BY <1>1, <1>3 DEF Crash, TypeOK
<1>4. CASE euvb \subseteq euvb' /\ UNCHANGED latest
  BY <1>1, <1>4 DEF TypeOK
<1>5. QED
  BY <1>2, <1>3, <1>4
     DEF Next, vars, Donate, AddValidBlock, Turn, Look, PinTurn, UpdateFails, PinQueryFails,
         RetryTurn, UnpinTurn, TurnFails, TurnEnds, TaskStep, PinOk, PinFails, Record, Note,
         RmOk, RmFails, Delete, Arrives, GoesOn, IsDone

(* What is over stays over.                                                 *)
LEMMA OverStaysOver ==
    ASSUME IInv, [Next]_vars, NEW d, d.chain \in Chains, d.end \in Int, Expired(d)
    PROVE  Expired(d)'
<1>1. latest[d.chain] \in Int /\ latest'[d.chain] \in Int
  BY IInvStep DEF IInv, TypeOK
<1>2. latest[d.chain] <= latest'[d.chain]
  BY WorldGrows
<1>3. QED
  BY <1>1, <1>2 DEF Expired

LEMMA EventType ==
    ASSUME TypeOK, NEW d \in euvb
    PROVE  d.chain \in Chains /\ d.cid \in Cids /\ d.end \in Int
BY DEF TypeOK, Forever

(* A task at work stems from an event, one that unpins from one that is over. *)
LEMMA TaskOfEvent ==
    ASSUME IInv, NEW r \in Rows, NEW stage \in Stages \cup Strays, flying[Task(stage, r)] > 0
    PROVE  EventOf(r) \in euvb /\ (stage \in Unpinning => Expired(EventOf(r)))
BY StageTask DEF IInv, FlightInv, Expired, EventOf

(* A pin goes only for an event of its cid that is over.                     *)
LEMMA PinsStep ==
    ASSUME IInv, [Next]_vars, NEW p \in pins, p \notin pins'
    PROVE  \E d \in euvb : <<p[1], d.cid>> = p /\ Expired(d)
<1>1. PICK r \in Rows : /\ pins' = pins \ {Copy(r)}
                        /\ \E stage \in {"rm", "stray_rm"} : flying[Task(stage, r)] > 0
  <2>1. PICK r \in Rows : RmOk(r) \/ RmFails(r) \/ Arrives(r)
    BY DEF Next, vars, NewBlock, Donate, Crash, Turn, Look, PinTurn, UpdateFails, PinQueryFails,
           RetryTurn, UnpinTurn, TurnFails, TurnEnds, TaskStep, PinOk, PinFails, Record, Note,
           Delete
  <2>2. QED
    BY <2>1 DEF RmOk, RmFails, Arrives, GoesOn, IsDone
<1>2. EventOf(r) \in euvb /\ Expired(EventOf(r))
  BY <1>1, TaskOfEvent DEF Stages, Strays, Unpinning
<1>3. p = Copy(r)
  BY <1>1
<1>4. QED
  BY <1>2, <1>3 DEF Copy, EventOf

(* Only a node that has the cid starts the recording of a row.               *)
LEMMA RecordStep ==
    ASSUME IInv, [Next]_vars, NEW r \in Rows, flying'[Task("record", r)] > 0
    PROVE  flying[Task("record", r)] > 0 \/ Copy(r) \in pins'
<1>0. TypeOK /\ Snapshots
  BY DEF IInv
<1> DEFINE t == Task("record", r)
<1>1. t \in TaskStates /\ t.at = "record" /\ t.at \in Stages
  BY StageTask DEF Stages
<1>2. ASSUME NEW c \in Chains, NEW loop \in Loops, NEW S, TurnEnds(c, loop, S), t \notin S
      PROVE  flying[t] > 0
  BY <1>0, <1>1, <1>2, TurnFlight
<1>3. ASSUME NEW c \in Chains, Turn(c) PROVE flying[t] > 0
  <2>1. ASSUME NEW new, t \in PinTasks(new) PROVE FALSE
    BY <1>1, <2>1, PinTaskPins
  <2>2. \A S : t \notin { Task("retry", q) : q \in S } /\ t \notin { Task("rm", q) : q \in S }
    BY <1>1 DEF Task
  <2>3. QED
    BY <1>2, <1>3, <2>1, <2>2
       DEF Turn, Look, PinTurn, UpdateFails, PinQueryFails, RetryTurn, UnpinTurn, TurnFails, Loops
<1>4. ASSUME NEW q \in Rows, TaskStep(q) PROVE flying[t] > 0 \/ Copy(r) \in pins'
  <2>1. /\ \A stage \in Stages : Task(stage, q) \in TaskStates /\ Task(stage, q).at = stage
        /\ Stages = {"pin", "retry", "record", "note", "rm", "delete"}
    BY StageTask DEF Stages
  <2>2. CASE PinOk(q)
    <3>1. PICK stage \in {"pin", "retry"} : GoesOn(Task(stage, q), Task("record", q))
      BY <2>2 DEF PinOk
    <3>2. flying[t] > 0 \/ t = Task("record", q)
      BY <1>0, <1>1, <2>1, <3>1, GoesOnFlight
    <3>3. CASE t = Task("record", q)
      BY <2>2, <3>3 DEF PinOk, Task
    <3>4. QED
      BY <3>2, <3>3
  <2>3. CASE PinFails(q)
    BY <1>0, <1>1, <2>1, <2>3, GoesOnFlight, IsDoneFlight DEF PinFails
  <2>4. CASE RmOk(q)
    BY <1>0, <1>1, <2>1, <2>4, GoesOnFlight DEF RmOk
  <2>5. CASE Record(q) \/ Note(q) \/ RmFails(q) \/ Delete(q)
    BY <1>0, <1>1, <2>1, <2>5, IsDoneFlight DEF Record, Note, RmFails, Delete
  <2>6. CASE Arrives(q)
    BY <1>0, <1>1, <2>6, StrayStep
  <2>7. QED
    BY <1>4, <2>2, <2>3, <2>4, <2>5, <2>6 DEF TaskStep
<1>5. ~Crash
  BY <1>0, <1>1, CrashFlight
<1>6. QED
  BY <1>1, <1>3, <1>4, <1>5 DEF Next, vars, NewBlock, Donate

(* A row is there since a row of the copy was, or a task has just added it.  *)
LEMMA RowStep ==
    ASSUME IInv, [Next]_vars, NEW r \in pinned'
    PROVE  \/ flying[Task("record", r)] > 0 /\ r \in Rows
           \/ \E p \in pinned : Copy(p) = Copy(r) /\ p.chain = r.chain /\ p.cid = r.cid
<1>1. CASE r \in pinned
  BY <1>1
<1>2. CASE Updated
  BY <1>2, UpdateMovesForward DEF Updated, Extended, IInv
<1>3. ASSUME NEW q \in Rows, Record(q), r \notin pinned
      PROVE  flying[Task("record", r)] > 0 /\ r \in Rows
  BY <1>3 DEF Record, IsDone, AddCid
<1>4. CASE r \notin pinned /\ ~Updated
  <2>1. PICK q \in Rows : Record(q)
    <3>1. \A c \in Chains : ~PinTurn(c) /\ ~PinQueryFails(c)
      BY <1>4 DEF PinTurn, PinQueryFails, Updated
    <3>2. QED
      BY <1>4, <3>1
         DEF Next, vars, NewBlock, Donate, Crash, Turn, Look, UpdateFails,
             RetryTurn, UnpinTurn, DeleteMultichainExpired, TurnFails, TaskStep, PinOk, PinFails,
             Note, RmOk, RmFails, Delete, DeleteCid, Arrives
  <2>2. QED
    BY <1>3, <1>4, <2>1
<1>5. QED
  BY <1>1, <1>2, <1>4

-----------------------------------------------------------------------------
LEMMA HeldKept ==
    ASSUME IInv, [Next]_vars, NEW r, Copy(r) \in Nodes \X Cids, Held(r)
    PROVE  Held(r)'
<1>1. ASSUME NEW d \in euvb, d.cid = r.cid, Expired(d) PROVE Held(r)'
  <2>1. d \in euvb' /\ Expired(d)'
    BY <1>1, WorldGrows, OverStaysOver, EventType DEF IInv
  <2>2. QED
    BY <1>1, <2>1 DEF Held
<1>2. CASE Copy(r) \in pins'
  BY <1>2 DEF Held, Copy
<1>3. CASE Copy(r) \in pins /\ Copy(r) \notin pins'
  <2>1. PICK d \in euvb : <<Copy(r)[1], d.cid>> = Copy(r) /\ Expired(d)
    BY <1>3, PinsStep
  <2>2. QED
    BY <1>1, <2>1 DEF Copy
<1>4. QED
  BY <1>1, <1>2, <1>3 DEF Held

LEMMA HeldStep == IInv /\ HeldInv /\ [Next]_vars => HeldInv'
<1> SUFFICES ASSUME IInv, HeldInv, [Next]_vars, NEW r \in Rows,
                    r \in pinned' \/ flying'[Task("record", r)] > 0
             PROVE  Held(r)'
  BY DEF HeldInv, Held, Copy, Expired, Task
<1>0. Copy(r) \in Nodes \X Cids /\ pinned \subseteq Rows
  BY DEF Copy, Rows, IInv, TypeOK
<1>1. CASE flying[Task("record", r)] > 0
  BY <1>0, <1>1, HeldKept DEF HeldInv
<1>2. CASE Copy(r) \in pins'
  BY <1>2 DEF Held, Copy
<1>3. ASSUME NEW p \in pinned, Copy(p) = Copy(r), p.cid = r.cid PROVE Held(r)'
  <2>1. Held(p)
    BY <1>0 DEF HeldInv
  <2>2. Held(r)
    BY <1>3, <2>1 DEF Held
  <2>3. QED
    BY <1>0, <2>2, HeldKept
<1>4. QED
  BY <1>1, <1>2, <1>3, RecordStep, RowStep

(* What is recorded as pinned is pinned, unless a term of the cid is over:    *)
(* under every fault and restart, with however many tasks for one copy.      *)
THEOREM LostOnlyToAnEnd == Spec => []UnpinnedByAnEnd
<1>1. Init => HeldInv
  BY StageTask DEF Init, HeldInv, Stages
<1>2. IInv /\ HeldInv => UnpinnedByAnEnd
  BY DEF IInv, TypeOK, HeldInv, Held, UnpinnedByAnEnd
<1>3. QED
  BY <1>1, <1>2, HeldStep, IInvAlways, PTL DEF Spec

\* Each cid is paid for by one event only.
PaidOnce == \A d, e \in Donations : d.cid = e.cid => d = e

(* Where no cid is paid for twice, what is recorded till a block to come is   *)
(* pinned.                                                                  *)
THEOREM RecordedPinned ==
    ASSUME PaidOnce
    PROVE  Spec => []RecordedIsPinned
<1>1. ASSUME IInv, UnpinnedByAnEnd PROVE RecordedIsPinned
  <2> SUFFICES ASSUME NEW r \in pinned, NEW d \in euvb, d.cid = r.cid, Expired(d)
               PROVE  Expired(r)
    BY <1>1 DEF RecordedIsPinned, UnpinnedByAnEnd
  <2>1. EventOf(r) \in Donations /\ d \in Donations /\ EventOf(r).cid = r.cid
    BY <1>1 DEF IInv, TypeOK, RowsBacked, EventOf
  <2>2. d = EventOf(r)
    BY <2>1 DEF PaidOnce
  <2>3. QED
    BY <2>2 DEF Expired, EventOf
<1>2. QED
  BY <1>1, IInvAlways, LostOnlyToAnEnd, PTL

-----------------------------------------------------------------------------
\* r is on the books, or a task works at it that may put it there.
Live(r) == \/ r \in pinned \cup failed
           \/ \E stage \in {"pin", "retry", "record", "note"} : flying[Task(stage, r)] > 0

\* What EveryNodeAccounted says of rows already holds of notes and tasks: the
\* row is recorded when all nodes have got their tasks long since.
NodesInv ==
    crashes = 0 /\ "db" \notin Faults =>
        \A r \in Rows, n \in Nodes :
            Live(r) /\ OneTerm(r) /\ ~Expired(r) => Accounted([r EXCEPT !.node = n])

\* A turn of pin_chain_cids starts a task for r.
StartsPin(r) ==
    \E c \in Chains :
        /\ TurnEnds(c, "pin", PinTasks(NewCids(euvb, pinned', c, bn[c]["pin"])))
        /\ Task("pin", r) \in PinTasks(NewCids(euvb, pinned', c, bn[c]["pin"]))

\* The row of a copy has been moved to a later end that an event pays for.
MovedOn(r) ==
    \E q \in pinned' : /\ Copy(q) = Copy(r) /\ q.chain = r.chain /\ q.cid = r.cid
                       /\ r.end < q.end /\ EventOf(q) \in euvb

(* What is new in flight was started by a turn or was at another stage.      *)
LEMMA FlightStep ==
    ASSUME IInv, [Next]_vars, NEW r \in Rows, NEW stage \in {"pin", "retry", "record", "note"},
           flying'[Task(stage, r)] > 0
    PROVE  Live(r) \/ StartsPin(r)
<1>0. TypeOK /\ Snapshots
  BY DEF IInv
<1> DEFINE t == Task(stage, r)
<1>1. t \in TaskStates /\ t.at = stage /\ t.row = r /\ t.at \in Stages
  BY StageTask DEF Stages
<1>2. flying[t] > 0 => Live(r)
  BY DEF Live
<1>3. ASSUME NEW c \in Chains, NEW loop \in Loops, NEW S, TurnEnds(c, loop, S)
      PROVE  flying[t] > 0 \/ t \in S
  BY <1>0, <1>1, <1>3, TurnFlight
<1>4. ASSUME NEW c \in Chains, Turn(c) PROVE Live(r) \/ StartsPin(r)
  <2> USE DEF Loops
  <2>1. CASE PinTurn(c)
    <3> DEFINE S == PinTasks(NewCids(euvb, pinned', c, bn[c]["pin"]))
    <3>1. TurnEnds(c, "pin", S)
      BY <2>1 DEF PinTurn
    <3>2. CASE t \in S
      <4>1. t.at = "pin"
        BY <3>2, PinTaskPins
      <4>2. QED
        BY <1>1, <3>1, <3>2, <4>1 DEF StartsPin
    <3> HIDE DEF S
    <3>3. QED
      BY <1>2, <1>3, <3>1, <3>2
  <2>2. CASE RetryTurn(c)
    <3> DEFINE S == { Task("retry", q) : q \in FailedCids(failed', c, bn[c]["retry"]) }
    <3>1. TurnEnds(c, "retry", S) \/ TurnEnds(c, "retry", {})
      BY <2>2 DEF RetryTurn
    <3>2. CASE t \in S
      <4>1. PICK q \in FailedCids(failed', c, bn[c]["retry"]) : t = Task("retry", q)
        BY <3>2
      <4>2. r \in failed'
        BY <1>1, <4>1 DEF FailedCids, Task
      <4>3. r \in failed
        BY <2>2, <4>2 DEF RetryTurn, DeleteExpiredFailed
      <4>4. QED
        BY <4>3 DEF Live
    <3> HIDE DEF S
    <3>3. QED
      BY <1>2, <1>3, <3>1, <3>2
  <2>3. CASE UnpinTurn(c)
    <3> DEFINE S == { Task("rm", q) : q \in SingleChainExpired(pinned', c, bn[c]["unpin"]) }
    <3>1. TurnEnds(c, "unpin", S) \/ TurnEnds(c, "unpin", {})
      BY <2>3 DEF UnpinTurn
    <3>2. t \notin S
      BY <1>1 DEF Task
    <3> HIDE DEF S
    <3>3. QED
      BY <1>2, <1>3, <3>1, <3>2
  <2>4. CASE UpdateFails(c) \/ PinQueryFails(c) \/ \E loop \in {"retry", "unpin"} : TurnFails(c, loop)
    BY <1>2, <1>3, <2>4 DEF UpdateFails, PinQueryFails, TurnFails
  <2>5. CASE \E loop \in Loops : Look(c, loop)
    BY <1>2, <2>5 DEF Look
  <2>6. QED
    BY <1>4, <2>1, <2>2, <2>3, <2>4, <2>5 DEF Turn
<1>5. ASSUME NEW q \in Rows, TaskStep(q) PROVE Live(r)
  <2>1. /\ \A s \in Stages : Task(s, q) \in TaskStates /\ Task(s, q).row = q
        /\ \A s, u \in Stages : s # u => Task(s, q) # Task(u, q)
        /\ Stages = {"pin", "retry", "record", "note", "rm", "delete"}
    BY StageTask DEF Stages
  <2>2. ASSUME NEW s \in {"pin", "retry"}, NEW u \in {"record", "note"},
               GoesOn(Task(s, q), Task(u, q))
        PROVE  Live(r)
    <3>1. flying[Task(s, q)] > 0 /\ (flying[t] > 0 \/ t = Task(u, q))
      BY <1>0, <1>1, <2>1, <2>2, GoesOnFlight
    <3>2. CASE t = Task(u, q)
      <4>1. q = r
        BY <1>1, <2>1, <3>2
      <4>2. QED
        BY <3>1, <4>1 DEF Live
    <3>3. QED
      BY <1>2, <3>1, <3>2
  <2>3. CASE RmOk(q)
    <3>1. flying[t] > 0 \/ t = Task("delete", q)
      BY <1>0, <1>1, <2>1, <2>3, GoesOnFlight DEF RmOk
    <3>2. QED
      BY <1>1, <1>2, <3>1 DEF Task
  <2>4. CASE Record(q) \/ Note(q) \/ RmFails(q) \/ Delete(q) \/ IsDone(Task("retry", q))
    BY <1>0, <1>1, <1>2, <2>1, <2>4, IsDoneFlight DEF Record, Note, RmFails, Delete
  <2>5. CASE Arrives(q)
    BY <1>0, <1>1, <1>2, <2>5, StrayStep
  <2>6. QED
    BY <1>5, <2>2, <2>3, <2>4, <2>5 DEF TaskStep, PinOk, PinFails
<1>6. QED
  <2>1. ~Crash
    BY <1>0, <1>1, CrashFlight
  <2>2. CASE UNCHANGED flying
    BY <1>2, <2>2
  <2>3. QED
    BY <1>4, <1>5, <2>1, <2>2 DEF Next, vars, NewBlock, Donate

(* A note goes when its term is over, or when it has none.                   *)
LEMMA NotesStep ==
    ASSUME IInv, [Next]_vars, NEW r \in failed, r \notin failed'
    PROVE  Expired(r) \/ r.end = Forever
<1>1. PICK c \in Chains : RetryTurn(c)
  BY DEF Next, vars, NewBlock, Donate, Crash, Turn, Look, PinTurn, UpdateFails, PinQueryFails,
         UnpinTurn, TurnFails, TaskStep, PinOk, PinFails, Record, Note, AddFailedPin,
         RmOk, RmFails, Delete, Arrives
<1>2. r.end <= bn[c]["retry"] /\ r.chain = c
  BY <1>1 DEF RetryTurn, DeleteExpiredFailed
<1>3. bn[c]["retry"] \in 0..MaxBlock
  BY <1>1, TurnFlight DEF RetryTurn, IInv, Loops
<1>4. bn[c]["retry"] <= latest[c] /\ latest[c] \in Int
  BY DEF IInv, Snapshots, Loops, TypeOK
<1>5. r \in Rows /\ r.end \in Int
  BY DEF IInv, TypeOK, Rows, Ends, Forever
<1>6. QED
  BY <1>2, <1>3, <1>4, <1>5 DEF Expired

(* A note is there since it was, or since a task has just noted it.          *)
LEMMA NotedStep ==
    ASSUME IInv, [Next]_vars, NEW r \in failed', r \notin failed
    PROVE  flying[Task("note", r)] > 0
<1>1. PICK q \in Rows : Note(q)
  BY DEF Next, vars, NewBlock, Donate, Crash, Turn, Look, PinTurn, UpdateFails, PinQueryFails,
         RetryTurn, DeleteExpiredFailed, UnpinTurn, TurnFails, TaskStep, PinOk, PinFails, Record,
         RmOk, RmFails, Delete, Arrives
<1>2. QED
  BY <1>1 DEF Note, AddFailedPin, IsDone

(* What a task at t leaves behind when it goes on, or is done.               *)
LEMMA FlightStays ==
    ASSUME TypeOK, NEW t \in TaskStates
    PROVE  /\ \A u \in TaskStates : t # u /\ GoesOn(t, u) =>
                 flying'[u] > 0 /\ \A x \in TaskStates \ {t} : flying[x] > 0 => flying'[x] > 0
           /\ IsDone(t) => \A x \in TaskStates \ {t} : flying[x] > 0 => flying'[x] > 0
BY DEF GoesOn, IsDone, TypeOK

(* The end of a turn takes no task away, and starts those asked for, unless  *)
(* their row has one already.                                               *)
LEMMA TurnStarts ==
    ASSUME TypeOK, NEW c, NEW loop, NEW S, TurnEnds(c, loop, S)
    PROVE  /\ \A t \in TaskStates : flying[t] > 0 => flying'[t] > 0
           /\ \A t \in TaskStates : t \in S =>
                 flying'[t] > 0 \/ \E stage \in Stages : flying[Task(stage, t.row)] > 0
<1>1. flying' = Spawned(S)
  BY DEF TurnEnds
<1>2. \A t \in TaskStates : flying[t] > 0 => flying'[t] > 0
  BY <1>1 DEF Spawned, TypeOK
<1>3. ASSUME NEW t \in TaskStates, t \in S, ~(flying'[t] > 0)
      PROVE  \E stage \in Stages : flying[Task(stage, t.row)] > 0
  <2>1. flying[t] \in Nat /\ t.row \in Rows
    BY DEF TypeOK, TaskStates
  <2>2. ~(InFlight(t.row) < MaxCopies)
    BY <1>1, <1>3, <2>1 DEF Spawned
  <2>3. \A stage \in Stages : flying[Task(stage, t.row)] \in Nat
    BY <2>1, StageTask DEF TypeOK
  <2>4. QED
    BY <2>2, <2>3 DEF InFlight, Stages
<1>4. QED
  BY <1>2, <1>3

(* A task that leads to a row stays on the books with each of its steps, as  *)
(* long as the process and the database do not fail.                        *)
LEMMA TaskStaysAccounted ==
    ASSUME IInv, [Next]_vars, "db" \notin Faults, ~Crash, NEW r \in Rows,
           NEW stage \in {"pin", "record", "note"}, flying[Task(stage, r)] > 0
    PROVE  Accounted(r)'
<1>0. TypeOK
  BY DEF IInv
<1> DEFINE t == Task(stage, r)
<1>1. t \in TaskStates /\ t.row = r /\ t.at = stage /\ t.at \in Stages
  BY StageTask DEF Stages
<1>2. CASE flying'[t] > 0
  BY <1>2 DEF Accounted, Task
<1>3. ASSUME NEW c \in Chains, Turn(c) PROVE flying'[t] > 0
  BY <1>0, <1>1, <1>3, TurnStarts
     DEF Turn, Look, PinTurn, UpdateFails, PinQueryFails, RetryTurn, UnpinTurn, TurnFails
<1>4. ASSUME NEW q \in Rows, TaskStep(q), ~(flying'[t] > 0) PROVE Accounted(r)'
  <2>1. /\ \A s \in Stages : Task(s, q) \in TaskStates /\ Task(s, q).row = q /\ Task(s, q).at = s
        /\ Stages = {"pin", "retry", "record", "note", "rm", "delete"}
    BY StageTask DEF Stages
  <2>2. ASSUME NEW s \in {"pin", "retry"}, NEW u \in {"record", "note"},
               GoesOn(Task(s, q), Task(u, q))
        PROVE  Accounted(r)'
    <3>1. Task(s, q) # Task(u, q)
      BY <2>1
    <3>2. flying'[Task(u, q)] > 0 /\ t = Task(s, q)
      BY <1>0, <1>1, <1>4, <2>1, <2>2, <3>1, FlightStays
    <3>3. q = r
      BY <1>1, <2>1, <3>2
    <3>4. QED
      BY <3>2, <3>3 DEF Accounted, Task
  <2>3. CASE Record(q)
    <3>1. t = Task("record", q)
      BY <1>0, <1>1, <1>4, <2>1, <2>3, FlightStays DEF Record
    <3>2. r \in pinned'
      BY <1>1, <2>1, <2>3, <3>1 DEF Record, AddCid
    <3>3. QED
      BY <3>2 DEF Accounted
  <2>4. CASE Note(q)
    <3>1. t = Task("note", q)
      BY <1>0, <1>1, <1>4, <2>1, <2>4, FlightStays DEF Note
    <3>2. r \in failed'
      BY <1>1, <2>1, <2>4, <3>1 DEF Note, AddFailedPin
    <3>3. QED
      BY <3>2 DEF Accounted
  <2>5. CASE IsDone(Task("retry", q)) \/ RmFails(q) \/ Delete(q)
    BY <1>0, <1>1, <1>4, <2>1, <2>5, FlightStays DEF RmFails, Delete
  <2>6. CASE RmOk(q)
    <3>1. Task("rm", q) # Task("delete", q)
      BY <2>1
    <3>2. QED
      BY <1>0, <1>1, <1>4, <2>1, <2>6, <3>1, FlightStays DEF RmOk
  <2>7. CASE Arrives(q)
    BY <1>0, <1>1, <1>4, <2>7, StrayStep
  <2>8. QED
    BY <1>4, <2>2, <2>3, <2>4, <2>5, <2>6, <2>7 DEF TaskStep, PinOk, PinFails
<1>5. CASE UNCHANGED flying
  BY <1>0, <1>1, <1>2, <1>5
<1>6. QED
  BY <1>2, <1>3, <1>4, <1>5 DEF Next, vars, NewBlock, Donate

(* What is on the books stays there till its end, or is moved to a later one. *)
LEMMA AccountedStep ==
    ASSUME IInv, [Next]_vars, "db" \notin Faults, ~Crash, NEW r \in Rows, Accounted(r)
    PROVE  Accounted(r)' \/ Expired(r) \/ r.end = Forever \/ MovedOn(r)
<1>1. CASE r \in pinned
  <2>1. CASE Updated
    <3>1. PICK c \in Chains : \E b : \E f \in ExtensionChoices(pinned, euvb, c, b) :
                                        pinned' = Extended(pinned, f)
      BY <2>1 DEF Updated
    <3>2. PICK b : \E f \in ExtensionChoices(pinned, euvb, c, b) : pinned' = Extended(pinned, f)
      BY <3>1
    <3>3. PICK f \in ExtensionChoices(pinned, euvb, c, b) : pinned' = Extended(pinned, f)
      BY <3>2
    <3>4. Moved(r, f) \in pinned'
      BY <1>1, <3>3 DEF Extended
    <3>5. /\ Copy(Moved(r, f)) = Copy(r) /\ Moved(r, f).chain = r.chain
          /\ Moved(r, f).cid = r.cid
          /\ Moved(r, f) = r \/ (r.end < Moved(r, f).end /\ EventOf(Moved(r, f)) \in euvb)
      BY <1>1, <3>3, UpdateMovesForward DEF IInv
    <3>6. QED
      BY <3>4, <3>5 DEF MovedOn, Accounted
  <2>2. QED
    BY <1>1, <2>1, TableSteps DEF Added, Dropped, Accounted
<1>2. CASE r \in failed
  BY <1>2, NotesStep DEF Accounted
<1>3. QED
  BY <1>1, <1>2, TaskStaysAccounted DEF Accounted

(* The lone term of a cid is not moved, and was the lone one before.         *)
LEMMA OneTermStays ==
    ASSUME IInv, [Next]_vars, NEW r \in Rows, OneTerm(r)'
    PROVE  OneTerm(r) /\ ~MovedOn(r)
<1>1. OneTerm(r)
  BY WorldGrows DEF OneTerm
<1>2. ASSUME NEW q \in pinned', EventOf(q) \in euvb, q.chain = r.chain, q.cid = r.cid,
             r.end < q.end
      PROVE  FALSE
  <2>1. EventOf(q).end = r.end
    BY <1>1, <1>2 DEF OneTerm, EventOf
  <2>2. QED
    BY <1>2, <2>1 DEF EventOf, Rows, Ends, Forever
<1>3. QED
  BY <1>1, <1>2 DEF MovedOn

(* Restarts are counted.                                                    *)
LEMMA RestartsCounted ==
    ASSUME IInv, [Next]_vars, crashes' = 0
    PROVE  crashes = 0 /\ ~Crash
<1>1. ~Crash
  BY DEF Crash, IInv, TypeOK
<1>2. UNCHANGED crashes
  BY <1>1
     DEF Next, vars, NewBlock, Donate, Turn, Look, PinTurn, UpdateFails, PinQueryFails,
         RetryTurn, UnpinTurn, TurnFails, TurnEnds, TaskStep, PinOk, PinFails, Record, Note,
         RmOk, RmFails, Delete, Arrives, GoesOn, IsDone
<1>3. QED
  BY <1>1, <1>2

(* A turn that starts a task for a row starts one for every node, unless one *)
(* is at work there, which then leads to a row, too.                        *)
LEMMA EveryNodeStarted ==
    ASSUME IInv, NodesInv, [Next]_vars, crashes = 0, "db" \notin Faults,
           NEW r \in Rows, NEW n \in Nodes, StartsPin(r), OneTerm(r), ~Expired(r)
    PROVE  Accounted([r EXCEPT !.node = n]) \/ Accounted([r EXCEPT !.node = n])'
<1>0. TypeOK
  BY DEF IInv
<1> DEFINE rn == [r EXCEPT !.node = n]
<1>1. /\ rn \in Rows /\ rn.node = n
      /\ rn.chain = r.chain /\ rn.cid = r.cid /\ rn.end = r.end
      /\ [rn EXCEPT !.node = n] = rn
  BY DEF Rows
<1>2. PICK c \in Chains :
        /\ TurnEnds(c, "pin", PinTasks(NewCids(euvb, pinned', c, bn[c]["pin"])))
        /\ Task("pin", r) \in PinTasks(NewCids(euvb, pinned', c, bn[c]["pin"]))
  BY DEF StartsPin
<1>3. Task("pin", rn) \in PinTasks(NewCids(euvb, pinned', c, bn[c]["pin"]))
  <2>1. PICK d \in NewCids(euvb, pinned', c, bn[c]["pin"]), m \in Nodes :
          Task("pin", r) = Task("pin", [chain |-> d.chain, node |-> m, cid |-> d.cid, end |-> d.end])
    BY <1>2 DEF PinTasks
  <2>2. r = [chain |-> d.chain, node |-> m, cid |-> d.cid, end |-> d.end]
    BY <2>1 DEF Task
  <2>3. rn = [chain |-> d.chain, node |-> n, cid |-> d.cid, end |-> d.end]
    BY <2>2
  <2>4. QED
    BY <2>3 DEF PinTasks
<1>4. Task("pin", rn) \in TaskStates /\ Task("pin", rn).row = rn
  BY <1>1, StageTask DEF Stages
<1>5. flying'[Task("pin", rn)] > 0 \/ \E stage \in Stages : flying[Task(stage, rn)] > 0
  BY <1>0, <1>2, <1>3, <1>4, TurnStarts
<1>6. CASE flying'[Task("pin", rn)] > 0
  BY <1>6 DEF Accounted, Task
<1>7. ASSUME NEW stage \in Stages, flying[Task(stage, rn)] > 0 PROVE Accounted(rn)
  <2>1. ~Expired(rn) /\ OneTerm(rn)
    BY <1>1 DEF Expired, OneTerm
  <2>2. stage \notin {"rm", "delete"}
    BY <1>1, <1>7, <2>1, TaskOfEvent DEF Expired, EventOf, Unpinning
  <2>3. Live(rn)
    BY <1>7, <2>2 DEF Live, Stages
  <2>4. Accounted([rn EXCEPT !.node = n])
    BY <1>1, <2>1, <2>3 DEF NodesInv
  <2>5. QED
    BY <1>1, <2>4
<1>8. QED
  BY <1>5, <1>6, <1>7

LEMMA NodesStep == IInv /\ NodesInv /\ [Next]_vars => NodesInv'
<1> SUFFICES ASSUME IInv, NodesInv, [Next]_vars, crashes' = 0, "db" \notin Faults,
                    NEW r \in Rows, NEW n \in Nodes, Live(r)', OneTerm(r)', ~Expired(r)'
             PROVE  Accounted([r EXCEPT !.node = n])'
  BY DEF NodesInv, Live, OneTerm, Expired, Accounted, Task
<1> DEFINE rn == [r EXCEPT !.node = n]
<1>0. crashes = 0 /\ ~Crash
  BY RestartsCounted
<1>1. /\ rn \in Rows /\ rn.chain = r.chain /\ rn.cid = r.cid /\ rn.end = r.end
      /\ r.chain \in Chains /\ r.end \in Int
  BY DEF Rows, Ends, Forever
<1>2. OneTerm(r) /\ ~Expired(r)
  BY <1>1, OneTermStays, OverStaysOver
<1>3. ASSUME Accounted(rn) PROVE Accounted(rn)'
  <2>1. OneTerm(rn)'
    BY <1>1 DEF OneTerm
  <2>2. ~MovedOn(rn) /\ rn.end # Forever /\ ~Expired(rn)
    BY <1>1, <1>2, <2>1, OneTermStays DEF OneTerm, Expired
  <2>3. QED
    BY <1>0, <1>1, <1>3, <2>2, AccountedStep
<1>4. CASE Live(r)
  <2>1. Accounted(rn)
    BY <1>0, <1>2, <1>4 DEF NodesInv
  <2>2. QED
    BY <1>3, <2>1
<1>5. CASE StartsPin(r)
  <2>1. Accounted(rn) \/ Accounted(rn)'
    BY <1>0, <1>2, <1>5, EveryNodeStarted
  <2>2. QED
    BY <1>3, <2>1
<1>6. CASE r \in pinned'
  <2>1. ASSUME NEW p \in pinned, Copy(p) = Copy(r), p.chain = r.chain, p.cid = r.cid
        PROVE  Live(r)
    <3>1. EventOf(p) \in euvb /\ p \in Rows
      BY DEF IInv, RowsBacked, TypeOK
    <3>2. p.end = r.end
      BY <1>2, <2>1, <3>1 DEF OneTerm, EventOf
    <3>3. p = r
      BY <2>1, <3>1, <3>2 DEF Rows, Copy
    <3>4. QED
      BY <3>3 DEF Live
  <2>2. QED
    BY <1>4, <1>6, <2>1, RowStep DEF Live
<1>7. CASE r \in failed'
  BY <1>4, <1>7, NotedStep DEF Live
<1>8. CASE \E stage \in {"pin", "retry", "record", "note"} : flying'[Task(stage, r)] > 0
  BY <1>4, <1>5, <1>8, FlightStep
<1>9. QED
  <2>1. \/ r \in pinned' \cup failed'
        \/ \E stage \in {"pin", "retry", "record", "note"} : flying'[Task(stage, r)] > 0
    BY DEF Live, Task
  <2>2. QED
    BY <1>6, <1>7, <1>8, <2>1

(* No node is forgotten: get_new_cids returns a cid no more once one node has *)
(* a row of it, but by then the others have rows, notes or tasks.            *)
THEOREM NobodyForgotten == Spec => []EveryNodeAccounted
<1>1. Init => NodesInv
  <2> SUFFICES ASSUME Init, NEW r \in Rows PROVE ~Live(r)
    BY DEF NodesInv
  <2>1. \A stage \in Stages : flying[Task(stage, r)] = 0
    BY StageTask DEF Init
  <2>2. QED
    BY <2>1 DEF Init, Live, Stages
<1>2. IInv /\ NodesInv => EveryNodeAccounted
  BY DEF IInv, TypeOK, NodesInv, EveryNodeAccounted, Live
<1>3. QED
  BY <1>1, <1>2, NodesStep, IInvAlways, PTL DEF Spec

-----------------------------------------------------------------------------
\* A node is asked again for what is noted, unless the note was taken away
\* meanwhile.
RetryInv ==
    \A r \in Rows :
        flying[Task("retry", r)] > 0 => r \in failed \/ Expired(r) \/ r.end = Forever

\* What PinsOnTheBooks says of the copy p.
OnTheBooks(p) ==
    \/ \E r \in Rows : Copy(r) = p /\ Accounted(r)
    \/ \E d \in euvb : <<p[1], d.cid>> = p /\ (d.end = Forever \/ Expired(d))

(* Only a turn of retry_failed_cids starts tasks that try again.             *)
LEMMA RetryStarted ==
    ASSUME IInv, [Next]_vars, NEW r \in Rows, flying'[Task("retry", r)] > 0
    PROVE  flying[Task("retry", r)] > 0 \/ r \in failed'
<1>0. TypeOK /\ Snapshots
  BY DEF IInv
<1> DEFINE t == Task("retry", r)
<1>1. t \in TaskStates /\ t.at = "retry" /\ t.row = r /\ t.at \in Stages
  BY StageTask DEF Stages
<1>2. ASSUME NEW c \in Chains, NEW loop \in Loops, NEW S, TurnEnds(c, loop, S)
      PROVE  flying[t] > 0 \/ t \in S
  BY <1>0, <1>1, <1>2, TurnFlight
<1>3. ASSUME NEW c \in Chains, Turn(c), ~(flying[t] > 0) PROVE r \in failed'
  <2>1. ASSUME NEW new, t \in PinTasks(new) PROVE FALSE
    BY <1>1, <2>1, PinTaskPins
  <2>2. \A S : t \notin { Task("rm", q) : q \in S }
    BY <1>1 DEF Task
  <2>3. CASE RetryTurn(c)
    <3> DEFINE S == { Task("retry", q) : q \in FailedCids(failed', c, bn[c]["retry"]) }
    <3>1. TurnEnds(c, "retry", S) \/ TurnEnds(c, "retry", {})
      BY <2>3 DEF RetryTurn
    <3>2. t \in S
      <4> HIDE DEF S
      <4>1. QED
        BY <1>2, <1>3, <3>1 DEF Loops
    <3>3. QED
      BY <1>1, <3>2 DEF FailedCids, Task
  <2>4. QED
    BY <1>2, <1>3, <2>1, <2>2, <2>3
       DEF Turn, Look, PinTurn, UpdateFails, PinQueryFails, UnpinTurn, TurnFails, Loops
<1>4. ASSUME NEW q \in Rows, TaskStep(q) PROVE flying[t] > 0
  <2>1. /\ \A s \in Stages : Task(s, q) \in TaskStates /\ Task(s, q).at = s
        /\ Stages = {"pin", "retry", "record", "note", "rm", "delete"}
    BY StageTask DEF Stages
  <2>2. ASSUME NEW s \in Stages, NEW u \in Stages \ {s, "retry"},
               GoesOn(Task(s, q), Task(u, q))
        PROVE  flying[t] > 0
    <3>1. Task(s, q) # Task(u, q) /\ t # Task(u, q)
      BY <1>1, <2>1, <2>2
    <3>2. QED
      BY <1>0, <1>1, <2>1, <2>2, <3>1, GoesOnFlight
  <2>3. ASSUME NEW s \in Stages, IsDone(Task(s, q)) PROVE flying[t] > 0
    BY <1>0, <1>1, <2>1, <2>3, IsDoneFlight
  <2>4. CASE Arrives(q)
    BY <1>0, <1>1, <2>4, StrayStep
  <2>5. QED
    BY <1>4, <2>1, <2>2, <2>3, <2>4
       DEF TaskStep, PinOk, PinFails, Record, Note, RmOk, RmFails, Delete
<1>5. ~Crash
  BY <1>0, <1>1, CrashFlight
<1>6. QED
  BY <1>1, <1>3, <1>4, <1>5 DEF Next, vars, NewBlock, Donate

LEMMA RetryStep == IInv /\ RetryInv /\ [Next]_vars => RetryInv'
<1> SUFFICES ASSUME IInv, RetryInv, [Next]_vars, NEW r \in Rows,
                    flying'[Task("retry", r)] > 0, r \notin failed'
             PROVE  Expired(r)' \/ r.end = Forever
  BY DEF RetryInv, Expired, Task
<1>1. r \in failed \/ Expired(r) \/ r.end = Forever
  BY RetryStarted DEF RetryInv
<1>2. Expired(r) \/ r.end = Forever
  BY <1>1, NotesStep
<1>3. QED
  BY <1>2, OverStaysOver DEF Rows, Ends, Forever

\* Requests only outlive a process that has ended.
StrayInv ==
    crashes = 0 => \A r \in Rows, stage \in Strays : flying[Task(stage, r)] = 0

LEMMA StraysStep == IInv /\ StrayInv /\ [Next]_vars => StrayInv'
<1> SUFFICES ASSUME IInv, StrayInv, [Next]_vars, crashes' = 0,
                    NEW r \in Rows, NEW stage \in Strays
             PROVE  flying'[Task(stage, r)] = 0
  BY DEF StrayInv, Task
<1> DEFINE t == Task(stage, r)
<1>1. t \in TaskStates /\ t.at \in Strays /\ t.at \notin Stages
  BY StageTask DEF Strays, Stages
<1>2. crashes = 0 /\ ~Crash
  BY RestartsCounted
<1>3. flying[t] = 0 /\ TypeOK /\ Snapshots
  BY <1>2 DEF StrayInv, IInv
<1>4. flying'[t] \in Nat
  BY <1>1, IInvStep DEF IInv, TypeOK
<1>5. ASSUME NEW c \in Chains, Turn(c) PROVE flying'[t] = 0
  <2>1. \A S : t \notin { Task("retry", q) : q \in S } /\ t \notin { Task("rm", q) : q \in S }
    BY <1>1 DEF Task, Stages
  <2>2. \A new : t \notin PinTasks(new)
    BY <1>1, PinTaskPins DEF Stages
  <2>3. ASSUME NEW loop \in Loops, NEW S, TurnEnds(c, loop, S), t \notin S
        PROVE  flying'[t] = 0
    BY <1>1, <1>3, <1>4, <2>3, TurnFlight
  <2>4. QED
    BY <1>3, <1>5, <2>1, <2>2, <2>3
       DEF Turn, Look, PinTurn, UpdateFails, PinQueryFails, RetryTurn, UnpinTurn, TurnFails, Loops
<1>6. ASSUME NEW q \in Rows, TaskStep(q) PROVE flying'[t] = 0
  <2>1. \A s \in Stages : Task(s, q) \in TaskStates /\ Task(s, q).at = s
    BY StageTask
  <2>2. ASSUME NEW s \in Stages, NEW u \in Stages \ {s}, GoesOn(Task(s, q), Task(u, q))
        PROVE  flying'[t] = 0
    <3>1. t # Task(u, q) /\ Task(s, q) # Task(u, q)
      BY <1>1, <2>1
    <3>2. QED
      BY <1>1, <1>3, <1>4, <2>1, <2>2, <3>1, GoesOnFlight
  <2>3. ASSUME NEW s \in Stages, IsDone(Task(s, q)) PROVE flying'[t] = 0
    BY <1>1, <1>3, <1>4, <2>1, <2>3, IsDoneFlight
  <2>4. CASE Arrives(q)
    BY <1>1, <1>3, <1>4, <2>4, StrayStep
  <2>5. QED
    BY <1>6, <2>2, <2>3, <2>4
       DEF TaskStep, PinOk, PinFails, Record, Note, RmOk, RmFails, Delete, Stages
<1>7. QED
  BY <1>2, <1>3, <1>5, <1>6 DEF Next, vars, NewBlock, Donate

(* A copy comes by pin/add, with a record or note in flight, or by a retry.  *)
LEMMA NewPin ==
    ASSUME IInv, StrayInv, crashes = 0, [Next]_vars, NEW p \in pins', p \notin pins
    PROVE  \E r \in Rows : Copy(r) = p /\ (Accounted(r)' \/ flying[Task("retry", r)] > 0)
<1>0. ASSUME NEW r \in Rows, Arrives(r) PROVE FALSE
  BY <1>0, StrayStep DEF StrayInv, IInv
<1>1. PICK r \in Rows : PinOk(r) \/ PinFails(r)
  BY <1>0
     DEF Next, vars, NewBlock, Donate, Crash, Turn, Look, PinTurn, UpdateFails, PinQueryFails,
         RetryTurn, UnpinTurn, TurnFails, TurnEnds, TaskStep, Record, Note, RmOk, RmFails, Delete
<1>2. Copy(r) = p
  BY <1>1 DEF PinOk, PinFails
<1>3. \/ \E s \in {"pin", "retry"}, u \in {"record", "note"} : GoesOn(Task(s, r), Task(u, r))
      \/ IsDone(Task("retry", r))
  BY <1>1 DEF PinOk, PinFails
<1>4. ASSUME NEW s \in {"pin", "retry"}, NEW u \in {"record", "note"},
             GoesOn(Task(s, r), Task(u, r))
      PROVE  Accounted(r)'
  <2>1. Task(s, r) \in TaskStates /\ Task(u, r) \in TaskStates /\ Task(s, r) # Task(u, r)
    BY StageTask DEF Stages
  <2>2. flying'[Task(u, r)] > 0
    BY <1>4, <2>1, FlightStays DEF IInv
  <2>3. QED
    BY <2>2 DEF Accounted, Task
<1>5. QED
  BY <1>2, <1>3, <1>4 DEF IsDone

(* An event that is over, or that never ends, excuses its cid on every node. *)
LEMMA Excused ==
    ASSUME IInv, [Next]_vars, NEW p, NEW d \in euvb, <<p[1], d.cid>> = p,
           d.end = Forever \/ Expired(d)
    PROVE  OnTheBooks(p)'
<1>1. d \in euvb' /\ (d.end = Forever \/ Expired(d)')
  BY WorldGrows, OverStaysOver, EventType DEF IInv
<1>2. QED
  BY <1>1 DEF OnTheBooks

LEMMA BooksKept ==
    ASSUME IInv, [Next]_vars, "db" \notin Faults, ~Crash, NEW r \in Rows,
           Accounted(r) \/ Expired(r) \/ r.end = Forever, EventOf(r) \in euvb
    PROVE  OnTheBooks(Copy(r))'
<1>1. ASSUME NEW q \in Rows, Copy(q) = Copy(r), Accounted(q)' PROVE OnTheBooks(Copy(r))'
  BY <1>1 DEF OnTheBooks, Copy
<1>2. CASE Expired(r) \/ r.end = Forever
  <2>1. /\ <<Copy(r)[1], EventOf(r).cid>> = Copy(r)
        /\ EventOf(r).end = Forever \/ Expired(EventOf(r))
    BY <1>2 DEF EventOf, Copy, Expired
  <2>2. OnTheBooks(<<r.node, r.cid>>)'
    BY <2>1, Excused DEF Copy
  <2>3. QED
    BY <2>2 DEF Copy
<1>3. CASE MovedOn(r)
  <2>1. PICK q \in pinned' : Copy(q) = Copy(r)
    BY <1>3 DEF MovedOn
  <2>2. q \in Rows /\ Accounted(q)'
    BY IInvStep DEF IInv, TypeOK, Accounted
  <2>3. QED
    BY <1>1, <2>1, <2>2
<1>4. QED
  BY <1>1, <1>2, <1>3, AccountedStep

LEMMA BooksStep ==
    IInv /\ RetryInv /\ StrayInv /\ PinsOnTheBooks /\ [Next]_vars => PinsOnTheBooks'
<1> SUFFICES ASSUME IInv, RetryInv, StrayInv, PinsOnTheBooks, [Next]_vars, crashes' = 0,
                    "db" \notin Faults, NEW p \in pins'
             PROVE  OnTheBooks(p)'
  BY DEF PinsOnTheBooks, OnTheBooks, Copy, Accounted, Expired, Task
<1>0. crashes = 0 /\ ~Crash
  BY RestartsCounted
<1>1. ASSUME NEW r \in Rows, Copy(r) = p, Accounted(r) PROVE OnTheBooks(p)'
  <2>1. EventOf(r) \in euvb
    BY <1>1, TaskOfEvent DEF Accounted, IInv, RowsBacked, Stages
  <2>2. OnTheBooks(Copy(r))'
    BY <1>0, <1>1, <2>1, BooksKept
  <2>3. QED
    BY <1>1, <2>2 DEF Copy
<1>2. CASE p \in pins
  <2>1. OnTheBooks(p)
    BY <1>0, <1>2 DEF PinsOnTheBooks, OnTheBooks
  <2>2. QED
    BY <1>1, <2>1, Excused DEF OnTheBooks
<1>3. CASE p \notin pins
  <2>1. PICK r \in Rows : Copy(r) = p /\ (Accounted(r)' \/ flying[Task("retry", r)] > 0)
    BY <1>0, <1>3, NewPin
  <2>2. CASE Accounted(r)'
    BY <2>1, <2>2 DEF OnTheBooks, Copy
  <2>3. CASE flying[Task("retry", r)] > 0
    <3>1. Accounted(r) \/ Expired(r) \/ r.end = Forever
      BY <2>3 DEF RetryInv, Accounted
    <3>2. EventOf(r) \in euvb
      BY <2>3, TaskOfEvent DEF Stages
    <3>3. OnTheBooks(Copy(r))'
      BY <1>0, <3>1, <3>2, BooksKept
    <3>4. QED
      BY <2>1, <3>3 DEF Copy
  <2>4. QED
    BY <2>1, <2>2, <2>3
<1>4. QED
  BY <1>2, <1>3

(* No pin gets off the books before a term of its cid is over, whatever      *)
(* answers are lost and however turns and tasks overlap.                    *)
THEOREM NoStrayPin == Spec => []PinsOnTheBooks
<1>1. Init => RetryInv /\ StrayInv /\ PinsOnTheBooks
  BY StageTask DEF Init, RetryInv, StrayInv, PinsOnTheBooks, Stages
<1>2. QED
  BY <1>1, RetryStep, StraysStep, BooksStep, IInvAlways, PTL DEF Spec
=============================================================================
