--------------------------- MODULE ProvidersProofs ---------------------------
(***************************************************************************)
(* Proofs about Providers, for every set of listeners, length of the list    *)
(* and number of breaks and restarts.                                       *)
(*                                                                          *)
(* That latest_block never goes back rests on the heartbeat having one       *)
(* request under way at a time: its answer is never older than what is       *)
(* stored (BeatInv), through errors, new connections and restarts.           *)
(***************************************************************************)
EXTENDS Providers, TLAPS

\* The number the heartbeat holds is at least as new as the stored one.
BeatInv ==
    /\ latest <= answer /\ answer <= head
    /\ beat = "stored" => latest = answer

\* A round works with a number that was the latest once.
RoundInv == \A t \in Listeners : bn[t] <= latest

IInv == TypeOK /\ BeatInv /\ RoundInv /\ ShownIsLatest /\ ReportsInOrder

USE ProvidersAssumption

-----------------------------------------------------------------------------
(* Making room keeps the entries and their order.                           *)
LEMMA RoomKeeps ==
    ASSUME NEW s \in Seq(Entries), Len(s) <= MaxEvents
    PROVE  /\ Room(s) \in Seq(Entries)
           /\ Len(Room(s)) < MaxEvents
           /\ \E d \in {0, 1} : /\ Len(Room(s)) + d = Len(s)
                                /\ \A i \in 1..Len(Room(s)) : Room(s)[i] = s[i + d]
<1>1. CASE Len(s) >= MaxEvents
  <2>1. s # << >> /\ Room(s) = Tail(s)
    BY <1>1 DEF Room
  <2>2. Tail(s) \in Seq(Entries) /\ Len(Tail(s)) + 1 = Len(s)
    BY <2>1
  <2>3. \A i \in 1..Len(Tail(s)) : Tail(s)[i] = s[i + 1]
    BY <2>1
  <2>4. QED
    BY <1>1, <2>1, <2>2, <2>3
<1>2. CASE ~(Len(s) >= MaxEvents)
  <2>1. Room(s) = s
    BY <1>2 DEF Room
  <2>2. Len(s) + 0 = Len(s) /\ \A i \in 1..Len(s) : s[i] = s[i + 0]
    OBVIOUS
  <2>3. QED
    BY <1>2, <2>1, <2>2
<1>3. QED
  BY <1>1, <1>2

LEMMA EntryType ==
    ASSUME TypeOK, NEW i \in DOMAIN events
    PROVE  events[i].update_block \in Int /\ events[i].event \in Listeners
<1>1. events \in Seq(Entries) /\ DOMAIN events = 1..Len(events)
  BY DEF TypeOK
<1>2. events[i] \in Entries
  BY <1>1
<1>3. QED
  BY <1>2 DEF Entries

(* The list stays in order while it and the rounds are left alone.           *)
LEMMA OrderKept ==
    ASSUME TypeOK, TypeOK', ReportsInOrder, UNCHANGED <<events, bn>>, latest <= latest'
    PROVE  ReportsInOrder'
<1>1. \A i \in DOMAIN events : events[i].update_block \in Int
  BY EntryType
<1>2. QED
  BY <1>1 DEF ReportsInOrder, TypeOK

(* A new entry is not older than those of its listener before it.            *)
LEMMA ReportKeepsOrder ==
    ASSUME IInv, NEW t \in Listeners, Report(t)
    PROVE  ReportsInOrder' /\ events' \in Seq(Entries)
<1> DEFINE r == Room(events)
           e == [event |-> t, update_block |-> bn[t]]
<1>0. events \in Seq(Entries) /\ Len(events) <= MaxEvents /\ bn[t] \in 0..MaxHead
  BY DEF IInv, TypeOK, ReportsInOrder
<1>1. PICK d \in {0, 1} : /\ Len(r) + d = Len(events)
                          /\ \A i \in 1..Len(r) : r[i] = events[i + d]
  BY <1>0, RoomKeeps
<1>2. r \in Seq(Entries) /\ Len(r) < MaxEvents /\ e \in Entries
  BY <1>0, RoomKeeps DEF Entries
<1>3. events' = Append(r, e) /\ UNCHANGED <<bn, latest>>
  BY DEF Report
<1> HIDE DEF r, e
<1>4. /\ events' \in Seq(Entries) /\ Len(events') = Len(r) + 1
      /\ DOMAIN events' = 1..(Len(r) + 1)
      /\ \A i \in 1..Len(r) : events'[i] = r[i]
      /\ events'[Len(r) + 1] = e
  BY <1>2, <1>3
<1>5. \A i \in 1..Len(r) : i + d \in DOMAIN events /\ events'[i] = events[i + d]
  BY <1>0, <1>1, <1>4
<1>6. /\ e.event = t /\ e.update_block = bn[t] /\ bn[t] <= latest
  BY DEF e, IInv, RoundInv
<1>7. ASSUME NEW i \in DOMAIN events'
      PROVE  events'[i].update_block <= bn[events'[i].event] /\ events'[i].update_block <= latest
  <2>1. CASE i \in 1..Len(r)
    BY <1>5, <2>1 DEF IInv, ReportsInOrder
  <2>2. CASE i = Len(r) + 1
    BY <1>0, <1>4, <1>6, <2>2
  <2>3. QED
    BY <1>2, <1>4, <2>1, <2>2
<1>8. ASSUME NEW i \in DOMAIN events', NEW j \in DOMAIN events', i < j,
             events'[i].event = events'[j].event
      PROVE  events'[i].update_block <= events'[j].update_block
  <2>1. i \in 1..Len(r)
    BY <1>2, <1>4, <1>8
  <2>2. CASE j \in 1..Len(r)
    <3>1. i + d < j + d
      BY <1>1, <1>8, <2>1, <2>2
    <3>2. QED
      BY <1>5, <1>8, <2>1, <2>2, <3>1 DEF IInv, ReportsInOrder
  <2>3. CASE j = Len(r) + 1
    BY <1>4, <1>6, <1>7, <1>8, <2>3
  <2>4. QED
    BY <1>2, <1>4, <2>2, <2>3
<1>9. QED
  BY <1>2, <1>3, <1>4, <1>7, <1>8 DEF ReportsInOrder

-----------------------------------------------------------------------------
LEMMA IInvInit == Init => IInv
<1> SUFFICES ASSUME Init PROVE IInv
  OBVIOUS
<1>1. TypeOK /\ BeatInv /\ RoundInv /\ ShownIsLatest
  BY DEF Init, TypeOK, BeatInv, RoundInv, ShownIsLatest
<1>2. ReportsInOrder
  BY DEF Init, ReportsInOrder
<1>3. QED
  BY <1>1, <1>2 DEF IInv

(* A step of chain or process keeps the invariant.                           *)
LEMMA EnvironmentKeeps == ASSUME IInv, Environment PROVE IInv'
<1> USE DEF IInv, TypeOK, BeatInv, RoundInv, ShownIsLatest
<1>1. CASE NewBlock
  <2>1. TypeOK' /\ BeatInv' /\ RoundInv' /\ ShownIsLatest'
    BY <1>1 DEF NewBlock, beatVars, listenerVars
  <2>2. QED
    BY <1>1, <2>1, OrderKept DEF NewBlock, beatVars, listenerVars
<1>2. CASE Break
  <2>1. TypeOK' /\ BeatInv' /\ RoundInv' /\ ShownIsLatest'
    BY <1>2 DEF Break
  <2>2. QED
    BY <1>2, <2>1, OrderKept DEF Break
<1>3. CASE Restart
  <2>1. TypeOK' /\ BeatInv' /\ RoundInv' /\ ShownIsLatest'
    BY <1>3 DEF Restart
  <2>2. ReportsInOrder'
    BY <1>3 DEF Restart, ReportsInOrder
  <2>3. QED
    BY <2>1, <2>2
<1>4. QED
  BY <1>1, <1>2, <1>3 DEF Environment

(* A step of the heartbeat keeps the invariant.                              *)
LEMMA HeartbeatKeeps == ASSUME IInv, Heartbeat PROVE IInv'
<1> USE DEF IInv, TypeOK, BeatInv, RoundInv, ShownIsLatest, listenerVars
<1>1. CASE Ask
  BY <1>1, OrderKept DEF Ask
<1>2. CASE Answer
  BY <1>2, OrderKept DEF Answer
<1>3. CASE AskFails
  BY <1>3, OrderKept DEF AskFails
<1>4. CASE Connect
  <2>1. TypeOK' /\ BeatInv' /\ RoundInv' /\ ShownIsLatest'
    BY <1>4 DEF Connect
  <2>2. QED
    BY <1>4, <2>1, OrderKept DEF Connect
<1>5. CASE ConnectFails
  BY <1>5, OrderKept DEF ConnectFails
<1>6. CASE Store
  <2>1. TypeOK' /\ BeatInv' /\ RoundInv' /\ ShownIsLatest'
    BY <1>6 DEF Store
  <2>2. QED
    BY <1>6, <2>1, OrderKept DEF Store
<1>7. CASE Show
  BY <1>7, OrderKept DEF Show
<1>8. QED
  BY <1>1, <1>2, <1>3, <1>4, <1>5, <1>6, <1>7 DEF Heartbeat

(* A step of a listener keeps the invariant.                                 *)
LEMMA ListenerKeeps == ASSUME IInv, NEW t \in Listeners, Listener(t) PROVE IInv'
<1> USE DEF IInv, TypeOK, BeatInv, RoundInv, ShownIsLatest, beatVars
<1>1. CASE Poll(t)
  <2>1. TypeOK' /\ BeatInv' /\ RoundInv' /\ ShownIsLatest'
    BY <1>1 DEF Poll
  <2>2. ReportsInOrder'
    <3>1. \A i \in DOMAIN events : events[i].update_block \in Int /\ events[i].event \in Listeners
      BY EntryType
    <3>2. bn' = [bn EXCEPT ![t] = latest] /\ UNCHANGED <<events, latest>>
      BY <1>1 DEF Poll
    <3>3. QED
      BY <3>1, <3>2 DEF ReportsInOrder
  <2>3. QED
    BY <2>1, <2>2
<1>2. CASE Fetched(t)
  BY <1>2, OrderKept DEF Fetched
<1>3. CASE FetchFails(t)
  BY <1>3, OrderKept DEF FetchFails
<1>4. CASE Report(t)
  <2>1. ReportsInOrder' /\ events' \in Seq(Entries)
    BY <1>4, ReportKeepsOrder
  <2>2. TypeOK' /\ BeatInv' /\ RoundInv' /\ ShownIsLatest'
    BY <1>4, <2>1 DEF Report
  <2>3. QED
    BY <2>1, <2>2
<1>5. QED
  BY <1>1, <1>2, <1>3, <1>4 DEF Listener

LEMMA IInvStep == IInv /\ [Next]_vars => IInv'
<1> SUFFICES ASSUME IInv, [Next]_vars PROVE IInv'
  OBVIOUS
<1>1. CASE UNCHANGED vars
  BY <1>1 DEF vars, beatVars, listenerVars, IInv, TypeOK, BeatInv, RoundInv, ShownIsLatest,
              ReportsInOrder
<1>2. QED
  BY <1>1, EnvironmentKeeps, HeartbeatKeeps, ListenerKeeps DEF Next

LEMMA IInvAlways == Spec => []IInv
BY IInvInit, IInvStep, PTL DEF Spec

-----------------------------------------------------------------------------
(* The variables of heartbeat and listeners keep their types.                *)
THEOREM TypeCorrect == Spec => []TypeOK
<1>1. IInv => TypeOK
  BY DEF IInv
<1>2. QED
  BY <1>1, IInvAlways, PTL

(* /monitoring shows the block number the services work with, but between    *)
(* the two locks of a beat and before the first one.                        *)
THEOREM ShownRight == Spec => []ShownIsLatest
<1>1. IInv => ShownIsLatest
  BY DEF IInv
<1>2. QED
  BY <1>1, IInvAlways, PTL

(* The list of rounds stays bounded and in order, over any number of         *)
(* listeners, breaks and restarts.                                          *)
THEOREM ReportsOrdered == Spec => []ReportsInOrder
<1>1. IInv => ReportsInOrder
  BY DEF IInv
<1>2. QED
  BY <1>1, IInvAlways, PTL

(* The Providers service implements the clock the other services count on.   *)
THEOREM ImplementsClock == Spec => ClockSpec
<1>1. Init => Clock!Init
  BY DEF Init, Clock!Init
<1>2. ASSUME IInv, [Next]_vars PROVE [Clock!Next]_<<head, latest>>
  <2> USE DEF IInv, TypeOK, BeatInv
  <2>1. CASE NewBlock
    BY <1>2, <2>1 DEF NewBlock, Clock!Next, Clock!Mine
  <2>2. CASE Restart \/ Store
    BY <1>2, <2>2 DEF Restart, Store, Clock!Next, Clock!Learn
  <2>3. QED
    BY <1>2, <2>1, <2>2
       DEF Next, vars, Environment, Break, Heartbeat, Ask, Answer, AskFails, Connect,
           ConnectFails, Show, Listener, Poll, Fetched, FetchFails, Report
<1>3. QED
  BY <1>1, <1>2, IInvAlways, PTL DEF Spec, ClockSpec, Clock!Spec
=============================================================================
