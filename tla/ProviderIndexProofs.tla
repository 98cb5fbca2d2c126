------------------------ MODULE ProviderIndexProofs ------------------------
(***************************************************************************)
(* Proofs about ProviderIndex, for every set of listeners and logs, batch    *)
(* size, start block, skip_old setting and number of restarts.              *)
(*                                                                          *)
(* A listener handles a log that is on the chain (RangeInv), and an update    *)
(* touches only rows of an older block: by these two a row stays a mixture   *)
(* of real events, and is only moved forward.  That no row goes or goes back  *)
(* is in turn what excuses the blocks that a listener has skipped.           *)
(***************************************************************************)
EXTENDS ProviderIndex, TLAPS

\* A range ends at a block the chain has, and holds the logs being handled.
RangeInv ==
    /\ latest <= head
    /\ \A t \in Tasks :
         /\ pc[t] \in {"fetch", "handle"} => from[t] <= start[t] /\ start[t] <= head
         /\ pc[t] = "handle" => pending[t] \subseteq LogsIn(t, from[t], start[t])

IInv == TypeOK /\ RangeInv

USE LoopAssumption, LogsAssumption, TopicAssumption, EventAssumption, GweiAssumption

-----------------------------------------------------------------------------
LEMMA RangeBounds ==
    ASSUME NEW s \in Nat, NEW bn \in Nat
    PROVE  /\ SkipTo(s, bn) \in Nat
           /\ SkipTo(s, bn) >= s
           /\ s < bn => RangeEnd(s, bn) \in Nat /\ s < RangeEnd(s, bn) /\ RangeEnd(s, bn) <= bn
BY DEF SkipTo, RangeEnd

(* The row of an AddProvider event is well typed.                           *)
LEMMA AddedRow ==
    ASSUME NEW l \in Logs, l.task = "add", l.block \in 0..MaxHead
    PROVE  ProviderRow(l) \in Rows
<1>1. l.value \in [owner : STRING, price : Nat, url : STRING, name : STRING]
  OBVIOUS
<1>2. AsI64(l.pid) \in { AsI64(m.pid) : m \in Logs }
  OBVIOUS
<1>3. AsI64(l.value.price \div Gwei) \in Int
  BY <1>1 DEF AsI64
<1>4. QED
  BY <1>1, <1>2, <1>3 DEF ProviderRow, Rows

(* An update changes a column and the block of a row, and nothing else.      *)
LEMMA StampedRow ==
    ASSUME NEW r \in Rows, NEW l \in Logs, l.task \in {"price", "url", "name"},
           l.block \in 0..MaxHead
    PROVE  LET q == Stamp(r, l.block, l.task, Written(l)) IN
           /\ q \in Rows
           /\ q.pid = r.pid
           /\ q.ub = l.block
           /\ q[l.task] = Written(l)
           /\ \A column \in Columns : column # l.task => q[column] = r[column]
<1> DEFINE q == Stamp(r, l.block, l.task, Written(l))
<1>1. CASE l.task = "price"
  <2>1. Written(l) \in Int
    BY <1>1 DEF Written, AsI64
  <2>2. q = [r EXCEPT !.ub = l.block, !.price = Written(l)]
    BY <1>1 DEF Stamp
  <2>3. QED
    BY <1>1, <2>1, <2>2 DEF Rows, Columns
<1>2. CASE l.task = "url"
  <2>1. Written(l) \in STRING
    BY <1>2 DEF Written
  <2>2. q = [r EXCEPT !.ub = l.block, !.url = Written(l)]
    BY <1>2 DEF Stamp
  <2>3. QED
    BY <1>2, <2>1, <2>2 DEF Rows, Columns
<1>3. CASE l.task = "name"
  <2>1. Written(l) \in STRING
    BY <1>3 DEF Written
  <2>2. q = [r EXCEPT !.ub = l.block, !.name = Written(l)]
    BY <1>3 DEF Stamp
  <2>3. QED
    BY <1>3, <2>1, <2>2 DEF Rows, Columns
<1>4. QED
  BY <1>1, <1>2, <1>3

-----------------------------------------------------------------------------
LEMMA IInvInit == Init => IInv
BY DEF Init, LoopInit, IInv, TypeOK, LoopTypeOK, RangeInv

(* A listener only gets at logs that are on the chain.                       *)
LEMMA OnTheChain ==
    ASSUME IInv, NEW t \in Tasks, NEW l \in Logs, IsNext(t, l)
    PROVE  l.task = t /\ l.block <= head /\ l.block \in 0..MaxHead
<1>1. l \in LogsIn(t, from[t], start[t]) /\ start[t] <= head
  BY DEF IInv, RangeInv, IsNext
<1>2. head \in 0..MaxHead /\ start[t] \in Nat /\ l.block \in Nat
  BY DEF IInv, TypeOK, LoopTypeOK
<1>3. QED
  BY <1>1, <1>2 DEF LogsIn

(* The newest row's block, where there is one, is the block of a row.        *)
LEMMA MaxIsOfARow ==
    ASSUME NEW b \in MaxUpdateBlock(table, ChainId)
    PROVE  \E r \in table : r.ub = b
BY DEF MaxUpdateBlock

(* What a step can do to the table.                                         *)
LEMMA TableStep ==
    ASSUME [Next]_vars
    PROVE  \/ UNCHANGED table
           \/ \E l \in Logs : Add(l)
           \/ \E l \in Logs : Update(l)
BY DEF Next, vars, Environment, Start, Scan, Fetch, Handle, StatementFails, Panics, EndBatch

(* Where a listener starts: at StartBlock, or at the block of a row.         *)
LEMMA StartStep ==
    ASSUME IInv, NEW t \in Tasks, Start(t)
    PROVE  \E b \in Nat : /\ Boot(t, b) /\ resumed' = [resumed EXCEPT ![t] = b]
                          /\ b = StartBlock \/ \E r \in table : b = r.ub
<1>1. pc[t] = "boot" /\ start \in [Tasks -> Nat]
  BY DEF Start, Boot, IInv, TypeOK, LoopTypeOK
<1>2. ASSUME NEW b \in Nat, Boot(t, b) PROVE resumed' = [resumed EXCEPT ![t] = b]
  BY <1>1, <1>2 DEF Start, Boot
<1>3. ASSUME NEW m \in MaxUpdateBlock(table, ChainId)
      PROVE  /\ Resume(m) \in Nat
             /\ Resume(m) = StartBlock \/ \E r \in table : Resume(m) = r.ub
  <2>1. PICK r \in table : r.ub = m
    BY MaxIsOfARow
  <2>2. m \in Nat
    BY <2>1 DEF IInv, TypeOK, Rows
  <2>3. QED
    BY <2>1, <2>2 DEF Resume
<1>4. QED
  BY <1>2, <1>3 DEF Start

(* The type invariant and the bounds of the ranges survive every step.       *)
LEMMA IInvStep == IInv /\ [Next]_vars => IInv'
<1> SUFFICES ASSUME IInv, [Next]_vars PROVE IInv'
  OBVIOUS
<1>1. CASE UNCHANGED vars
  BY <1>1 DEF vars, loopVars, IInv, TypeOK, LoopTypeOK, RangeInv
<1>2. CASE Environment
  <2>1. CASE NewBlock
    BY <1>2, <2>1 DEF Environment, NewBlock, IInv, TypeOK, LoopTypeOK, RangeInv
  <2>2. CASE StoreLatest
    BY <1>2, <2>2 DEF Environment, StoreLatest, IInv, TypeOK, LoopTypeOK, RangeInv
  <2>3. CASE Restart
    BY <1>2, <2>3 DEF Environment, Restart, IInv, TypeOK, LoopTypeOK, RangeInv
  <2>4. QED
    BY <1>2, <2>1, <2>2, <2>3 DEF Environment
<1>3. ASSUME NEW t \in Tasks, Start(t) PROVE IInv'
  <2>1. PICK b \in Nat : Boot(t, b) /\ resumed' = [resumed EXCEPT ![t] = b]
    BY <1>3, StartStep
  <2>2. QED
    BY <1>3, <2>1 DEF Start, Boot, IInv, TypeOK, LoopTypeOK, RangeInv
<1>4. ASSUME NEW t \in Tasks, Scan(t) PROVE IInv'
  <2> DEFINE s == SkipTo(start[t], latest)
  <2>1. s \in Nat /\ RangeEnd(s, latest) \in Nat
        /\ s <= RangeEnd(s, latest) /\ RangeEnd(s, latest) <= latest
    <3>1. start[t] \in Nat /\ latest \in Nat /\ s < latest
      BY <1>4 DEF Scan, Poll, IInv, TypeOK, LoopTypeOK
    <3>2. s \in Nat
      BY <3>1, RangeBounds
    <3>3. QED
      BY <3>1, <3>2, RangeBounds
  <2>2. /\ from' = [from EXCEPT ![t] = s]
        /\ start' = [start EXCEPT ![t] = RangeEnd(s, latest)]
        /\ pc' = [pc EXCEPT ![t] = "fetch"]
        /\ lost' = lost \cup LogsIn(t, start[t], s - 1)
        /\ UNCHANGED <<head, latest, pending, crashes, table, handled, resumed>>
    BY <1>4 DEF Scan, Poll
  <2> HIDE DEF s
  <2>3. LogsIn(t, start[t], s - 1) \subseteq Logs
    BY DEF LogsIn
  <2>4. QED
    BY <2>1, <2>2, <2>3 DEF IInv, TypeOK, LoopTypeOK, RangeInv
<1>5. ASSUME NEW t \in Tasks, Fetch(t) PROVE IInv'
  <2>1. CASE FetchOk(t)
    BY <1>5, <2>1 DEF Fetch, FetchOk, LogsIn, IInv, TypeOK, LoopTypeOK, RangeInv
  <2>2. CASE FetchFails(t)
    BY <1>5, <2>2 DEF Fetch, FetchFails, LogsIn, IInv, TypeOK, LoopTypeOK, RangeInv
  <2>3. QED
    BY <1>5, <2>1, <2>2 DEF Fetch
<1>6. ASSUME NEW t \in Tasks, EndBatch(t) PROVE IInv'
  BY <1>6 DEF EndBatch, BatchDone, IInv, TypeOK, LoopTypeOK, RangeInv
<1>7. ASSUME NEW l \in Logs, Consume(l.task, l), lost' \subseteq Logs, handled' \subseteq Logs,
             table' \subseteq Rows, UNCHANGED resumed
      PROVE  IInv'
  BY <1>7 DEF Consume, IsNext, IInv, TypeOK, LoopTypeOK, RangeInv
<1>8. ASSUME NEW l \in Logs, Handle(l) PROVE IInv'
  <2>1. CASE Add(l)
    <3>1. l.task = "add" /\ Consume(l.task, l) /\ l.block \in 0..MaxHead
      BY <2>1, OnTheChain DEF Add, Consume
    <3>2. table' \subseteq Rows
      BY <2>1, <3>1, AddedRow DEF Add, AddProvider, IInv, TypeOK
    <3>3. QED
      BY <2>1, <3>1, <3>2, <1>7 DEF Add, IInv, TypeOK, LoopTypeOK
  <2>2. CASE Update(l)
    <3>1. Consume(l.task, l) /\ l.block \in 0..MaxHead
      BY <2>2, OnTheChain DEF Update, Consume
    <3>2. table' \subseteq Rows
      BY <2>2, <3>1, StampedRow DEF Update, UpdateProvider, Outdated, IInv, TypeOK
    <3>3. QED
      BY <2>2, <3>1, <3>2, <1>7 DEF Update, IInv, TypeOK, LoopTypeOK
  <2>3. CASE StatementFails(l)
    <3>1. lost' \subseteq Logs
      BY <2>3 DEF StatementFails, PassedOver, IInv, TypeOK, LoopTypeOK
    <3>2. QED
      BY <2>3, <3>1, <1>7 DEF StatementFails, IInv, TypeOK
  <2>4. CASE Panics(l)
    BY <2>4 DEF Panics, Dies, IsNext, IInv, TypeOK, LoopTypeOK, RangeInv
  <2>5. QED
    BY <1>8, <2>1, <2>2, <2>3, <2>4 DEF Handle
<1>9. QED
  BY <1>1, <1>2, <1>3, <1>4, <1>5, <1>6, <1>8 DEF Next

-----------------------------------------------------------------------------
(* A row that shows real events goes on doing so while the chain grows.      *)
LEMMA StampedKept ==
    ASSUME IInv, head' >= head, head' \in Int, NEW r \in Rows, Stamped(r)
    PROVE  Stamped(r)'
<1>1. \A l \in EventsOf(r) : l \in EventsOf(r)'
  BY DEF EventsOf, IInv, TypeOK, LoopTypeOK
<1>2. QED
  BY <1>1 DEF Stamped

LEMMA HeadGrows ==
    ASSUME IInv, [Next]_vars
    PROVE  head' \in Int /\ head' >= head
BY DEF Next, vars, loopVars, Environment, NewBlock, StoreLatest, Restart, Start, Boot,
       Scan, Poll, Fetch, FetchOk, FetchFails, Handle, Add, Update, StatementFails,
       Panics, Dies, Consume, EndBatch, BatchDone, IInv, TypeOK, LoopTypeOK

(* The row of an event on the chain shows that event.                        *)
LEMMA AddedStamped ==
    ASSUME IInv, NEW l \in Logs, l.task = "add", l.block <= head, ~Fatal(l)
    PROVE  Stamped(ProviderRow(l))
<1>1. ProviderRow(l).pid = AsI64(l.pid) /\ ProviderRow(l).ub = l.block
  BY DEF ProviderRow
<1>2. l \in EventsOf(ProviderRow(l))
  BY <1>1 DEF EventsOf
<1>3. QED
  BY <1>1, <1>2 DEF Stamped

(* An update by an event after the row's block keeps the row a mixture of    *)
(* real events.                                                             *)
LEMMA UpdatedStamped ==
    ASSUME IInv, NEW r \in Rows, Stamped(r), NEW l \in Logs,
           l.task \in {"price", "url", "name"}, l.block \in 0..MaxHead, l.block <= head,
           r.pid = AsI64(l.pid), r.ub < l.block, ~Fatal(l)
    PROVE  Stamped(Stamp(r, l.block, l.task, Written(l)))
<1> DEFINE q == Stamp(r, l.block, l.task, Written(l))
<1>1. /\ q.pid = r.pid /\ q.ub = l.block /\ q[l.task] = Written(l)
      /\ \A column \in Columns : column # l.task => q[column] = r[column]
  BY StampedRow
<1> HIDE DEF q
<1>2. EventsOf(q) = EventsOf(r) /\ l \in EventsOf(q)
  BY <1>1 DEF EventsOf
<1>3. ASSUME NEW column \in Columns
      PROVE  \E m \in EventsOf(q) :
                /\ m.block <= q.ub
                /\ \/ m.task = "add" /\ q[column] = ProviderRow(m)[column]
                   \/ m.task = column /\ q[column] = Written(m)
  <2>1. CASE column = l.task
    BY <1>1, <1>2, <2>1
  <2>2. CASE column # l.task
    <3>1. PICK m \in EventsOf(r) :
             /\ m.block <= r.ub
             /\ \/ m.task = "add" /\ r[column] = ProviderRow(m)[column]
                \/ m.task = column /\ r[column] = Written(m)
      BY <1>3 DEF Stamped
    <3>2. m.block <= q.ub
      BY <1>1, <3>1 DEF EventsOf, Rows
    <3>3. q[column] = r[column]
      BY <1>1, <2>2
    <3>4. QED
      BY <1>2, <3>1, <3>2, <3>3
  <2>3. QED
    BY <2>1, <2>2
<1>4. Stamped(q)
  BY <1>1, <1>2, <1>3 DEF Stamped
<1>5. QED
  BY <1>4 DEF q

LEMMA StampedStep == IInv /\ StampedByWriter /\ [Next]_vars => StampedByWriter'
<1> SUFFICES ASSUME IInv, StampedByWriter, [Next]_vars PROVE StampedByWriter'
  OBVIOUS
<1>1. table \subseteq Rows /\ head' \in Int /\ head' >= head
  BY HeadGrows DEF IInv, TypeOK
<1>2. \A r \in table : Stamped(r)'
  BY <1>1, StampedKept DEF StampedByWriter
<1>3. CASE UNCHANGED table
  BY <1>2, <1>3 DEF StampedByWriter
<1>4. ASSUME NEW l \in Logs, Add(l) PROVE StampedByWriter'
  <2>1. l.task = "add" /\ l.block <= head /\ l.block \in 0..MaxHead /\ ~Fatal(l)
    BY <1>4, OnTheChain DEF Add, Consume
  <2>2. Stamped(ProviderRow(l))'
    BY <1>1, <2>1, AddedStamped, AddedRow, StampedKept
  <2>3. QED
    BY <1>2, <1>4, <2>2 DEF Add, AddProvider, StampedByWriter
<1>5. ASSUME NEW l \in Logs, Update(l) PROVE StampedByWriter'
  <2>1. /\ l.task \in {"price", "url", "name"} /\ ~Fatal(l)
        /\ l.block <= head /\ l.block \in 0..MaxHead
    BY <1>5, OnTheChain DEF Update, Consume
  <2>2. ASSUME NEW r \in Outdated(table, AsI64(l.pid), l.block)
        PROVE  Stamped(Stamp(r, l.block, l.task, Written(l)))'
    <3>1. r \in table /\ r \in Rows /\ r.pid = AsI64(l.pid) /\ r.ub < l.block /\ Stamped(r)
      BY <1>1 DEF Outdated, StampedByWriter
    <3>2. Stamp(r, l.block, l.task, Written(l)) \in Rows
      BY <2>1, <3>1, StampedRow
    <3>3. QED
      BY <1>1, <2>1, <3>1, <3>2, UpdatedStamped, StampedKept
  <2>3. QED
    BY <1>2, <1>5, <2>2 DEF Update, UpdateProvider, StampedByWriter
<1>6. QED
  BY <1>3, <1>4, <1>5, TableStep

-----------------------------------------------------------------------------
\* A row stays or is moved to a later block.
Forward == \A r \in table : \E q \in table' : q = r \/ (q.pid = r.pid /\ q.ub > r.ub)

LEMMA ForwardStep == IInv /\ [Next]_vars => Forward
<1> SUFFICES ASSUME IInv, [Next]_vars PROVE Forward
  OBVIOUS
<1>1. CASE UNCHANGED table
  BY <1>1 DEF Forward
<1>2. ASSUME NEW l \in Logs, Add(l) PROVE Forward
  BY <1>2 DEF Add, AddProvider, Forward
<1>3. ASSUME NEW l \in Logs, Update(l) PROVE Forward
  <2>1. l.task \in {"price", "url", "name"} /\ l.block \in 0..MaxHead
    BY <1>3, OnTheChain DEF Update, Consume
  <2>2. ASSUME NEW r \in table
        PROVE  \E q \in table' : q = r \/ (q.pid = r.pid /\ q.ub > r.ub)
    <3>1. CASE r \notin Outdated(table, AsI64(l.pid), l.block)
      BY <1>3, <3>1 DEF Update, UpdateProvider
    <3>2. CASE r \in Outdated(table, AsI64(l.pid), l.block)
      <4> DEFINE q == Stamp(r, l.block, l.task, Written(l))
      <4>1. r \in Rows /\ r.ub < l.block
        BY <3>2 DEF Outdated, IInv, TypeOK
      <4>2. q.pid = r.pid /\ q.ub = l.block
        BY <2>1, <4>1, StampedRow
      <4>3. q \in table'
        BY <1>3, <3>2 DEF Update, UpdateProvider
      <4> HIDE DEF q
      <4>4. q.ub > r.ub
        BY <4>1, <4>2 DEF Rows
      <4>5. QED
        BY <4>2, <4>3, <4>4
    <3>3. QED
      BY <3>1, <3>2
  <2>3. QED
    BY <2>2 DEF Forward
<1>4. QED
  BY <1>1, <1>2, <1>3, TableStep

-----------------------------------------------------------------------------
\* Why listener t need not look at log l any more, or when it will.
Skipped(t, l) == l.block < resumed[t] /\ \E r \in table : resumed[t] <= r.ub

Acc(t, l) ==
    \/ pc[t] = "boot"
    \/ l.block >= IF pc[t] = "fetch" THEN from[t] ELSE start[t]
    \/ pc[t] \in {"handle", "dead"} /\ l \in pending[t]
    \/ l \in handled \cup lost
    \/ Skipped(t, l)

Its(t) == { l \in Logs : l.task = t /\ l.block >= StartBlock }

LEMMA AccountsAll == RegistryAccounted <=> \A t \in Tasks : \A l \in Its(t) : Acc(t, l)
BY DEF RegistryAccounted, Acc, Its, Skipped

(* What is handled or given up stays so.                                     *)
LEMMA HistoryGrows ==
    ASSUME [Next]_vars
    PROVE  handled \cup lost \subseteq handled' \cup lost'
BY DEF Next, vars, loopVars, Environment, NewBlock, StoreLatest, Restart, Start, Boot,
       Scan, Poll, Fetch, FetchOk, FetchFails, Handle, Add, Update, StatementFails,
       Panics, Dies, Consume, EndBatch, BatchDone

(* The row that made a listener skip a block may move, but only forward.     *)
LEMMA SkippedKept ==
    ASSUME IInv, IInv', [Next]_vars, NEW t \in Tasks, NEW l \in Logs,
           resumed'[t] = resumed[t], Skipped(t, l)
    PROVE  Skipped(t, l)'
<1>1. PICK r \in table : resumed[t] <= r.ub
  BY DEF Skipped
<1>2. PICK q \in table' : q = r \/ q.ub > r.ub
  BY <1>1, ForwardStep DEF Forward
<1>3. resumed[t] \in Nat /\ r.ub \in Nat /\ q.ub \in Nat
  <2>1. r \in Rows /\ q \in Rows /\ resumed \in [Tasks -> Nat]
    BY <1>1, <1>2 DEF IInv, TypeOK
  <2>2. QED
    BY <2>1 DEF Rows
<1>4. resumed'[t] <= q.ub
  BY <1>1, <1>2, <1>3
<1>5. QED
  BY <1>2, <1>4 DEF Skipped

LEMMA AccountedStep == IInv /\ RegistryAccounted /\ [Next]_vars => RegistryAccounted'
<1> SUFFICES ASSUME IInv, RegistryAccounted, [Next]_vars,
                    NEW t \in Tasks, NEW l \in Its(t)
             PROVE  Acc(t, l)'
  BY DEF RegistryAccounted, Acc, Its, Skipped
<1>a. IInv'
  BY IInvStep
<1>b. /\ Acc(t, l)
      /\ l \in Logs /\ l.task = t /\ l.block \in Nat /\ l.block >= StartBlock
      /\ l \in handled \cup lost => Acc(t, l)'
      /\ Skipped(t, l) /\ resumed'[t] = resumed[t] => Acc(t, l)'
  BY <1>a, AccountsAll, HistoryGrows, SkippedKept DEF Its, Acc
<1>c. /\ latest \in Nat /\ pc \in [Tasks -> {"boot", "poll", "fetch", "handle", "dead"}]
      /\ start \in [Tasks -> Nat] /\ from \in [Tasks -> Nat]
      /\ pending \in [Tasks -> SUBSET Logs] /\ resumed \in [Tasks -> Nat]
  BY DEF IInv, TypeOK, LoopTypeOK
<1>e. l.block \in Nat /\ start[t] \in Nat /\ from[t] \in Nat
  BY <1>b, <1>c DEF Its
<1>d. ASSUME UNCHANGED <<pc, start, from, pending, resumed>> PROVE Acc(t, l)'
  BY <1>b, <1>d DEF Acc
<1>1. CASE UNCHANGED vars
  BY <1>1, <1>d DEF vars, loopVars
<1>2. CASE Environment
  <2>1. CASE Restart
    BY <1>2, <2>1 DEF Restart, Acc
  <2>2. CASE NewBlock \/ StoreLatest
    BY <1>2, <2>2, <1>d DEF Environment, NewBlock, StoreLatest
  <2>3. QED
    BY <1>2, <2>1, <2>2 DEF Environment
<1>3. ASSUME NEW u \in Tasks, Start(u) PROVE Acc(t, l)'
  <2>1. PICK b \in Nat : /\ Boot(u, b) /\ resumed' = [resumed EXCEPT ![u] = b]
                         /\ b = StartBlock \/ \E r \in table : b = r.ub
    BY <1>3, StartStep
  <2>2. CASE u = t
    <3>1. start'[t] = b /\ resumed'[t] = b /\ pc'[t] = "poll"
      BY <1>c, <2>1, <2>2 DEF Boot
    <3>2. CASE l.block >= b
      BY <3>1, <3>2 DEF Acc
    <3>3. CASE l.block < b
      <4>1. PICK r \in table : b = r.ub
        BY <1>b, <2>1, <3>3
      <4>2. r \in table' /\ resumed'[t] <= r.ub
        BY <1>3, <3>1, <4>1 DEF Start
      <4>3. QED
        BY <3>1, <3>3, <4>2 DEF Acc, Skipped
    <3>4. QED
      BY <1>b, <3>2, <3>3
  <2>3. CASE u # t
    <3>1. pc'[t] = pc[t] /\ start'[t] = start[t] /\ from'[t] = from[t]
          /\ pending'[t] = pending[t] /\ resumed'[t] = resumed[t]
      BY <1>c, <2>1, <2>3 DEF Boot
    <3>2. QED
      BY <1>b, <3>1 DEF Acc
  <2>4. QED
    BY <2>2, <2>3
<1>4. ASSUME NEW u \in Tasks, Scan(u) PROVE Acc(t, l)'
  <2> DEFINE s == SkipTo(start[u], latest)
  <2>1. /\ pc[u] = "poll" /\ UNCHANGED <<pending, resumed>>
        /\ from' = [from EXCEPT ![u] = s]
        /\ start' = [start EXCEPT ![u] = RangeEnd(s, latest)]
        /\ pc' = [pc EXCEPT ![u] = "fetch"]
        /\ lost' = lost \cup LogsIn(u, start[u], s - 1)
    BY <1>4 DEF Scan, Poll
  <2>2. s \in Nat
    BY <1>c, RangeBounds
  <2> HIDE DEF s
  <2>3. CASE u = t
    <3>1. pc'[t] = "fetch" /\ from'[t] = s /\ resumed'[t] = resumed[t]
      BY <1>c, <2>1, <2>3
    <3>2. CASE l.block >= s
      BY <3>1, <3>2 DEF Acc
    <3>3. CASE l.block >= start[t] /\ l.block < s
      <4>1. l.block \in start[u]..(s - 1)
        BY <1>b, <1>c, <2>2, <2>3, <3>3
      <4>2. l \in lost'
        BY <1>b, <2>1, <2>3, <4>1 DEF LogsIn
      <4>3. QED
        BY <4>2 DEF Acc
    <3>4. CASE l.block < start[t]
      BY <1>b, <1>c, <2>1, <2>3, <3>1, <3>4 DEF Acc
    <3>5. QED
      BY <1>e, <2>2, <3>2, <3>3, <3>4
  <2>4. CASE u # t
    <3>1. pc'[t] = pc[t] /\ start'[t] = start[t] /\ from'[t] = from[t]
          /\ pending'[t] = pending[t] /\ resumed'[t] = resumed[t]
      BY <1>c, <2>1, <2>4
    <3>2. QED
      BY <1>b, <3>1 DEF Acc
  <2>5. QED
    BY <2>3, <2>4
<1>5. ASSUME NEW u \in Tasks, Fetch(u) PROVE Acc(t, l)'
  <2>1. UNCHANGED <<start, from, resumed>>
    BY <1>5 DEF Fetch, FetchOk, FetchFails
  <2>2. CASE u # t
    <3>1. pc'[t] = pc[t] /\ pending'[t] = pending[t]
      BY <1>5, <1>c, <2>2 DEF Fetch, FetchOk, FetchFails
    <3>2. QED
      BY <1>b, <2>1, <3>1 DEF Acc
  <2>3. CASE u = t
    <3>1. pc[t] = "fetch" /\ pc'[t] \in {"poll", "handle"}
      BY <1>5, <1>c, <2>3 DEF Fetch, FetchOk, FetchFails
    <3>2. CASE l.block >= start[t]
      BY <2>1, <3>1, <3>2 DEF Acc
    <3>3. CASE l.block < from[t]
      <4>1. ~(l.block >= from[t])
        BY <1>e, <3>3
      <4>2. l \in handled \cup lost \/ Skipped(t, l)
        BY <1>b, <3>1, <4>1 DEF Acc
      <4>3. QED
        BY <1>b, <2>1, <4>2
    <3>4. CASE l.block >= from[t] /\ l.block < start[t]
      <4>1. CASE FetchOk(t)
        <5>1. l.block \in from[t]..start[t]
          BY <1>e, <3>4
        <5>2. l \in pending'[t] /\ pc'[t] = "handle"
          BY <1>b, <1>c, <4>1, <5>1 DEF FetchOk, LogsIn
        <5>3. QED
          BY <5>2 DEF Acc
      <4>2. CASE FetchFails(t)
        <5>1. l.block \in from[t]..(start[t] - 1)
          BY <1>e, <3>4
        <5>2. l \in lost'
          BY <1>b, <4>2, <5>1 DEF FetchFails, LogsIn
        <5>3. QED
          BY <5>2 DEF Acc
      <4>3. QED
        BY <1>5, <2>3, <4>1, <4>2 DEF Fetch
    <3>5. QED
      BY <1>e, <3>2, <3>3, <3>4
  <2>4. QED
    BY <2>2, <2>3
<1>6. ASSUME NEW u \in Tasks, EndBatch(u) PROVE Acc(t, l)'
  <2>1. UNCHANGED <<start, from, pending, resumed>>
    BY <1>6 DEF EndBatch, BatchDone
  <2>2. pc'[t] = pc[t] \/ (pc[t] = "handle" /\ pc'[t] = "poll" /\ pending[t] = {})
    BY <1>6, <1>c DEF EndBatch, BatchDone
  <2>3. QED
    BY <1>b, <2>1, <2>2 DEF Acc
<1>7. ASSUME NEW m \in Logs, Handle(m) PROVE Acc(t, l)'
  <2>1. CASE Panics(m)
    <3>1. /\ UNCHANGED <<start, from, pending, resumed>>
          /\ pc'[t] = pc[t] \/ (pc[t] = "handle" /\ pc'[t] = "dead")
      BY <1>c, <2>1 DEF Panics, Dies, IsNext
    <3>2. QED
      BY <1>b, <3>1 DEF Acc
  <2>2. CASE Add(m) \/ Update(m) \/ StatementFails(m)
    <3>1. /\ UNCHANGED <<pc, start, from, resumed>>
          /\ pending' = [pending EXCEPT ![m.task] = @ \ {m}]
          /\ IsNext(m.task, m)
      BY <2>2 DEF Add, Update, StatementFails, Consume
    <3>2. CASE l # m
      <4>1. l \in pending[t] => l \in pending'[t]
        BY <1>c, <3>1, <3>2
      <4>2. QED
        BY <1>b, <3>1, <4>1 DEF Acc
    <3>3. CASE l = m
      <4>1. CASE Add(m) \/ Update(m)
        BY <3>3, <4>1 DEF Add, Update, Acc
      <4>2. CASE StatementFails(m)
        <5>1. CASE l.block < start[t]
          BY <1>b, <3>3, <4>2, <5>1 DEF StatementFails, PassedOver, Acc
        <5>2. CASE l.block >= start[t]
          BY <3>1, <3>3, <1>b, <5>2 DEF IsNext, Acc
        <5>3. QED
          BY <1>e, <5>1, <5>2
      <4>3. QED
        BY <2>2, <4>1, <4>2
    <3>4. QED
      BY <3>2, <3>3
  <2>3. QED
    BY <1>7, <2>1, <2>2 DEF Handle
<1>8. QED
  BY <1>1, <1>2, <1>3, <1>4, <1>5, <1>6, <1>7 DEF Next

-----------------------------------------------------------------------------
\* A provider has a row with the owner who added it.
Owned(l) ==
    \E r \in table : r.chain = ChainId /\ r.pid = AsI64(l.pid) /\ r.owner = l.value.owner

FoundInv == \A l \in handled : l.task = "add" => Owned(l)

(* A page without a row that it should show is full, and of rows that none    *)
(* comes after.                                                             *)
LEMMA OwnedFound == IInv /\ FoundInv => RegisteredAreFound
<1> SUFFICES ASSUME IInv, FoundInv, NEW l \in handled, l.task = "add"
             PROVE  \E r \in table :
                      /\ r.pid = AsI64(l.pid) /\ r.owner = l.value.owner
                      /\ \A p \in GetProviders(table, ChainId) :
                            r \in p \/ (Full(p) /\ \A q \in p : q.price <= r.price)
                      /\ \A p \in GetProvider(table, ChainId, l.value.owner) :
                            r \in p \/ Full(p)
  BY DEF RegisteredAreFound
<1>1. PICK r \in table : r.chain = ChainId /\ r.pid = AsI64(l.pid) /\ r.owner = l.value.owner
  BY DEF FoundInv, Owned
<1>2. ASSUME NEW p \in GetProviders(table, ChainId), r \notin p
      PROVE  Full(p) /\ \A q \in p : q.price <= r.price
  <2>1. /\ p \subseteq table /\ Full(p)
        /\ \A q \in p : ~(r.price < q.price)
    BY <1>1, <1>2 DEF GetProviders, Pages, Cheaper
  <2>2. \A q \in table : q.price \in Int
    BY DEF IInv, TypeOK, Rows
  <2>3. QED
    BY <1>1, <2>1, <2>2
<1>3. ASSUME NEW p \in GetProvider(table, ChainId, l.value.owner), r \notin p
      PROVE  Full(p)
  BY <1>1, <1>3 DEF GetProvider, Pages
<1>4. QED
  BY <1>1, <1>2, <1>3

(* Updates leave the owner alone, as the task for that column has panicked.  *)
LEMMA OwnedKept ==
    ASSUME IInv, [Next]_vars, NEW l \in Logs, Owned(l)
    PROVE  Owned(l)'
<1>1. PICK r \in table : r.chain = ChainId /\ r.pid = AsI64(l.pid) /\ r.owner = l.value.owner
  BY DEF Owned
<1>2. r \in Rows
  BY DEF IInv, TypeOK
<1>3. CASE r \in table'
  BY <1>1, <1>3 DEF Owned
<1>4. CASE r \notin table'
  <2>1. PICK m \in Logs : Update(m)
    BY <1>4, TableStep DEF Add, AddProvider
  <2>2. m.task \in {"price", "url", "name"} /\ m.block \in 0..MaxHead
    BY <2>1, OnTheChain DEF Update, Consume
  <2> DEFINE q == Stamp(r, m.block, m.task, Written(m))
  <2>3. q \in table'
    BY <1>4, <2>1 DEF Update, UpdateProvider
  <2>4. q \in Rows /\ q.pid = r.pid /\ q["owner"] = r["owner"]
    BY <1>2, <2>2, StampedRow DEF Columns
  <2> HIDE DEF q
  <2>5. q.chain = ChainId /\ q.owner = r.owner
    BY <1>2, <2>4 DEF Rows
  <2>6. QED
    BY <1>1, <2>3, <2>4, <2>5 DEF Owned
<1>5. QED
  BY <1>3, <1>4

LEMMA FoundStep == IInv /\ FoundInv /\ [Next]_vars => FoundInv'
<1> SUFFICES ASSUME IInv, FoundInv, [Next]_vars PROVE FoundInv'
  OBVIOUS
<1>1. \A l \in handled : l \in Logs /\ (l.task = "add" => Owned(l)')
  BY OwnedKept DEF FoundInv, IInv, TypeOK
<1>2. CASE UNCHANGED handled
  BY <1>1, <1>2 DEF FoundInv
<1>3. ASSUME NEW m \in Logs, Add(m) PROVE FoundInv'
  <2>1. ProviderRow(m) \in table'
    BY <1>3 DEF Add, AddProvider
  <2>2. ProviderRow(m).chain = ChainId /\ ProviderRow(m).pid = AsI64(m.pid)
        /\ ProviderRow(m).owner = m.value.owner
    BY DEF ProviderRow
  <2>3. Owned(m)'
    BY <2>1, <2>2 DEF Owned
  <2>4. QED
    BY <1>1, <1>3, <2>3 DEF Add, FoundInv
<1>4. ASSUME NEW m \in Logs, Update(m) PROVE FoundInv'
  BY <1>1, <1>4 DEF Update, FoundInv
<1>5. QED
  BY <1>2, <1>3, <1>4
     DEF Next, vars, Environment, Start, Scan, Fetch, Handle, StatementFails, Panics, EndBatch

-----------------------------------------------------------------------------
\* The variables of the registry listeners keep their types.
THEOREM TypeCorrect == Spec => []TypeOK
<1>1. IInv => TypeOK
  BY DEF IInv
<1>2. QED
  BY IInvInit, IInvStep, <1>1, PTL DEF Spec

\* Whichever of the five listeners wrote a row, it is stamped with the block of
\* an event it shows, and shows none after it.
THEOREM RowsStamped == Spec => []StampedByWriter
<1>1. Init => StampedByWriter
  BY DEF Init, StampedByWriter
<1>2. QED
  BY IInvInit, IInvStep, <1>1, StampedStep, PTL DEF Spec

\* No statement sets a row back or removes it.
THEOREM RowsMoveForward == Spec => NeverBackdated
<1>1. IInv /\ [Next]_vars => [Forward]_vars
  BY ForwardStep
<1>2. QED
  BY IInvInit, IInvStep, <1>1, PTL DEF Spec, NeverBackdated, Forward

\* What a listener of the shared table has moved past it has handled or given
\* up, or skipped for a newer row that the table still has.
THEOREM NothingElseSkipped == Spec => []RegistryAccounted
<1>1. Init => RegistryAccounted
  BY DEF Init, LoopInit, RegistryAccounted
<1>2. QED
  BY IInvInit, IInvStep, <1>1, AccountedStep, PTL DEF Spec

\* A provider that was added is found by everybody and by its owner.
THEOREM NobodyVanishes == Spec => []RegisteredAreFound
<1>1. Init => FoundInv
  BY DEF Init, FoundInv
<1>2. QED
  BY IInvInit, IInvStep, <1>1, FoundStep, OwnedFound, PTL DEF Spec
=============================================================================
