------------------------ MODULE ContractWatcherProofs ------------------------
(***************************************************************************)
(* Proofs about ContractWatcher, for every log, batch size, start block,     *)
(* skip_old setting and number of restarts.                                 *)
(*                                                                          *)
(* Gapless alone is not inductive: that an insert leaves no hole depends on  *)
(* what the loop has already scanned (ScannedAccounted), and what a          *)
(* restarted loop may take as scanned depends on the table having no hole.   *)
(* The two are proved together, on top of the bounds of a range.             *)
(***************************************************************************)
EXTENDS ContractWatcher, TLAPS

\* Only one configured provider is on this chain.
SoleListener == \E t \in Tasks : Tasks = {t}

\* A range starts at a configured block, ends at a block the chain has, and
\* holds the logs being handled.
RangeInv ==
    /\ latest <= head
    /\ \A t \in Tasks :
         /\ StartBlock <= start[t] /\ StartBlock <= from[t]
         /\ pc[t] \in {"fetch", "handle", "dead"} => from[t] <= start[t] /\ start[t] <= head
         /\ pc[t] \in {"handle", "dead"} => pending[t] \subseteq LogsIn(t, from[t], start[t])

IInv == TypeOK /\ RangeInv /\ Sound

Accounting == ScannedAccounted /\ Gapless

USE LoopAssumption, LogsAssumption

-----------------------------------------------------------------------------
(* The next range is not empty, stays on the chain and does not go back.     *)
LEMMA RangeBounds ==
    ASSUME NEW s \in Nat, NEW bn \in Nat
    PROVE  /\ SkipTo(s, bn) \in Nat
           /\ SkipTo(s, bn) >= s
           /\ RangeEnd(s, bn) \in Int
           /\ s < bn => RangeEnd(s, bn) \in Nat /\ s < RangeEnd(s, bn) /\ RangeEnd(s, bn) <= bn
BY DEF SkipTo, RangeEnd

(* A row carries the block of its log.                                      *)
LEMMA RowBlock == \A l \in Logs : ValidBlockRow(l).ub = l.block
BY DEF ValidBlockRow

(* A row is well typed.                                                     *)
LEMMA RowType ==
    ASSUME NEW l \in Logs
    PROVE  ValidBlockRow(l) \in [chain : {ChainId},
                                 cid : { m.cid : m \in Logs }, donor : { m.donor : m \in Logs },
                                 ub : { m.block : m \in Logs }, end : { AsI64(m.end) : m \in Logs }]
BY DEF ValidBlockRow

(* The newest row's block, where there is one, is the block of a row.        *)
LEMMA MaxIsOfARow ==
    ASSUME NEW b \in MaxUpdateBlock(table, ChainId)
    PROVE  \E r \in table : r.ub = b
BY DEF MaxUpdateBlock

-----------------------------------------------------------------------------
LEMMA IInvInit == Init => IInv
<1> SUFFICES ASSUME Init PROVE IInv
  OBVIOUS
<1>1. TypeOK
  BY DEF Init, LoopInit, TypeOK, LoopTypeOK
<1>2. RangeInv
  BY DEF Init, LoopInit, RangeInv
<1>3. Sound
  BY DEF Init, Sound
<1>4. QED
  BY <1>1, <1>2, <1>3 DEF IInv

(* A step that leaves the table alone cannot make it unsound.                *)
LEMMA SoundKept ==
    ASSUME head \in Int, head' \in Int, head <= head', Sound, UNCHANGED table
    PROVE  Sound'
BY DEF Sound, RelevantTo

(* The type invariant and the bounds of the ranges survive every step.       *)
LEMMA IInvStep == IInv /\ [Next]_vars => IInv'
<1> SUFFICES ASSUME IInv, [Next]_vars PROVE IInv'
  OBVIOUS
<1> USE DEF IInv, TypeOK, LoopTypeOK, RangeInv
<1>1. CASE UNCHANGED vars
  BY <1>1, SoundKept DEF vars, loopVars
<1>2. CASE Environment
  <2>1. CASE NewBlock
    BY <1>2, <2>1, SoundKept DEF Environment, NewBlock
  <2>2. CASE StoreLatest
    BY <1>2, <2>2, SoundKept DEF Environment, StoreLatest
  <2>3. CASE Restart
    BY <1>2, <2>3, SoundKept DEF Environment, Restart
  <2>4. QED
    BY <1>2, <2>1, <2>2, <2>3 DEF Environment
<1>3. ASSUME NEW t \in Tasks, Start(t) PROVE IInv'
  <2>1. PICK b \in Nat : Boot(t, b) /\ b >= StartBlock
    <3>1. ASSUME NEW m \in MaxUpdateBlock(table, ChainId)
          PROVE  Resume(m) \in Nat /\ Resume(m) >= StartBlock
      <4>1. PICK r \in table : r.ub = m
        BY MaxIsOfARow
      <4>2. m \in Nat
        BY <4>1
      <4>3. QED
        BY <4>2 DEF Resume
    <3>2. QED
      BY <1>3, <3>1 DEF Start
  <2>2. UNCHANGED table
    BY <1>3 DEF Start
  <2>3. QED
    BY <2>1, <2>2, SoundKept DEF Boot
<1>4. ASSUME NEW t \in Tasks, Scan(t) PROVE IInv'
  <2> DEFINE s == SkipTo(start[t], latest)
  <2>1. s \in Nat /\ s < latest /\ s >= start[t] /\ RangeEnd(s, latest) \in Nat
        /\ s <= RangeEnd(s, latest) /\ RangeEnd(s, latest) <= latest
    <3>1. start[t] \in Nat /\ latest \in Nat /\ s < latest
      BY <1>4 DEF Scan, Poll
    <3>2. s \in Nat /\ s >= start[t]
      BY <3>1, RangeBounds
    <3>3. QED
      BY <3>1, <3>2, RangeBounds
  <2>2. /\ from' = [from EXCEPT ![t] = s]
        /\ start' = [start EXCEPT ![t] = RangeEnd(s, latest)]
        /\ pc' = [pc EXCEPT ![t] = "fetch"]
        /\ lost' = lost \cup LogsIn(t, start[t], s - 1)
        /\ UNCHANGED <<head, latest, pending, crashes, table>>
    BY <1>4 DEF Scan, Poll
  <2> HIDE DEF s
  <2>3. LogsIn(t, start[t], s - 1) \subseteq Logs
    BY DEF LogsIn
  <2>4. TypeOK'
    BY <2>1, <2>2, <2>3
  <2>5. RangeInv'
    BY <2>1, <2>2
  <2>6. Sound'
    BY <2>2, SoundKept
  <2>7. QED
    BY <2>4, <2>5, <2>6
<1>5. ASSUME NEW t \in Tasks, Fetch(t) PROVE IInv'
  <2>1. CASE FetchOk(t)
    BY <1>5, <2>1, SoundKept DEF Fetch, FetchOk, LogsIn
  <2>2. CASE FetchFails(t)
    BY <1>5, <2>2, SoundKept DEF Fetch, FetchFails, LogsIn
  <2>3. QED
    BY <1>5, <2>1, <2>2 DEF Fetch
<1>6. ASSUME NEW t \in Tasks, Handle(t) PROVE IInv'
  <2>1. PICK l \in Logs : Ignore(t, l) \/ Insert(t, l) \/ InsertFails(t, l) \/ Panics(t, l)
    BY <1>6 DEF Handle
  <2>2. Consume(t, l) \/ Dies(t, l)
    BY <2>1 DEF Ignore, Insert, InsertFails, Panics
  <2>3. lost' \subseteq Logs
    BY <2>1 DEF Ignore, Insert, InsertFails, Panics, Dies, PassedOver
  <2>4. table' = table \/ table' = table \cup {ValidBlockRow(l)}
    BY <2>1 DEF Ignore, Insert, InsertFails, Panics, AddValidBlock
  <2>5. TypeOK' /\ RangeInv'
    <3>1. CASE Consume(t, l)
      BY <3>1, <2>3, <2>4, RowType DEF Consume, IsNext
    <3>2. CASE Dies(t, l)
      BY <3>2, <2>3, <2>4, RowType DEF Dies, IsNext
    <3>3. QED
      BY <2>2, <3>1, <3>2
  <2>6. Sound'
    <3>1. CASE UNCHANGED table
      BY <2>2, <3>1, SoundKept DEF Consume, Dies
    <3>2. CASE Insert(t, l)
      <4>1. l \in LogsIn(t, from[t], start[t]) /\ start[t] <= head
        BY <2>2 DEF Consume, Dies, IsNext
      <4>2. l \in RelevantTo(t) /\ l.block <= head
        BY <4>1, <3>2 DEF LogsIn, Insert, RelevantTo
      <4>3. QED
        BY <3>2, <4>2 DEF Consume, Insert, AddValidBlock, Sound, RelevantTo
    <3>3. QED
      BY <2>1, <3>1, <3>2 DEF Ignore, InsertFails, Panics
  <2>7. QED
    BY <2>5, <2>6
<1>7. ASSUME NEW t \in Tasks, EndBatch(t) PROVE IInv'
  BY <1>7, SoundKept DEF EndBatch, BatchDone
<1>8. QED
  BY <1>1, <1>2, <1>3, <1>4, <1>5, <1>6, <1>7 DEF Next

-----------------------------------------------------------------------------
(* What is indexed or given up stays so in every step.                       *)
LEMMA SettledKept ==
    ASSUME [Next]_vars
    PROVE  /\ table \subseteq table' /\ lost \subseteq lost'
           /\ \A l \in Logs : Settled(l) => Settled(l)'
<1>1. table \subseteq table' /\ lost \subseteq lost'
  BY DEF Next, vars, loopVars, Environment, NewBlock, StoreLatest, Restart, Start, Boot,
         Scan, Poll, Fetch, FetchOk, FetchFails, Handle, Ignore, Insert, InsertFails,
         Panics, Consume, Dies, AddValidBlock, EndBatch, BatchDone
<1>2. QED
  BY <1>1 DEF Settled

(* No hole opens while no row is added.                                      *)
LEMMA GaplessKept ==
    ASSUME [Next]_vars, Gapless, UNCHANGED table
    PROVE  Gapless'
<1>1. \A l \in Relevant : l \in Logs
  BY DEF Relevant, RelevantTo
<1>2. QED
  BY <1>1, SettledKept DEF Gapless

LEMMA AccountingInit == Init => Accounting
BY DEF Init, LoopInit, Accounting, ScannedAccounted, Gapless

(* The heart of the matter: a listener alone on its chain keeps account of   *)
(* everything it has moved past, and its table has no unexplained hole.      *)
LEMMA AccountingStep ==
    ASSUME SoleListener, IInv, Accounting, [Next]_vars
    PROVE  Accounting'
<1> USE DEF IInv, TypeOK, LoopTypeOK, RangeInv
<1>0. PICK t \in Tasks : Tasks = {t}
  BY DEF SoleListener
<1> DEFINE Acc(l) ==
      \/ pc[t] = "boot"
      \/ l.block >= IF pc[t] = "fetch" THEN from[t] ELSE start[t]
      \/ pc[t] \in {"handle", "dead"} /\ l \in pending[t]
      \/ Settled(l)
<1>a. ScannedAccounted <=> \A l \in RelevantTo(t) : Acc(l)
  BY <1>0 DEF ScannedAccounted
<1>b. ScannedAccounted' <=> \A l \in RelevantTo(t) : Acc(l)'
  BY <1>0 DEF ScannedAccounted
<1>c. Relevant = RelevantTo(t)
  BY <1>0 DEF Relevant
<1>d. \A l \in RelevantTo(t) :
        /\ l \in Logs /\ l.task = t /\ ForMe(t, l)
        /\ l.block \in Nat /\ l.block >= StartBlock
        /\ Acc(l)
        /\ Settled(l) => Settled(l)'
  BY <1>a, SettledKept DEF RelevantTo, Accounting
<1> HIDE DEF Acc
<1>1. CASE UNCHANGED vars
  BY <1>1 DEF vars, loopVars, Accounting, ScannedAccounted, Gapless, Settled
<1>2. CASE Environment
  <2>1. Gapless'
    BY <1>2, GaplessKept DEF Environment, Accounting
  <2>2. ASSUME NEW l \in RelevantTo(t) PROVE Acc(l)'
    BY <1>2, <1>d, <2>2
       DEF Environment, NewBlock, StoreLatest, Restart, Acc
  <2>3. QED
    BY <1>b, <2>1, <2>2 DEF Accounting
<1>3. CASE Start(t)
  <2>1. Gapless'
    BY <1>3, GaplessKept DEF Start, Accounting
  <2>2. ASSUME NEW l \in RelevantTo(t) PROVE Acc(l)'
    <3>1. pc'[t] = "poll"
      BY <1>3 DEF Start, Boot
    <3>2. CASE start'[t] = StartBlock
      BY <3>1, <3>2, <1>d DEF Acc
    <3>3. CASE start'[t] # StartBlock
      <4>1. PICK b \in MaxUpdateBlock(table, ChainId) : start'[t] = Resume(b)
        BY <1>3, <3>3 DEF Start, Boot
      <4>2. PICK r \in table : r.ub = b
        BY MaxIsOfARow
      <4>3. start'[t] = b
        BY <3>3, <4>1 DEF Resume
      <4>4. l.block < b => Settled(l)
        BY <4>2, <1>c DEF Accounting, Gapless
      <4>5. b \in Nat
        BY <4>2
      <4>6. CASE l.block < b
        BY <4>4, <4>6, <1>d DEF Acc
      <4>7. CASE l.block >= b
        BY <3>1, <4>3, <4>7 DEF Acc
      <4>8. QED
        BY <4>5, <4>6, <4>7, <1>d
    <3>4. QED
      BY <3>2, <3>3
  <2>3. QED
    BY <1>b, <2>1, <2>2 DEF Accounting
<1>4. CASE Scan(t)
  <2>1. Gapless'
    BY <1>4, GaplessKept DEF Scan, Accounting
  <2>2. ASSUME NEW l \in RelevantTo(t) PROVE Acc(l)'
    <3> DEFINE s == SkipTo(start[t], latest)
    <3>1. s \in Nat /\ start[t] \in Nat /\ pc[t] = "poll" /\ pc'[t] = "fetch" /\ from'[t] = s
      BY <1>4, RangeBounds DEF Scan, Poll
    <3>2. lost' = lost \cup LogsIn(t, start[t], s - 1)
      BY <1>4 DEF Scan, Poll
    <3> HIDE DEF s
    <3>3. CASE l.block < start[t]
      BY <3>1, <3>3, <1>d DEF Acc
    <3>4. CASE l.block >= start[t] /\ l.block < s
      <4>1. l.block \in start[t]..(s - 1)
        BY <3>1, <3>4, <1>d
      <4>2. l \in lost'
        BY <3>2, <4>1, <1>d DEF LogsIn
      <4>3. QED
        BY <4>2 DEF Acc, Settled
    <3>5. CASE l.block >= s
      BY <3>1, <3>5 DEF Acc
    <3>6. QED
      BY <3>1, <3>3, <3>4, <3>5, <1>d
  <2>3. QED
    BY <1>b, <2>1, <2>2 DEF Accounting
<1>5. CASE Fetch(t)
  <2>1. Gapless'
    BY <1>5, GaplessKept DEF Fetch, Accounting
  <2>2. ASSUME NEW l \in RelevantTo(t) PROVE Acc(l)'
    <3>1. pc[t] = "fetch" /\ from[t] <= start[t] /\ start'[t] = start[t]
      BY <1>5 DEF Fetch, FetchOk, FetchFails
    <3>2. CASE l.block < from[t]
      BY <3>1, <3>2, <1>d DEF Acc
    <3>3. CASE l.block >= start[t]
      <4>1. pc'[t] \in {"poll", "handle"}
        BY <1>5 DEF Fetch, FetchOk, FetchFails
      <4>2. QED
        BY <3>1, <3>3, <4>1 DEF Acc
    <3>4. CASE from[t] <= l.block /\ l.block < start[t]
      <4>1. CASE FetchOk(t)
        <5>1. l.block \in from[t]..start[t]
          BY <3>4, <1>d
        <5>2. l \in pending'[t] /\ pc'[t] = "handle"
          BY <4>1, <5>1, <1>d DEF FetchOk, LogsIn
        <5>3. QED
          BY <5>2 DEF Acc
      <4>2. CASE FetchFails(t)
        <5>1. l.block \in from[t]..(start[t] - 1)
          BY <3>4, <1>d
        <5>2. l \in lost'
          BY <4>2, <5>1, <1>d DEF FetchFails, LogsIn
        <5>3. QED
          BY <5>2 DEF Acc, Settled
      <4>3. QED
        BY <1>5, <4>1, <4>2 DEF Fetch
    <3>5. QED
      BY <3>1, <3>2, <3>3, <3>4, <1>d
  <2>3. QED
    BY <1>b, <2>1, <2>2 DEF Accounting
<1>6. CASE Handle(t)
  <2>1. PICK l \in Logs : Ignore(t, l) \/ Insert(t, l) \/ InsertFails(t, l) \/ Panics(t, l)
    BY <1>6 DEF Handle
  <2>2. /\ pc[t] = "handle" /\ start' = start /\ from' = from
        /\ l \in pending[t]
        /\ \A m \in pending[t] : ~Before(m, l)
    BY <2>1 DEF Ignore, Insert, InsertFails, Panics, Consume, Dies, IsNext
  <2>3. l.block <= start[t]
    BY <2>2 DEF LogsIn
  <2>4. \/ /\ pc' = pc /\ pending'[t] = pending[t] \ {l}
           /\ l \in RelevantTo(t) => Settled(l)' \/ l.block >= start[t]
        \/ pc'[t] = "dead" /\ pending' = pending
    <3>1. CASE Panics(t, l)
      BY <3>1 DEF Panics, Dies
    <3>2. CASE Ignore(t, l) \/ Insert(t, l) \/ InsertFails(t, l)
      BY <3>2, <2>3 DEF Ignore, Insert, InsertFails, Consume, AddValidBlock, PassedOver,
                        RelevantTo, Settled
    <3>3. QED
      BY <2>1, <3>1, <3>2
  <2>5. ASSUME NEW m \in RelevantTo(t) PROVE Acc(m)'
    BY <2>2, <2>4, <1>d DEF Acc
  <2>6. Gapless'
    <3>1. CASE UNCHANGED table
      BY <3>1, GaplessKept DEF Accounting
    <3>2. CASE Insert(t, l)
      <4>1. ASSUME NEW m \in RelevantTo(t), m.block < l.block PROVE Settled(m)
        <5>1. m \notin pending[t]
          BY <2>2, <4>1 DEF Before
        <5>2. m.block < start[t]
          BY <2>3, <4>1, <1>d
        <5>3. QED
          BY <2>2, <5>1, <5>2, <1>d DEF Acc
      <4>2. ASSUME NEW r \in table', NEW m \in Relevant, m.block < r.ub PROVE Settled(m)'
        <5>1. CASE r \in table
          BY <4>2, <5>1, <1>c, <1>d DEF Accounting, Gapless
        <5>2. CASE r = ValidBlockRow(l)
          BY <4>1, <4>2, <5>2, <1>c, <1>d, RowBlock
        <5>3. QED
          BY <3>2, <5>1, <5>2 DEF Insert, AddValidBlock
      <4>3. QED
        BY <4>2 DEF Gapless
    <3>3. QED
      BY <2>1, <3>1, <3>2 DEF Ignore, InsertFails, Panics
  <2>7. QED
    BY <1>b, <2>5, <2>6 DEF Accounting
<1>7. CASE EndBatch(t)
  <2>1. Gapless'
    BY <1>7, GaplessKept DEF EndBatch, Accounting
  <2>2. ASSUME NEW l \in RelevantTo(t) PROVE Acc(l)'
    BY <1>7, <1>d DEF EndBatch, BatchDone, Acc
  <2>3. QED
    BY <1>b, <2>1, <2>2 DEF Accounting
<1>8. QED
  BY <1>0, <1>1, <1>2, <1>3, <1>4, <1>5, <1>6, <1>7 DEF Next

-----------------------------------------------------------------------------
(* An insert of the listener is a step of EventIndex: the row is relevant    *)
(* and everything of an earlier block is settled.                           *)
LEMMA InsertIsIndex ==
    ASSUME SoleListener, IInv, Accounting,
           NEW t \in Tasks, NEW l \in Logs, Insert(t, l)
    PROVE  l \in Relevant /\ Index!Index(l)
<1> USE DEF IInv, TypeOK, LoopTypeOK, RangeInv
<1>0. Tasks = {t}
  BY DEF SoleListener
<1>1. Relevant = RelevantTo(t)
  BY <1>0 DEF Relevant
<1>2. /\ pc[t] = "handle" /\ l \in pending[t] /\ l \in LogsIn(t, from[t], start[t])
      /\ \A m \in pending[t] : ~Before(m, l)
  BY DEF Insert, Consume, IsNext
<1>3. l \in RelevantTo(t)
  BY <1>2 DEF LogsIn, Insert, RelevantTo
<1>4. ASSUME NEW m \in Relevant, m.block < l.block PROVE Index!Settled(m)
  <2>1. m \in RelevantTo(t) /\ m.block \in Nat /\ l.block \in Nat
    BY <1>1, <1>4 DEF RelevantTo
  <2>2. m \notin pending[t] /\ m.block < start[t]
    BY <1>2, <1>4, <2>1 DEF Before, LogsIn
  <2>3. Settled(m)
    BY <1>2, <2>1, <2>2 DEF Accounting, ScannedAccounted
  <2>4. QED
    BY <1>4, <2>3 DEF Settled, Index!Settled
<1>5. table' = table \cup {ValidBlockRow(l)} /\ UNCHANGED lost
  BY DEF Insert, AddValidBlock
<1>6. Relevant' = Relevant
  BY DEF Relevant, RelevantTo, ForMe
<1>7. QED
  BY <1>1, <1>3, <1>4, <1>5, <1>6 DEF Index!Index

(* Every step of the listener is a step of EventIndex or a stutter: a step   *)
(* that is not an insert can only give up relevant events.                  *)
LEMMA IndexStep ==
    ASSUME SoleListener, IInv, Accounting, [Next]_vars
    PROVE  [Index!Next]_<<table, lost \cap Relevant>>
<1>1. CASE \E t \in Tasks : \E l \in Logs : Insert(t, l)
  BY <1>1, InsertIsIndex DEF Index!Next
<1>2. CASE UNCHANGED table
  <2> DEFINE S == (lost \cap Relevant)'
  <2>1. Relevant' = Relevant
    BY DEF Relevant, RelevantTo, ForMe
  <2>2. S \in SUBSET Relevant /\ S = (lost \cap Relevant) \cup S
    BY <2>1, SettledKept
  <2>3. Index!GiveUp(S)
    BY <1>2, <2>2 DEF Index!GiveUp
  <2>4. QED
    BY <2>2, <2>3 DEF Index!Next
<1>3. QED
  BY <1>1, <1>2 DEF Next, vars, loopVars, Environment, Start, Scan, Fetch, Handle,
                    Ignore, InsertFails, Panics, EndBatch

-----------------------------------------------------------------------------
LEMMA IInvAlways == Spec => []IInv
BY IInvInit, IInvStep, PTL DEF Spec

(* The variables of the listeners keep their types.                         *)
THEOREM TypeCorrect == Spec => []TypeOK
<1>1. IInv => TypeOK
  BY DEF IInv
<1>2. QED
  BY <1>1, IInvAlways, PTL

(* No row is invented: each stems from an event the chain has and that names *)
(* this node's provider.                                                    *)
THEOREM OnlyRealEvents == Spec => []Sound
<1>1. IInv => Sound
  BY DEF IInv
<1>2. QED
  BY <1>1, IInvAlways, PTL

LEMMA AccountingAlways ==
    ASSUME SoleListener
    PROVE  Spec => []Accounting
<1>1. IInv /\ Accounting /\ [Next]_vars => Accounting'
  BY AccountingStep
<1>2. QED
  BY <1>1, AccountingInit, IInvAlways, PTL DEF Spec

(* A listener alone on its chain has indexed or given up whatever it has     *)
(* moved past, over all restarts.                                           *)
THEOREM NothingForgotten ==
    ASSUME SoleListener
    PROVE  Spec => []ScannedAccounted
<1>1. Accounting => ScannedAccounted
  BY DEF Accounting
<1>2. QED
  BY <1>1, AccountingAlways, PTL

(* The table of a listener alone on its chain has no hole but for the events *)
(* it has given up, which is why it may resume from its newest row.          *)
THEOREM NoHole ==
    ASSUME SoleListener
    PROVE  Spec => []Gapless
<1>1. Accounting => Gapless
  BY DEF Accounting
<1>2. QED
  BY <1>1, AccountingAlways, PTL

(* The loop of a listener alone on its chain, with its ranges, failures and  *)
(* restarts, implements the index of EventIndex.                            *)
THEOREM ImplementsIndex ==
    ASSUME SoleListener
    PROVE  Spec => IndexSpec
<1>1. Init => Index!Init
  BY DEF Init, LoopInit, Index!Init
<1>2. IInv /\ Accounting /\ [Next]_vars => [Index!Next]_<<table, lost \cap Relevant>>
  BY IndexStep
<1>3. QED
  BY <1>1, <1>2, IInvAlways, AccountingAlways, PTL DEF Spec, IndexSpec, Index!Spec

(* Whatever implements EventIndex leaves no hole: the refinement says at     *)
(* least what Gapless says.                                                 *)
THEOREM IndexHasNoHole == IndexSpec => []Gapless
<1> DEFINE J == \A r \in table : \A l \in Relevant : l.block < r.ub => Index!Settled(l)
<1>1. Index!Init => J
  BY DEF Index!Init
<1>2. J /\ [Index!Next]_<<table, lost \cap Relevant>> => J'
  <2> SUFFICES ASSUME J, [Index!Next]_<<table, lost \cap Relevant>>,
                      NEW r \in table', NEW l \in Relevant, l.block < r.ub
               PROVE  Index!Settled(l)'
    <3>1. Relevant' = Relevant
      BY DEF Relevant, RelevantTo, ForMe
    <3>2. QED
      BY <3>1
  <2>1. table \subseteq table' /\ lost \cap Relevant \subseteq (lost \cap Relevant)'
    BY DEF Index!Next, Index!Index, Index!GiveUp
  <2>2. Index!Settled(l) => Index!Settled(l)'
    BY <2>1 DEF Index!Settled
  <2>3. CASE r \in table
    BY <2>2, <2>3
  <2>4. ASSUME NEW m \in Relevant, Index!Index(m), r = ValidBlockRow(m)
        PROVE  Index!Settled(l)
    <3>1. r.ub = m.block
      BY <2>4 DEF ValidBlockRow
    <3>2. QED
      BY <2>4, <3>1 DEF Index!Index
  <2>5. QED
    BY <2>2, <2>3, <2>4 DEF Index!Next, Index!Index, Index!GiveUp
<1>3. J => Gapless
  BY DEF Index!Settled, Settled, Gapless
<1>4. QED
  BY <1>1, <1>2, <1>3, PTL DEF IndexSpec, Index!Spec
=============================================================================
