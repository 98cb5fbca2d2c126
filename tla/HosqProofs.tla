----------------------------- MODULE HosqProofs -----------------------------
(***************************************************************************)
(* Proofs about Hosq, the composition: what is proved of the listener and of *)
(* the IPFS service by themselves holds of them side by side, and joins to   *)
(* one promise from the chain to pinned_cids.                               *)
(***************************************************************************)
EXTENDS Hosq, ContractWatcherProofs

Service == INSTANCE IpfsCopiesProofs WITH MaxBlock <- MaxHead,
    latest <- [c \in Chains |-> latest],
    euvb <- { Paid(r) : r \in table }

(* The listener does in the composition what it does alone.                 *)
LEMMA ListenerAlone == HosqSpec => Spec
<1>1. HosqInit => Init
  BY DEF HosqInit
<1>2. [HosqNext]_hosqVars => [Next]_vars
  BY DEF HosqNext, Listening, Listens, Keeping, RestartAll, Next, Environment, hosqVars
<1>3. QED
  BY <1>1, <1>2, PTL DEF HosqSpec, Spec

(* What the IPFS service is given are events as it expects them.             *)
LEMMA EventsFit == Service!IpfsAssumption
<1>1. \A l \in Logs : ValidBlockRow(l).cid = l.cid /\ ValidBlockRow(l).end \in Int
  BY LoopAssumption, WordsAssumption DEF ValidBlockRow, AsI64
<1>2. Donations \subseteq [chain : Chains, cid : Cids, end : Int]
  BY <1>1 DEF Donations, Cids, Chains, Paid, Relevant, RelevantTo
<1>3. QED
  BY <1>2, LoopAssumption, ServiceAssumption DEF Service!IpfsAssumption

(* What is proved of the service alone, with its assumption discharged.      *)
LEMMA ServiceInvariant == Service!Spec => []Service!IInv
BY EventsFit, Service!IInvAlways DEF Service!IpfsAssumption

LEMMA ServiceLedger ==
    ASSUME Service!IInv, [Service!Next]_Service!vars
    PROVE  [Service!Ledger!Next]_<<[c \in Chains |-> latest], { Paid(r) : r \in table }, pinned>>
BY EventsFit, Service!LedgerStep DEF Service!IpfsAssumption

LEMMA ServiceBacked == Service!Spec => []Service!Backed
BY EventsFit, Service!EverythingBacked DEF Service!IpfsAssumption

LEMMA ServiceUnpins ==
    ASSUME Service!IInv, [Service!Next]_Service!vars, NEW p \in pins, p \notin pins'
    PROVE  \E d \in { Paid(r) : r \in table } : <<p[1], d.cid>> = p /\ Service!Expired(d)
BY EventsFit, Service!PinsStep DEF Service!IpfsAssumption

-----------------------------------------------------------------------------
(* Pinning of Hosq and Service, which has the proofs beside it, are the same  *)
(* module with the same parameters; the provers are shown so, operator by    *)
(* operator.                                                                *)
LEMMA SameInit == Pinning!Init <=> Service!Init
BY DEF Pinning!Init, Service!Init, Pinning!Loops, Pinning!Asleep, Pinning!TaskStates, Pinning!Stages, Pinning!Strays, Pinning!Rows, Pinning!Ends, Service!Loops, Service!Asleep, Service!TaskStates, Service!Stages, Service!Strays, Service!Rows, Service!Ends

LEMMA SameTasks == \A r : Pinning!TaskStep(r) <=> Service!TaskStep(r)
<1> TAKE r
<1>0. \A s : Pinning!Task(s, r) = Service!Task(s, r) /\ Pinning!Copy(r) = Service!Copy(r)
  BY DEF Pinning!Task, Pinning!Copy, Service!Task, Service!Copy
<1>1. Pinning!PinOk(r) <=> Service!PinOk(r)
  BY <1>0 DEF Pinning!PinOk, Pinning!GoesOn, Service!PinOk, Service!GoesOn
<1>2. Pinning!PinFails(r) <=> Service!PinFails(r)
  BY <1>0 DEF Pinning!PinFails, Pinning!GoesOn, Pinning!IsDone, Service!PinFails, Service!GoesOn, Service!IsDone
<1>3. Pinning!Record(r) <=> Service!Record(r)
  BY <1>0 DEF Pinning!Record, Pinning!IsDone, Pinning!AddCid, Service!Record, Service!IsDone, Service!AddCid
<1>4. Pinning!Note(r) <=> Service!Note(r)
  BY <1>0 DEF Pinning!Note, Pinning!IsDone, Pinning!AddFailedPin, Service!Note, Service!IsDone, Service!AddFailedPin
<1>5. Pinning!RmOk(r) <=> Service!RmOk(r)
  BY <1>0 DEF Pinning!RmOk, Pinning!GoesOn, Service!RmOk, Service!GoesOn
<1>6. Pinning!RmFails(r) <=> Service!RmFails(r)
  BY <1>0 DEF Pinning!RmFails, Pinning!IsDone, Service!RmFails, Service!IsDone
<1>7. Pinning!Delete(r) <=> Service!Delete(r)
  BY <1>0 DEF Pinning!Delete, Pinning!IsDone, Pinning!DeleteCid, Service!Delete, Service!IsDone, Service!DeleteCid
<1>8. Pinning!Arrives(r) <=> Service!Arrives(r)
  BY <1>0 DEF Pinning!Arrives, Pinning!IsDone, Service!Arrives, Service!IsDone
<1>9. QED
  BY <1>1, <1>2, <1>3, <1>4, <1>5, <1>6, <1>7, <1>8 DEF Pinning!TaskStep, Service!TaskStep

LEMMA SameSpawned == \A S : Pinning!Spawned(S) = Service!Spawned(S)
<1>1. Pinning!TaskStates = Service!TaskStates
  BY DEF Pinning!TaskStates, Pinning!Stages, Pinning!Strays, Pinning!Rows, Pinning!Ends,
         Service!TaskStates, Service!Stages, Service!Strays, Service!Rows, Service!Ends
<1>2. \A r : Pinning!InFlight(r) = Service!InFlight(r)
  BY DEF Pinning!InFlight, Pinning!Task, Service!InFlight, Service!Task
<1>3. QED
  BY <1>1, <1>2 DEF Pinning!Spawned, Service!Spawned

LEMMA SameTurnEnds == \A c, loop, S : Pinning!TurnEnds(c, loop, S) <=> Service!TurnEnds(c, loop, S)
BY SameSpawned DEF Pinning!TurnEnds, Pinning!Asleep, Service!TurnEnds, Service!Asleep

LEMMA SameTurns == \A c : Pinning!Turn(c) <=> Service!Turn(c)
<1> TAKE c
<1>1. \A loop : Pinning!Look(c, loop) <=> Service!Look(c, loop)
  BY DEF Pinning!Look, Pinning!Asleep, Service!Look, Service!Asleep
<1>2. Pinning!PinTurn(c) <=> Service!PinTurn(c)
  <2>1. \A f, rows : /\ Pinning!KeyViolated(rows, f) <=> Service!KeyViolated(rows, f)
                     /\ Pinning!Extended(rows, f) = Service!Extended(rows, f)
    BY DEF Pinning!KeyViolated, Pinning!Extended, Pinning!Moved,
           Service!KeyViolated, Service!Extended, Service!Moved
  <2>2. \A rows, events, b :
          Pinning!ExtensionChoices(rows, events, c, b) = Service!ExtensionChoices(rows, events, c, b)
    BY DEF Pinning!ExtensionChoices, Pinning!Extendable, Pinning!Extensions,
           Service!ExtensionChoices, Service!Extendable, Service!Extensions
  <2>3. \A rows, events, b :
          Pinning!NewCids(events, rows, c, b) = Service!NewCids(events, rows, c, b)
    BY DEF Pinning!NewCids, Pinning!Forever, Service!NewCids, Service!Forever
  <2>4. \A new : Pinning!PinTasks(new) = Service!PinTasks(new)
    BY DEF Pinning!PinTasks, Pinning!Task, Service!PinTasks, Service!Task
  <2>5. QED
    BY <2>1, <2>2, <2>3, <2>4, SameTurnEnds DEF Pinning!PinTurn, Service!PinTurn
<1>3. Pinning!UpdateFails(c) <=> Service!UpdateFails(c)
  BY SameTurnEnds DEF Pinning!UpdateFails, Pinning!KeyMayBeViolated, Pinning!Moved, Pinning!ExtensionChoices, Pinning!Extensions, Pinning!Extendable, Service!UpdateFails, Service!KeyMayBeViolated, Service!Moved, Service!ExtensionChoices, Service!Extensions, Service!Extendable
<1>4. Pinning!PinQueryFails(c) <=> Service!PinQueryFails(c)
  BY SameTurnEnds DEF Pinning!PinQueryFails, Pinning!Extended, Pinning!Moved, Pinning!KeyViolated, Pinning!ExtensionChoices, Pinning!Extensions, Pinning!Extendable, Service!PinQueryFails, Service!Extended, Service!Moved, Service!KeyViolated, Service!ExtensionChoices, Service!Extensions, Service!Extendable
<1>5. Pinning!RetryTurn(c) <=> Service!RetryTurn(c)
  BY SameTurnEnds DEF Pinning!RetryTurn, Pinning!DeleteExpiredFailed, Pinning!FailedCids, Pinning!Task, Service!RetryTurn, Service!DeleteExpiredFailed, Service!FailedCids, Service!Task
<1>6. Pinning!UnpinTurn(c) <=> Service!UnpinTurn(c)
  BY SameTurnEnds DEF Pinning!UnpinTurn, Pinning!DeleteMultichainExpired, Pinning!SingleChainExpired, Pinning!ExpiredRows, Pinning!Task, Pinning!Forever, Service!UnpinTurn, Service!DeleteMultichainExpired, Service!SingleChainExpired, Service!ExpiredRows, Service!Task, Service!Forever
<1>7. \A loop : Pinning!TurnFails(c, loop) <=> Service!TurnFails(c, loop)
  BY SameTurnEnds DEF Pinning!TurnFails, Service!TurnFails
<1>8. QED
  BY <1>1, <1>2, <1>3, <1>4, <1>5, <1>6, <1>7 DEF Pinning!Turn, Service!Turn, Pinning!Loops, Service!Loops

LEMMA SameSpec == Pinning!Spec <=> Service!Spec
<1>1. UNCHANGED Pinning!vars <=> UNCHANGED Service!vars
  BY DEF Pinning!vars, Service!vars
<1>2. Pinning!Next <=> Service!Next
  <2>1. Pinning!Rows = Service!Rows
    BY DEF Pinning!Rows, Pinning!Ends, Service!Rows, Service!Ends
  <2>2. \A c : Pinning!NewBlock(c) <=> Service!NewBlock(c)
    BY DEF Pinning!NewBlock, Service!NewBlock
  <2>3. \A d : Pinning!Donate(d) <=> Service!Donate(d)
    BY DEF Pinning!Donate, Pinning!AddValidBlock, Service!Donate, Service!AddValidBlock
  <2>4. Pinning!Crash <=> Service!Crash
    <3>1. Pinning!TaskStates = Service!TaskStates
      BY DEF Pinning!TaskStates, Pinning!Stages, Pinning!Strays, Pinning!Rows, Pinning!Ends,
             Service!TaskStates, Service!Stages, Service!Strays, Service!Rows, Service!Ends
    <3>2. Pinning!Stranded = Service!Stranded
      BY <3>1 DEF Pinning!Stranded, Pinning!Task, Service!Stranded, Service!Task
    <3>3. QED
      BY <3>2 DEF Pinning!Crash, Pinning!Loops, Pinning!Asleep,
                  Service!Crash, Service!Loops, Service!Asleep
  <2>5. QED
    BY <2>1, <2>2, <2>3, <2>4, SameTurns, SameTasks DEF Pinning!Next, Service!Next
<1>3. [Pinning!Next]_Pinning!vars <=> [Service!Next]_Service!vars
  BY <1>1, <1>2
<1>4. QED
  BY <1>3, SameInit, PTL DEF Pinning!Spec, Service!Spec

-----------------------------------------------------------------------------
(* What the service is shown of the row of an event is one it expects.       *)
LEMMA OwnEvent ==
    ASSUME NEW t \in Tasks, NEW l \in RelevantTo(t)
    PROVE  l \in Relevant /\ Paid(ValidBlockRow(l)) \in Donations
BY DEF Relevant, Donations

(* A step of the listener adds at most one row.                              *)
LEMMA OneRowAtATime ==
    ASSUME NEW t \in Tasks, Listens(t)
    PROVE  /\ UNCHANGED <<head, latest, crashes>>
           /\ UNCHANGED table \/ \E r : table' = table \cup {r}
<1>1. CASE Start(t)
  BY <1>1 DEF Start, Boot
<1>2. CASE Scan(t)
  BY <1>2 DEF Scan, Poll
<1>3. CASE Fetch(t)
  BY <1>3 DEF Fetch, FetchOk, FetchFails
<1>4. ASSUME NEW l \in Logs, Ignore(t, l) \/ InsertFails(t, l) \/ Panics(t, l)
      PROVE  UNCHANGED <<head, latest, crashes, table>>
  BY <1>4 DEF Ignore, InsertFails, Panics, Consume, Dies
<1>5. ASSUME NEW l \in Logs, Insert(t, l)
      PROVE  UNCHANGED <<head, latest, crashes>> /\ table' = table \cup {ValidBlockRow(l)}
  BY <1>5 DEF Insert, Consume, AddValidBlock
<1>6. CASE EndBatch(t)
  BY <1>6 DEF EndBatch, BatchDone
<1>7. QED
  BY <1>1, <1>2, <1>3, <1>4, <1>5, <1>6 DEF Listens, Handle

(* Every step of the daemon is one of the IPFS service or leaves it alone.   *)
LEMMA PinningStep ==
    ASSUME TypeOK, Sound', [HosqNext]_hosqVars
    PROVE  [Pinning!Next]_Pinning!vars
<1>1. CASE NewBlock /\ UNCHANGED <<table, pinVars>>
  BY <1>1 DEF NewBlock, pinVars, Pinning!vars
<1>2. CASE StoreLatest /\ UNCHANGED <<table, pinVars>>
  <2>1. head \in 0..MaxHead /\ latest \in 0..MaxHead /\ latest' \in (latest + 1)..head
    BY <1>2 DEF TypeOK, LoopTypeOK, StoreLatest
  <2>2. latest' \in (latest + 1)..MaxHead
    BY <2>1, LoopAssumption
  <2>3. Pinning!NewBlock(ChainId)
    BY <1>2, <2>2 DEF StoreLatest, pinVars, Chains, Pinning!NewBlock
  <2>4. QED
    BY <2>3 DEF Pinning!Next, Chains
<1>3. ASSUME NEW t \in Tasks, Listens(t), UNCHANGED pinVars
      PROVE  [Pinning!Next]_Pinning!vars
  <2>1. UNCHANGED <<head, latest, crashes>>
    BY <1>3, OneRowAtATime
  <2>2. CASE UNCHANGED table
    BY <1>3, <2>1, <2>2 DEF pinVars, Pinning!vars
  <2>3. ASSUME NEW r, table' = table \cup {r}
        PROVE  [Pinning!Next]_Pinning!vars
    <3> DEFINE d == Paid(r)
               seen == { Paid(q) : q \in table }
    <3>1. d \in Donations
      <4>1. PICK t2 \in Tasks : \E l \in RelevantTo(t2) : r = ValidBlockRow(l)
        BY <2>3 DEF Sound
      <4>2. QED
        BY <4>1, OwnEvent
    <3>2. seen' = seen \cup {d}
      BY <2>3 DEF Paid
    <3>3. CASE d \in seen
      BY <1>3, <2>1, <3>2, <3>3 DEF pinVars, Pinning!vars
    <3>4. CASE d \notin seen
      <4>1. Pinning!Donate(d)
        BY <1>3, <2>1, <3>2, <3>4 DEF pinVars, Pinning!Donate, Pinning!AddValidBlock
      <4>2. QED
        BY <3>1, <4>1 DEF Pinning!Next
    <3>5. QED
      BY <3>3, <3>4
  <2>4. QED
    BY <1>3, <2>2, <2>3, OneRowAtATime
<1>4. CASE Keeping
  <2>1. Pinning!Next
    BY <1>4 DEF Keeping, Pinning!Next, Chains
  <2>2. QED
    BY <2>1
<1>5. CASE RestartAll
  BY <1>5 DEF RestartAll, Pinning!Next
<1>6. CASE UNCHANGED hosqVars
  BY <1>6 DEF hosqVars, vars, loopVars, pinVars, Pinning!vars
<1>7. QED
  BY <1>1, <1>2, <1>3, <1>4, <1>5, <1>6 DEF HosqNext, Listening

(* The composition implements the IPFS service: what is proved of IpfsWatcher *)
(* holds beside the listener, which fills its table in chain order, with      *)
(* gaps, and now and then the same event again.                              *)
THEOREM ImplementsPinning == HosqSpec => PinningSpec
<1>1. HosqInit => Pinning!Init
  BY DEF HosqInit
<1>2. TypeOK /\ Sound' /\ [HosqNext]_hosqVars => [Pinning!Next]_Pinning!vars
  BY PinningStep
<1>3. QED
  BY <1>1, <1>2, ListenerAlone, TypeCorrect, OnlyRealEvents, PTL
     DEF HosqSpec, PinningSpec, Pinning!Spec

-----------------------------------------------------------------------------
\* The events of this provider that are on the chain.
OnChain == { Paid(ValidBlockRow(l)) : l \in { m \in Relevant : m.block <= head } }

LEMMA SeenIsOnChain ==
    ASSUME Sound, NEW r \in table
    PROVE  Paid(r) \in OnChain
<1>1. PICK t \in Tasks : \E l \in RelevantTo(t) : r = ValidBlockRow(l) /\ l.block <= head
  BY DEF Sound
<1>2. QED
  BY <1>1, OwnEvent DEF OnChain

(* While the service keeps its tables nothing else moves.                    *)
LEMMA TableAloneHere ==
    ASSUME [HosqNext]_hosqVars, pinned' # pinned
    PROVE  UNCHANGED <<head, latest, table>>
BY DEF HosqNext, Listening, Keeping, RestartAll, Pinning!Crash, hosqVars, pinVars, vars, loopVars

(* A step of the ledger that changes rows is one of the promise: what the     *)
(* ledger has seen is on the chain.                                         *)
LEMMA RowsAsPromised ==
    ASSUME Sound, UNCHANGED <<head, latest, table>>, pinned' # pinned, Service!Ledger!Next
    PROVE  Promise!Next
<1>1. { Paid(r) : r \in table } \subseteq OnChain
  BY SeenIsOnChain
<1>2. UNCHANGED <<[c \in Chains |-> latest], OnChain>>
  BY DEF OnChain, Paid
<1>3. ASSUME NEW d \in Donations, NEW n \in Nodes, Service!Ledger!Enter(d, n)
      PROVE  Promise!Enter(d, n)
  BY <1>1, <1>2, <1>3 DEF Service!Ledger!Enter, Promise!Enter, OnChain
<1>4. ASSUME NEW g \in [pinned -> { d.end : d \in Donations }], Service!Ledger!Renew(g)
      PROVE  Promise!Renew(g)
  BY <1>1, <1>2, <1>4 DEF Service!Ledger!Renew, Service!Ledger!PaidFor, Promise!Renew,
     Promise!PaidFor, OnChain
<1>5. ASSUME NEW S \in SUBSET pinned, Service!Ledger!StrikeOut(S)
      PROVE  Promise!StrikeOut(S)
  BY <1>2, <1>5 DEF Service!Ledger!StrikeOut, Promise!StrikeOut, OnChain, Forever, Service!Forever
<1>6. QED
  BY <1>3, <1>4, <1>5 DEF Service!Ledger!Next, Service!Ledger!Grow, Service!Ledger!Learn,
     Promise!Next

LEMMA PromiseStep ==
    ASSUME TypeOK, Sound, Service!IInv, [HosqNext]_hosqVars, [Service!Next]_Service!vars
    PROVE  [Promise!Next]_<<[c \in Chains |-> latest], OnChain, pinned>>
<1>1. CASE pinned' # pinned
  <2>1. UNCHANGED <<head, latest, table>>
    BY <1>1, TableAloneHere
  <2>2. [Service!Ledger!Next]_<<[c \in Chains |-> latest], { Paid(r) : r \in table }, pinned>>
    BY ServiceLedger
  <2>3. QED
    BY <1>1, <2>1, <2>2, RowsAsPromised
<1>2. CASE pinned' = pinned
  <2>1. CASE NewBlock
    <3>1. head' = head + 1 /\ UNCHANGED latest /\ head \in Nat
      BY <2>1 DEF NewBlock, TypeOK, LoopTypeOK
    <3>2. OnChain' = OnChain \cup OnChain'
      BY <3>1, LogsAssumption DEF OnChain, Relevant, RelevantTo
    <3>3. PICK S \in SUBSET Donations : S = OnChain'
      BY DEF OnChain, Donations
    <3>4. Promise!Learn(S)
      BY <1>2, <3>1, <3>2, <3>3 DEF Promise!Learn, OnChain
    <3>5. QED
      BY <3>3, <3>4 DEF Promise!Next
  <2>2. CASE latest' >= latest /\ UNCHANGED head
    <3>1. Promise!Grow
      BY <1>2, <2>2 DEF Promise!Grow, OnChain
    <3>2. QED
      BY <3>1 DEF Promise!Next
  <2>3. latest \in Nat /\ head \in Nat
    BY DEF TypeOK, LoopTypeOK
  <2>4. CASE StoreLatest \/ Keeping \/ RestartAll \/ UNCHANGED hosqVars
    <3>1. UNCHANGED head /\ latest' >= latest
      BY <2>3, <2>4 DEF StoreLatest, Keeping, RestartAll, Pinning!Crash, Chains, hosqVars, vars, loopVars, Restart
    <3>2. QED
      BY <2>2, <3>1
  <2>5. CASE \E t \in Tasks : Listens(t)
    <3>1. UNCHANGED <<head, latest>>
      BY <2>5, OneRowAtATime
    <3>2. QED
      BY <2>2, <2>3, <3>1
  <2>6. QED
    BY <2>1, <2>4, <2>5 DEF HosqNext, Listening
<1>3. QED
  BY <1>1, <1>2

(* From chain to pinned_cids: over fetches and inserts that fail, refusals,   *)
(* lost answers, overlapping tasks and restarts of the whole daemon, a row is *)
(* entered only for an event the chain has, moved only to a later end that   *)
(* another one pays for, and struck out only when its end has come.          *)
THEOREM PromiseKept == HosqSpec => PromiseSpec
<1>1. HosqInit => Promise!Init
  BY DEF HosqInit, Pinning!Init, Promise!Init, Donations
<1>2. TypeOK /\ Sound /\ Service!IInv /\ [HosqNext]_hosqVars /\ [Service!Next]_Service!vars
        => [Promise!Next]_<<[c \in Chains |-> latest], OnChain, pinned>>
  BY PromiseStep
<1>3. HosqSpec => Service!Spec
  BY ImplementsPinning, SameSpec, PTL DEF PinningSpec
<1>4. HosqSpec => [][Promise!Next]_<<[c \in Chains |-> latest], OnChain, pinned>>
  BY <1>2, <1>3, ListenerAlone, TypeCorrect, OnlyRealEvents, ServiceInvariant, PTL
     DEF HosqSpec, Service!Spec
<1>5. QED
  BY <1>1, <1>4, PTL DEF HosqSpec, PromiseSpec, Promise!Spec, OnChain

-----------------------------------------------------------------------------
(* While a node pins or unpins nothing else moves.                           *)
LEMMA NodesAlone ==
    ASSUME [HosqNext]_hosqVars, pins' # pins
    PROVE  UNCHANGED <<head, latest, table>>
BY DEF HosqNext, Listening, Keeping, RestartAll, Pinning!Crash, hosqVars, pinVars, vars, loopVars

(* From chain to nodes: a node comes to hold a cid only if the chain has an   *)
(* event of it, and loses it only when one of them has ended.               *)
THEOREM NodesServed == HosqSpec => NodesAsPaid
<1> DEFINE Paying == { l \in Relevant : l.block <= head }
           A == /\ \A p \in pins' \ pins : \E l \in Paying : l.cid = p[2]
                /\ \A p \in pins \ pins' :
                      \E l \in Paying : l.cid = p[2] /\ EndOf(l) # Forever /\ EndOf(l) <= latest
<1>1. ASSUME Sound, NEW d \in { Paid(r) : r \in table }
      PROVE  \E l \in Paying : d = [chain |-> ChainId, cid |-> l.cid, end |-> EndOf(l)]
  <2>1. d \in OnChain
    BY <1>1, SeenIsOnChain
  <2>2. \A l \in Relevant : /\ ValidBlockRow(l).cid = l.cid
                            /\ ValidBlockRow(l).end = EndOf(l)
    BY DEF ValidBlockRow, EndOf
  <2>3. QED
    BY <2>1, <2>2 DEF OnChain, Paid
<1>2. ASSUME Sound, Service!IInv, Service!Backed', [HosqNext]_hosqVars,
             [Service!Next]_Service!vars
      PROVE  [A]_hosqVars
  <2>1. CASE pins' # pins
    <3>1. UNCHANGED <<head, latest, table>>
      BY <1>2, <2>1, NodesAlone
    <3>2. ASSUME NEW p \in pins' PROVE \E l \in Paying : l.cid = p[2]
      <4>1. PICK d \in { Paid(r) : r \in table } : d.cid = p[2]
        BY <1>2, <3>1 DEF Service!Backed
      <4>2. PICK l \in Paying : d = [chain |-> ChainId, cid |-> l.cid, end |-> EndOf(l)]
        BY <1>1, <1>2
      <4>3. QED
        BY <4>1, <4>2
    <3>3. ASSUME NEW p \in pins, p \notin pins'
          PROVE  \E l \in Paying : l.cid = p[2] /\ EndOf(l) # Forever /\ EndOf(l) <= latest
      <4>1. PICK d \in { Paid(r) : r \in table } : <<p[1], d.cid>> = p /\ Service!Expired(d)
        BY <1>2, <3>3, ServiceUnpins
      <4>2. PICK l \in Paying : d = [chain |-> ChainId, cid |-> l.cid, end |-> EndOf(l)]
        BY <1>1, <1>2
      <4>3. l.cid = p[2] /\ EndOf(l) # Forever /\ EndOf(l) <= latest
        BY <4>1, <4>2 DEF Service!Expired, Chains, Forever, Service!Forever
      <4>4. QED
        BY <4>3
    <3>4. QED
      BY <3>2, <3>3
  <2>2. QED
    BY <2>1
<1>3. HosqSpec => Service!Spec
  BY ImplementsPinning, SameSpec, PTL DEF PinningSpec
<1>4. HosqSpec => [][A]_hosqVars
  BY <1>2, <1>3, ListenerAlone, OnlyRealEvents, ServiceInvariant, ServiceBacked, PTL
     DEF HosqSpec, Service!Spec
<1>5. QED
  BY <1>4, PTL DEF NodesAsPaid
=============================================================================
