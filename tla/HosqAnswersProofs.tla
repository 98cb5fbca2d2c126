-------------------------- MODULE HosqAnswersProofs --------------------------
(***************************************************************************)
(* What the handlers answer, proved of the composition: the answers count    *)
(* rows, the invariants of IpfsCopiesProofs say which copies stand behind    *)
(* them, and ContractWatcher's which events behind those.                   *)
(***************************************************************************)
EXTENDS HosqProofs, FiniteSetTheorems

(* What is proved of rows and copies, with the service's assumption discharged. *)
LEMMA ServiceHolds == Service!Spec => []Service!UnpinnedByAnEnd
BY EventsFit, Service!LostOnlyToAnEnd DEF Service!IpfsAssumption

(* What relates rows and copies in the IPFS service does so in the daemon:   *)
(* beside the listener, which indexes in chain order, with gaps, and now and *)
(* then the same event again.                                               *)
THEOREM CopiesInTheDaemon ==
    HosqSpec => [](/\ Service!UnpinnedByAnEnd /\ Service!PinsOnTheBooks
                   /\ Service!EveryNodeAccounted /\ Service!OnlyExpiredUnpinned)
<1>1. Service!Spec => []Service!PinsOnTheBooks
  BY EventsFit, Service!NoStrayPin DEF Service!IpfsAssumption
<1>2. Service!Spec => []Service!EveryNodeAccounted
  BY EventsFit, Service!NobodyForgotten DEF Service!IpfsAssumption
<1>3. Service!Spec => []Service!OnlyExpiredUnpinned
  BY EventsFit, Service!NoEarlyUnpin DEF Service!IpfsAssumption
<1>4. HosqSpec => Service!Spec
  BY ImplementsPinning, SameSpec, PTL DEF PinningSpec
<1>5. QED
  BY <1>1, <1>2, <1>3, <1>4, ServiceHolds, PTL

-----------------------------------------------------------------------------
(* Finite sets: what MAX and COUNT need.                                     *)

(* A finite set of numbers that is not empty has a greatest member: a set of *)
(* all that exceed a number is smaller the greater the number.              *)
LEMMA MaxIsGreatest ==
    ASSUME NEW S \in SUBSET Int, IsFiniteSet(S), S # {}
    PROVE  Max(S) \in S /\ \A x \in S : x <= Max(S)
<1> DEFINE Up(x) == { y \in S : x < y }
           Ups == { Up(x) : x \in S }
<1>0. \A x \in S : Up(x) \in SUBSET S
  OBVIOUS
<1>1. Ups # {} /\ Ups \subseteq FiniteSubsetsOf(S)
  <2> HIDE DEF Up
  <2>1. Ups # {} /\ Ups \subseteq SUBSET S
    BY <1>0
  <2>2. QED
    BY <2>1, FS_FiniteSubsetsOfFinite
<1>2. PICK U \in Ups : \A V \in Ups : <<V, U>> \notin StrictSubsetOrdering(S)
  <2> HIDE DEF Ups
  <2>1. QED
    BY <1>1, FS_StrictSubsetOrderingWellFounded, WFMin
<1>3. PICK m \in S : U = Up(m)
  OBVIOUS
<1>4. ASSUME NEW x \in S, m < x PROVE FALSE
  <2>1. ~(x < x) /\ \A y \in S : x < y => m < y
    BY <1>4
  <2>2. Up(x) \subseteq Up(m) /\ x \in Up(m) /\ x \notin Up(x)
    BY <1>4, <2>1
  <2>3. <<Up(x), Up(m)>> \in StrictSubsetOrdering(S)
    BY <1>0, <2>2 DEF StrictSubsetOrdering
  <2>4. QED
    BY <1>2, <1>3, <2>3
<1>5. \A x \in S : m >= x /\ x <= m
  BY <1>4
<1>6. QED
  BY <1>5 DEF Max

LEMMA EndIsInt == \A l \in Logs : EndOf(l) \in Int
BY LoopAssumption, WordsAssumption DEF EndOf, ValidBlockRow, AsI64

(* The ends that are in use are finitely many.                               *)
LEMMA EndsFinite ==
    ASSUME NEW S, S \subseteq { EndOf(l) : l \in Logs }
    PROVE  IsFiniteSet(S) /\ S \subseteq Int
<1> DEFINE f == [l \in Logs |-> EndOf(l)]
           E == { EndOf(l) : l \in Logs }
<1>1. f \in Surjection(Logs, E)
  BY DEF Surjection
<1>2. IsFiniteSet(E)
  BY <1>1, ServiceAssumption, FS_Surjection
<1>3. E \subseteq Int
  BY EndIsInt
<1> HIDE DEF E
<1>4. QED
  BY <1>2, <1>3, FS_Subset DEF E

-----------------------------------------------------------------------------
(* From rows to events and copies.                                          *)

(* A row of event_update_valid_block shows an event on the chain.            *)
LEMMA EventShown ==
    ASSUME Sound, NEW e \in table
    PROVE  /\ \E l \in Relevant : l.cid = e.cid /\ EndOf(l) = e.end /\ l.block <= head
           /\ e.chain = ChainId /\ e.end \in { EndOf(l) : l \in Logs } /\ e.end \in Int
<1>1. PICK t \in Tasks : \E l \in RelevantTo(t) : e = ValidBlockRow(l) /\ l.block <= head
  BY DEF Sound
<1>2. PICK l \in RelevantTo(t) : e = ValidBlockRow(l) /\ l.block <= head
  BY <1>1
<1>3. l \in Logs /\ l \in Relevant /\ e.cid = l.cid /\ e.end = EndOf(l) /\ e.chain = ChainId
  BY <1>2 DEF Relevant, RelevantTo, ValidBlockRow, EndOf
<1>4. QED
  BY <1>2, <1>3, EndIsInt

(* A row of pinned_cids has its end from one of them.                        *)
LEMMA RowShown ==
    ASSUME Sound, Service!IInv, NEW r \in pinned
    PROVE  /\ \E e \in Of(table, ChainId, r.cid) : e.end = r.end
           /\ r = [chain |-> ChainId, node |-> r.node, cid |-> r.cid, end |-> r.end]
           /\ r.node \in Nodes
<1>1. r \in Service!Rows /\ Service!EventOf(r) \in { Paid(q) : q \in table }
  BY DEF Service!IInv, Service!TypeOK, Service!RowsBacked
<1>2. PICK e \in table : Paid(e) = Service!EventOf(r)
  BY <1>1
<1>3. e.cid = r.cid /\ e.end = r.end /\ r.chain = ChainId
  BY <1>2 DEF Paid, Service!EventOf
<1>4. e \in Of(table, ChainId, r.cid)
  BY <1>3, EventShown DEF Of
<1>5. QED
  BY <1>1, <1>3, <1>4 DEF Service!Rows

(* There are finitely many rows: an end of a log for each of a cid and node.  *)
LEMMA PinnedFinite ==
    ASSUME Sound, Service!IInv
    PROVE  IsFiniteSet(pinned)
<1> DEFINE Row(x) == [chain |-> ChainId, node |-> x[1], cid |-> x[2].cid, end |-> EndOf(x[2])]
           All == { Row(x) : x \in Nodes \X Logs }
           f == [x \in Nodes \X Logs |-> Row(x)]
<1>1. f \in Surjection(Nodes \X Logs, All)
  BY DEF Surjection
<1>2. IsFiniteSet(All)
  <2> HIDE DEF All, f
  <2>1. IsFiniteSet(Nodes \X Logs)
    BY ServiceAssumption, FS_Product
  <2>2. QED
    BY <1>1, <2>1, FS_Surjection
<1>3. pinned \subseteq All
  <2> SUFFICES ASSUME NEW r \in pinned PROVE r \in All
    OBVIOUS
  <2>1. PICK e \in Of(table, ChainId, r.cid) : e.end = r.end
    BY RowShown
  <2>2. PICK l \in Relevant : l.cid = e.cid /\ EndOf(l) = e.end
    BY EventShown DEF Of
  <2>3. l \in Logs /\ l.cid = r.cid /\ EndOf(l) = r.end
    BY <2>1, <2>2 DEF Relevant, RelevantTo, Of
  <2>4. r = Row(<<r.node, l>>) /\ <<r.node, l>> \in Nodes \X Logs
    BY <2>3, RowShown
  <2>5. QED
    BY <2>4
<1> HIDE DEF All
<1>4. QED
  BY <1>2, <1>3, FS_Subset

(* While no term of a cid is over each of its rows stands for a copy.        *)
LEMMA CopyBehindRow ==
    ASSUME TypeOK, Sound, Service!IInv, Service!UnpinnedByAnEnd,
           NEW r \in pinned, Running(r.cid)
    PROVE  r.node \in Holders(r.cid)
<1>1. CASE Service!Copy(r) \in pins
  BY <1>1, RowShown DEF Service!Copy, Holders
<1>2. ASSUME NEW d \in { Paid(q) : q \in table }, d.cid = r.cid, Service!Expired(d)
      PROVE  FALSE
  <2>1. PICK q \in table : d = Paid(q)
    OBVIOUS
  <2>2. q.cid = r.cid /\ q.end # Forever /\ q.end <= latest
    BY <1>2, <2>1 DEF Paid, Service!Expired, Chains, Forever, Service!Forever
  <2>3. q.end \in Int /\ latest \in Int
    BY EventShown DEF TypeOK, LoopTypeOK
  <2>4. QED
    BY <2>2, <2>3 DEF Running
<1>3. QED
  BY <1>1, <1>2 DEF Service!UnpinnedByAnEnd

(* Rows that count differ by node or end: a node without a copy has none, and *)
(* one with a copy at most one for each end.                                *)
LEMMA CopiesBehindCount ==
    ASSUME TypeOK, Sound, Service!IInv, Service!UnpinnedByAnEnd,
           NEW k, NEW b, Running(k), NEW n \in Nodes
    PROVE  Cardinality(Counted(k, b, n)) <=
               IF n \in Holders(k) THEN Cardinality(EndsOf(Of(table, ChainId, k))) ELSE 0
<1> DEFINE S == Counted(k, b, n)
           E == EndsOf(Of(table, ChainId, k))
           f == [r \in S |-> r.end]
<1>1. \A r \in S : /\ n \in Holders(k) /\ r.end \in E
                   /\ r = [chain |-> ChainId, node |-> n, cid |-> k, end |-> r.end]
  <2> SUFFICES ASSUME NEW r \in S
               PROVE  /\ n \in Holders(k) /\ r.end \in E
                      /\ r = [chain |-> ChainId, node |-> n, cid |-> k, end |-> r.end]
    OBVIOUS
  <2>1. r \in pinned /\ r.cid = k /\ r.node = n
    BY DEF Counted, StillPinned, Of
  <2>2. r.end \in E
    BY <2>1, RowShown DEF EndsOf
  <2>3. QED
    BY <2>1, <2>2, RowShown, CopyBehindRow
<1>2. IsFiniteSet(E)
  <2>1. E \subseteq { EndOf(l) : l \in Logs }
    BY EventShown DEF EndsOf, Of
  <2>2. QED
    BY <2>1, EndsFinite
<1> HIDE DEF S, E
<1>3. f \in Injection(S, E)
  BY <1>1 DEF Injection, IsInjective
<1>4. Cardinality(S) <= Cardinality(E)
  <2> HIDE DEF f
  <2>1. QED
    BY <1>2, <1>3, FS_Injection
<1>5. CASE n \in Holders(k)
  BY <1>4, <1>5 DEF S, E
<1>6. CASE n \notin Holders(k)
  <2>1. S = {}
    BY <1>1, <1>6
  <2>2. QED
    BY <1>6, <2>1, FS_EmptySet DEF S
<1>7. QED
  BY <1>5, <1>6

(* An entry of /cid/pinned: its end is that of a row or event of the cid, its *)
(* count is that of the rows that count.                                    *)
LEMMA EntryShown ==
    ASSUME Sound, Service!IInv, NEW d, NEW b, NEW page \in AnswerTo(d, b), NEW a \in page
    PROVE  /\ \E e \in Of(table, ChainId, a.cid) : a.end_block = e.end
           /\ a.node_count = Cardinality(StillPinned(Of(pinned, ChainId, a.cid), b))
<1> DEFINE PaidBy(k) == { e \in Of(table, ChainId, k) : e.donor = d }
           Seen(k) == IF Of(pinned, ChainId, k) # {} THEN Of(pinned, ChainId, k) ELSE PaidBy(k)
           Entry(k) == CidReport(table, pinned, failed, ChainId, d, b, k)
           Theirs == { f \in table : f.chain = ChainId /\ f.donor = d }
<1>1. PICK e \in Theirs : a = Entry(e.cid)
  <2> HIDE DEF Entry
  <2>1. page \in SUBSET { Entry(e.cid) : e \in Theirs }
    BY DEF AnswerTo, GetCids, Pages, Entry
  <2>2. QED
    BY <2>1
<1> DEFINE k == e.cid
<1>2. /\ a.cid = k
      /\ a.end_block = Max(EndsOf(Seen(k)))
      /\ a.node_count = Cardinality(StillPinned(Of(pinned, ChainId, k), b))
  BY <1>1 DEF CidReport
<1>3. PaidBy(k) # {}
  BY DEF Of
<1>4. \A r \in Seen(k) : \E q \in Of(table, ChainId, k) : q.end = r.end
  BY RowShown DEF Of
<1>5. EndsOf(Seen(k)) # {} /\ EndsOf(Seen(k)) \subseteq { EndOf(l) : l \in Logs }
  <2>1. Seen(k) # {}
    BY <1>3
  <2>2. \A q \in Of(table, ChainId, k) : q.end \in { EndOf(l) : l \in Logs }
    BY EventShown DEF Of
  <2> HIDE DEF Seen
  <2>3. QED
    BY <1>4, <2>1, <2>2 DEF EndsOf
<1> HIDE DEF Seen
<1>6. Max(EndsOf(Seen(k))) \in EndsOf(Seen(k))
  BY <1>5, EndsFinite, MaxIsGreatest
<1>7. QED
  BY <1>2, <1>4, <1>6 DEF EndsOf

(* An entry of /cid/info is about a chain, and gives an end if it has rows.   *)
LEMMA ChainShown ==
    ASSUME NEW k, NEW i \in CidInfo(pinned, failed, k)
    PROVE  \E c : i.pinned_end_block = IF Of(pinned, c, k) = {} THEN {}
                                       ELSE {Max(EndsOf(Of(pinned, c, k)))}
<1> DEFINE Count(S, T) == Cardinality(S) * Max({1, Cardinality(T)})
           Top(S) == IF S = {} THEN {} ELSE {Max(EndsOf(S))}
           Entry(c) ==
             [chain_id |-> c,
              pinned_node_count |-> Count(Of(pinned, c, k), Of(failed, c, k)),
              pinned_end_block |-> Top(Of(pinned, c, k)),
              failed_node_count |-> Count(Of(failed, c, k), Of(pinned, c, k)),
              failed_end_block |-> Top(Of(failed, c, k))]
           Theirs == { r.chain : r \in { q \in pinned \cup failed : q.cid = k } }
<1>1. CidInfo(pinned, failed, k) = { Entry(c) : c \in Theirs }
  BY DEF CidInfo
<1>2. PICK c \in Theirs : i.pinned_end_block = Top(Of(pinned, c, k))
  <2> HIDE DEF Theirs, Top, Count
  <2>1. QED
    BY <1>1
<1>3. QED
  BY <1>2

(* Nobody is told of a copy that is not there, whatever fails, restarts or   *)
(* overlaps, however often a cid is paid for and by whom, and whichever page *)
(* of the answer is given: only nodes that have the cid are in the count.     *)
THEOREM AnswersAreTrue == HosqSpec => []AnswersTrue
<1>1. ASSUME TypeOK, Sound, Service!IInv, Service!UnpinnedByAnEnd PROVE AnswersTrue
  <2>1. ASSUME NEW d, NEW b, NEW page \in AnswerTo(d, b), NEW a \in page
        PROVE  /\ \E l \in Relevant : l.cid = a.cid /\ EndOf(l) = a.end_block /\ l.block <= head
               /\ a.node_count = Cardinality(UNION { Counted(a.cid, b, n) : n \in Nodes })
               /\ Running(a.cid) =>
                     \A n \in Nodes :
                        Cardinality(Counted(a.cid, b, n)) <=
                           IF n \in Holders(a.cid)
                           THEN Cardinality(EndsOf(Of(table, ChainId, a.cid))) ELSE 0
               /\ a.node_count <= IsPinned(pinned, a.cid)
    <3> DEFINE S == StillPinned(Of(pinned, ChainId, a.cid), b)
    <3>1. a.node_count = Cardinality(S)
      BY <1>1, EntryShown
    <3>2. \E l \in Relevant : l.cid = a.cid /\ EndOf(l) = a.end_block /\ l.block <= head
      <4>1. PICK e \in Of(table, ChainId, a.cid) : a.end_block = e.end
        BY <1>1, EntryShown
      <4>2. e \in table /\ e.cid = a.cid
        BY DEF Of
      <4>3. QED
        BY <1>1, <4>1, <4>2, EventShown
    <3>3. S = UNION { Counted(a.cid, b, n) : n \in Nodes }
      <4>1. S \subseteq pinned
        BY DEF StillPinned, Of
      <4>2. \A r \in S : r.node \in Nodes
        BY <1>1, <4>1, RowShown
      <4> HIDE DEF S
      <4>3. \A n : Counted(a.cid, b, n) = { r \in S : r.node = n }
        BY DEF Counted, S
      <4>4. QED
        BY <4>2, <4>3
    <3>4. IsFiniteSet({ r \in pinned : r.cid = a.cid })
      BY <1>1, PinnedFinite, FS_Subset
    <3>5. S \in SUBSET { r \in pinned : r.cid = a.cid }
      BY DEF StillPinned, Of
    <3>6. Cardinality(S) <= IsPinned(pinned, a.cid)
      BY <3>4, <3>5, FS_Subset DEF IsPinned
    <3>7. Running(a.cid) =>
            \A n \in Nodes :
               Cardinality(Counted(a.cid, b, n)) <=
                  IF n \in Holders(a.cid)
                  THEN Cardinality(EndsOf(Of(table, ChainId, a.cid))) ELSE 0
      BY <1>1, CopiesBehindCount
    <3>8. a.node_count = Cardinality(UNION { Counted(a.cid, b, n) : n \in Nodes })
      BY <3>1, <3>3
    <3>9. a.node_count <= IsPinned(pinned, a.cid)
      BY <3>1, <3>6
    <3> HIDE DEF S
    <3>10. QED
      BY <3>2, <3>7, <3>8, <3>9, Zenon
  <2>2. ASSUME NEW k, NEW i \in CidInfo(pinned, failed, k), Running(k), i.pinned_end_block # {}
        PROVE  Holders(k) # {}
    <3>1. PICK c : i.pinned_end_block = IF Of(pinned, c, k) = {} THEN {}
                                        ELSE {Max(EndsOf(Of(pinned, c, k)))}
      BY ChainShown
    <3>2. PICK r \in pinned : r.cid = k
      BY <2>2, <3>1 DEF Of
    <3>3. QED
      BY <1>1, <2>2, <3>2, CopyBehindRow
  <2>3. QED
    BY <2>1, <2>2 DEF AnswersTrue
<1>2. HosqSpec => Service!Spec
  BY ImplementsPinning, SameSpec, PTL DEF PinningSpec
<1>3. QED
  BY <1>1, <1>2, ListenerAlone, TypeCorrect, OnlyRealEvents, ServiceInvariant, ServiceHolds, PTL
=============================================================================
