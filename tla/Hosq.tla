-------------------------------- MODULE Hosq --------------------------------
(***************************************************************************)
(* The daemon on one chain: the listener of ContractWatcher, the IPFS service *)
(* of IpfsWatcher and the answers of Queries side by side, as main() starts  *)
(* them.  They share latest_block and the tables: the listener fills         *)
(* event_update_valid_block, the service reads it, the handlers read all of  *)
(* them; all end and start together.                                        *)
(*                                                                          *)
(* IpfsWatcher leaves open when which event is indexed.  Here an event is    *)
(* indexed when the listener gets to it, if it does, so what nodes and       *)
(* answers show can be related to what is on the chain.                     *)
(***************************************************************************)
EXTENDS ContractWatcher, Queries

CONSTANTS
    Nodes,      \* the configured IPFS nodes
    Faults,     \* what can go wrong between the IPFS service, node and database
    MaxCopies   \* bound: so many tasks in flight for the same row

\* The chain has finitely many logs, the configuration finitely many nodes.
ASSUME ServiceAssumption ==
    /\ MaxCopies \in Nat \ {0}
    /\ IsFiniteSet(Logs) /\ IsFiniteSet(Nodes)

VARIABLES
    pinned,   \* pinned_cids
    failed,   \* failed_pins
    pins,     \* the pairs <<node, cid>> that are pinned out there
    bn,       \* the block numbers the loops of the IPFS service work with
    flying    \* its tasks

pinVars == <<pinned, failed, pins, bn, flying>>
hosqVars == <<vars, pinVars>>

\* What the IPFS service sees of a row of event_update_valid_block.
Paid(r) == [chain |-> ChainId, cid |-> r.cid, end |-> r.end]

\* The end block an event is indexed with.
EndOf(l) == ValidBlockRow(l).end

Chains == {ChainId}
Cids == { l.cid : l \in Relevant }
Donations == { Paid(ValidBlockRow(l)) : l \in Relevant }

Pinning == INSTANCE IpfsWatcher WITH
    MaxBlock <- MaxHead,
    latest <- [c \in Chains |-> latest],
    euvb <- { Paid(r) : r \in table }

-----------------------------------------------------------------------------
HosqInit == Init /\ Pinning!Init

Listens(t) == Start(t) \/ Scan(t) \/ Fetch(t) \/ Handle(t) \/ EndBatch(t)

\* Chain, heartbeat and listener.
Listening ==
    /\ \/ (NewBlock \/ StoreLatest) /\ UNCHANGED table
       \/ \E t \in Tasks : Listens(t)
    /\ UNCHANGED pinVars

\* The loops and tasks of the IPFS service.
Keeping ==
    /\ UNCHANGED vars
    /\ Pinning!Turn(ChainId) \/ \E r \in Pinning!Rows : Pinning!TaskStep(r)

\* There is one process: it takes listener and service with it.
RestartAll == Restart /\ UNCHANGED table /\ Pinning!Crash

HosqNext == Listening \/ Keeping \/ RestartAll

HosqSpec == HosqInit /\ [][HosqNext]_hosqVars

(***************************************************************************)
(* That of ContractWatcher and of IpfsWatcher: the runtime polls all loops   *)
(* and tasks, each await ends, and a node asked again and again to pin or to *)
(* unpin does so in the end.  Of the steps of one loop only one is possible  *)
(* at a time, so they are taken together.                                   *)
(***************************************************************************)
Round(loop) ==
    \/ Pinning!Look(ChainId, loop)
    \/ loop = "pin" /\ \/ Pinning!PinTurn(ChainId) \/ Pinning!UpdateFails(ChainId)
                       \/ Pinning!PinQueryFails(ChainId)
    \/ loop = "retry" /\ (Pinning!RetryTurn(ChainId) \/ Pinning!TurnFails(ChainId, loop))
    \/ loop = "unpin" /\ (Pinning!UnpinTurn(ChainId) \/ Pinning!TurnFails(ChainId, loop))

Keeps(A) == UNCHANGED vars /\ A

HosqFairness ==
    /\ WF_hosqVars(StoreLatest /\ UNCHANGED <<table, pinVars>>)
    /\ \A t \in Tasks : WF_hosqVars(Listens(t) /\ UNCHANGED pinVars)
    /\ \A loop \in Pinning!Loops : WF_hosqVars(Keeps(Round(loop)))
    /\ \A r \in Pinning!Rows :
         /\ WF_hosqVars(Keeps(Pinning!PinOk(r) \/ Pinning!PinFails(r)))
         /\ SF_hosqVars(Keeps(Pinning!PinOk(r)))
         /\ WF_hosqVars(Keeps(Pinning!RmOk(r) \/ Pinning!RmFails(r)))
         /\ SF_hosqVars(Keeps(Pinning!RmOk(r)))
         /\ WF_hosqVars(Keeps(Pinning!Record(r)))
         /\ WF_hosqVars(Keeps(Pinning!Note(r)))
         /\ WF_hosqVars(Keeps(Pinning!Delete(r)))
         /\ WF_hosqVars(Keeps(Pinning!Arrives(r)))

HosqFairSpec == HosqSpec /\ HosqFairness

-----------------------------------------------------------------------------
\* The nodes that have a cid.
Holders(k) == { n \in Nodes : <<n, k>> \in pins }

\* The pages /cid/pinned may answer a donor with.  get_cids reads the block number
\* before it has a connection: it may be one the chain has left behind.
AnswerTo(donor, b) == GetCids(table, pinned, failed, ChainId, donor, b)

\* What the daemon does with its tables is a behaviour of the IPFS service,
\* whatever the listener does, also when it indexes an event twice.
PinningSpec == Pinning!Spec

\* The book of PinLedger kept on the chain itself: a row is entered for an
\* event the chain has, moved for another one, and struck out when it has ended.
Promise == INSTANCE PinLedger WITH
    Never <- Forever,
    block <- [c \in Chains |-> latest],
    events <- { Paid(ValidBlockRow(l)) : l \in { m \in Relevant : m.block <= head } },
    rows <- pinned

PromiseSpec == Promise!Spec

\* What the nodes see of it, over restarts and lost answers, through listener,
\* tables and loops with block numbers that are old by then: a node comes to hold
\* a cid only if the chain has an event of it for this provider, and loses it
\* only when one of those has ended.
NodesAsPaid ==
    [][LET paid == { l \in Relevant : l.block <= head } IN
       /\ \A p \in pins' \ pins : \E l \in paid : l.cid = p[2]
       /\ \A p \in pins \ pins' :
             \E l \in paid : l.cid = p[2] /\ EndOf(l) # Forever /\ EndOf(l) <= latest]_hosqVars

\* No indexed term of the cid is over.
Running(k) == \A r \in table : r.cid = k => r.end = Forever \/ r.end > latest

\* Of the rows of cid k that count at block b, those of node n.
Counted(k, b, n) == { r \in StillPinned(Of(pinned, ChainId, k), b) : r.node = n }

\* Nobody is told of a copy that is not there.  The end /cid/pinned gives for a
\* cid is that of an event on the chain.  As long as no term of the cid is over,
\* however old the block number it counts by, the number it gives is made up of
\* nodes that have the cid, each counted once, or once for every end paid for
\* when tasks have left several rows; and a cid that /cid/info says is pinned is
\* on some node.
AnswersTrue ==
    /\ \A d \in { l.donor : l \in Logs }, b \in 0..latest :
          \A page \in AnswerTo(d, b) : \A a \in page :
             /\ \E l \in Relevant : l.cid = a.cid /\ EndOf(l) = a.end_block /\ l.block <= head
             /\ a.node_count = Cardinality(UNION { Counted(a.cid, b, n) : n \in Nodes })
             /\ Running(a.cid) =>
                   \A n \in Nodes :
                      Cardinality(Counted(a.cid, b, n)) <=
                         IF n \in Holders(a.cid)
                         THEN Cardinality(EndsOf(Of(table, ChainId, a.cid))) ELSE 0
             /\ a.node_count <= IsPinned(pinned, a.cid)
    /\ \A l \in Relevant : \A i \in CidInfo(pinned, failed, l.cid) :
          Running(l.cid) /\ i.pinned_end_block # {} => Holders(l.cid) # {}

\* The page shows the cid on some node, with an end not before the one paid for.
Tells(page, l) ==
    \E a \in page : a.cid = l.cid /\ a.end_block >= EndOf(l) /\ a.node_count > 0

\* Over restarts, lost answers and refusals: what is paid for on the chain is
\* pinned in the end, to some node and till the end paid for, and the donor is told
\* so, on a page that may be full of other cids; unless the listener dies, gives
\* the event up, or the term is over.  Not to every node: when a restart loses
\* the task for one of them, the row of another hides the cid for good.
EventuallyServed ==
    \A l \in Relevant : OutOfDanger(l) =>
        ((head > l.block) ~>
            \/ l \in lost \/ (EndOf(l) # Forever /\ EndOf(l) <= latest)
            \/ /\ Holders(l.cid) # {}
               /\ \A page \in AnswerTo(l.donor, latest) :
                     Tells(page, l) \/ (Full(page) /\ \A a \in page : a.cid # l.cid))

\* What has a row when its term is over is unpinned in the end, and for good,
\* also when answers are lost or the process ends on the way, if no other term
\* of the cid is ever paid for.  Not so if a task that pins was still under way
\* then: it may pin after another has unpinned, and a third deletes the row that
\* would have had it unpinned again.
EventuallyReleased ==
    \A r \in Pinning!Rows :
        (\A l \in Relevant : l.cid = r.cid => EndOf(l) = r.end) =>
            ((r \in pinned /\ Pinning!Expired(r) /\ Pinning!Quiet(r))
                ~> [](Pinning!Copy(r) \notin pins))
=============================================================================
