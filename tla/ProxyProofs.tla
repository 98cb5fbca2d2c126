----------------------------- MODULE ProxyProofs -----------------------------
(***************************************************************************)
(* Proofs about Proxy, for every number of nodes, length of a body, limit    *)
(* of the channel and of what is between hyper and the node.                 *)
(*                                                                          *)
(* PartIsNoticed does not say what holds while the upload is under way: the   *)
(* node has no more than was sent and copied, a copy that is done is         *)
(* complete, the end is sent only after all that was announced, or else all  *)
(* that was copied, and "ok" is said only of a copy that is done (FlowInv).  *)
(***************************************************************************)
EXTENDS Proxy, TLAPS

FlowInv ==
    /\ got <= sent /\ sent <= copied /\ copied <= Portion
    /\ copying = "done" => copied = Portion
    /\ ended => IF announced THEN sent = size ELSE copying # "running" /\ sent = copied
    /\ whole => ended /\ got = sent
    /\ result = "ok" => copying = "done"

IInv == TypeOK /\ FlowInv

USE ProxyAssumption

-----------------------------------------------------------------------------
(* The portion is the whole body, or the limit when that is less.            *)
LEMMA PortionIs ==
    ASSUME size \in Nat
    PROVE  /\ Portion \in Nat
           /\ Portion = IF size <= Limit THEN size ELSE Limit
<1>1. \E x \in {size, Limit} : \A y \in {size, Limit} : x <= y
  OBVIOUS
<1>2. Portion \in {size, Limit} /\ \A y \in {size, Limit} : Portion <= y
  BY <1>1 DEF Portion, Min
<1>3. QED
  BY <1>2

LEMMA NodeExists == NodeChoices \subseteq 0..(NodeCount - 1)
BY DEF NodeChoices

LEMMA IInvInit == Init => IInv
<1> SUFFICES ASSUME Init PROVE IInv
  OBVIOUS
<1>1. TypeOK
  <2>1. node \in 0..(NodeCount - 1)
    BY NodeExists DEF Init
  <2>2. 0 \in 0..MaxSize
    OBVIOUS
  <2>3. QED
    BY <2>1, <2>2, Zenon DEF Init, TypeOK
<1>2. FlowInv
  BY PortionIs DEF Init, FlowInv
<1>3. QED
  BY <1>1, <1>2 DEF IInv

LEMMA IInvStep == IInv /\ [Next]_vars => IInv'
<1> SUFFICES ASSUME IInv, [Next]_vars PROVE IInv'
  OBVIOUS
<1>1. size' = size /\ announced' = announced /\ node' = node
  BY DEF Next, vars, Copy, CopyBreaks, ClientFails, CopyEnds, Take, Deliver, SendEnd, DeliverEnd,
         TooShort, NodeCloses, Close, Answer, Finish
<1>2. Portion' = Portion /\ Portion \in Nat /\ Portion <= size
  BY <1>1, PortionIs DEF Portion, IInv, TypeOK
<1> USE DEF IInv, TypeOK, FlowInv
<1>3. CASE UNCHANGED vars
  BY <1>2, <1>3 DEF vars
<1>4. CASE Copy
  BY <1>2, <1>4 DEF Copy
<1>5. CASE CopyBreaks \/ ClientFails \/ CopyEnds
  BY <1>2, <1>5 DEF CopyBreaks, ClientFails, CopyEnds
<1>6. CASE Take \/ Deliver
  BY <1>2, <1>6 DEF Take, Deliver
<1>7. CASE SendEnd
  BY <1>2, <1>7 DEF SendEnd, ChannelEnds, LengthKnown
<1>8. CASE DeliverEnd
  BY <1>2, <1>8 DEF DeliverEnd
<1>9. CASE TooShort \/ NodeCloses
  <2>1. /\ closed' = TRUE /\ request' \in {request, "failed"}
        /\ UNCHANGED <<size, announced, node, copying, copied, sent, got, ended, whole, result>>
    BY <1>9, Zenon DEF TooShort, NodeCloses, Close
  <2>2. QED
    BY <1>2, <2>1
<1>10. CASE Answer
  BY <1>2, <1>10 DEF Answer
<1>11. CASE Finish
  BY <1>2, <1>11 DEF Finish
<1>12. QED
  BY <1>3, <1>4, <1>5, <1>6, <1>7, <1>8, <1>9, <1>10, <1>11 DEF Next

-----------------------------------------------------------------------------
\* The variables of an upload keep their types, and the node is one there is.
THEOREM TypeCorrect == Spec => []TypeOK
<1>1. IInv => TypeOK
  BY DEF IInv
<1>2. QED
  BY IInvInit, IInvStep, <1>1, PTL DEF Spec

\* A part passes for a whole file only if its client has announced no length,
\* and then the client is not told "ok", unless the limit cut the body.
THEOREM NoSilentPart == Spec => []PartIsNoticed
<1>1. IInv => PartIsNoticed
  BY PortionIs DEF IInv, TypeOK, FlowInv, PartIsNoticed
<1>2. QED
  BY IInvInit, IInvStep, <1>1, PTL DEF Spec
=============================================================================
