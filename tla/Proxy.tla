-------------------------------- MODULE Proxy --------------------------------
(***************************************************************************)
(* POST /file/upload of src/routes/proxy.rs and upload_to_ipfs of            *)
(* src/utils/proxy.rs: the body of a client's request is copied, through a    *)
(* channel of hyper, into a request to an IPFS node, while that request is    *)
(* under way; when both have ended the client is told the node's answer.     *)
(*                                                                          *)
(* The body is counted in chunks.  What limits it, 100 MiB in the code, is   *)
(* Limit chunks here.                                                       *)
(*                                                                          *)
(* Environment: the client sends its body or breaks off; hyper takes what is  *)
(* in the channel, puts it on its way and checks it against a Content-Length, *)
(* if there is one; buffers and network hold it back; the node reads it, and  *)
(* may answer or close the connection at any time, also before it has read    *)
(* all of it.                                                               *)
(***************************************************************************)
EXTENDS Integers, FiniteSetsExt

CONSTANTS
    NodeCount,   \* configured IPFS nodes
    Limit,       \* the most chunks that are copied
    MaxSize,     \* bound: the client's body has so many chunks
    Room,        \* how many chunks the channel holds: one, in hyper
    Buffer       \* how many chunks are held between hyper and the node

ASSUME ProxyAssumption ==
    /\ NodeCount \in Nat \ {0}
    /\ Limit \in Nat
    /\ MaxSize \in Nat
    /\ Room \in Nat \ {0}
    /\ Buffer \in Nat \ {0}

VARIABLES
    size,       \* the client's body
    announced,  \* the client has sent a Content-Length
    node,       \* node_index
    copying,    \* data.stream_to(ps): "running", "done" or "failed"
    copied,     \* chunks given to the channel
    closed,     \* the connection, and the receiving end of the channel, is gone
    sent,       \* chunks hyper has taken from the channel
    got,        \* chunks the node has
    ended,      \* hyper has sent that this was all
    whole,      \* the node takes what it has for all
    request,    \* web_client.request(..): "running", "answered" or "failed"
    result      \* what the client is told: "none" so far, "ok" or "error"

vars ==
    <<size, announced, node, copying, copied, closed, sent, got, ended, whole, request, result>>

\* Variant: the bounds are taken to be inclusive, and len not to be a bound.
AnyIndex == 0..NodeCount

\* gen_range(0..len - 1) leaves out its upper bound, which is itself one less
\* than the number of nodes: the last node is never taken.
NodeChoices == IF NodeCount = 1 THEN {0} ELSE 0..(NodeCount - 2)

\* Variant: the headers of the client are not passed on.
NoHeaders == FALSE

\* All headers are, so hyper knows the length the client has announced.
LengthKnown == announced

\* What is read of the client's body.
Portion == Min({size, Limit})

-----------------------------------------------------------------------------
Init ==
    /\ size \in 0..MaxSize
    /\ announced \in BOOLEAN
    /\ node \in NodeChoices
    /\ copying = "running"
    /\ copied = 0
    /\ closed = FALSE
    /\ sent = 0
    /\ got = 0
    /\ ended = FALSE
    /\ whole = FALSE
    /\ request = "running"
    /\ result = "none"

(* The copying side: stream_to and poll_write.                              *)

\* Variant: the channel is not asked whether it has room.
CopyAnyway ==
    /\ copying = "running"
    /\ copied < Portion
    /\ ~closed
    /\ copied' = copied + 1
    /\ UNCHANGED <<size, announced, node, copying, closed, sent, got, ended, whole, request, result>>

\* poll_ready is pending while the channel is full.
Copy ==
    /\ copied - sent < Room
    /\ copying = "running"
    /\ copied < Portion
    /\ ~closed
    /\ copied' = copied + 1
    /\ UNCHANGED <<size, announced, node, copying, closed, sent, got, ended, whole, request, result>>

\* Variant: an error of poll_ready is taken for a full channel.
NeverBreaks == FALSE /\ UNCHANGED vars

\* poll_ready or try_send_data report that nobody reads the channel.
CopyBreaks ==
    /\ copying = "running"
    /\ copied < Portion
    /\ closed
    /\ copying' = "failed"
    /\ UNCHANGED <<size, announced, node, copied, closed, sent, got, ended, whole, request, result>>

\* The client breaks off.
ClientFails ==
    /\ copying = "running"
    /\ copied < Portion
    /\ copying' = "failed"
    /\ UNCHANGED <<size, announced, node, copied, closed, sent, got, ended, whole, request, result>>

\* The body is at its end, or the limit is reached: that is no error.
CopyEnds ==
    /\ copying = "running"
    /\ copied = Portion
    /\ copying' = "done"
    /\ UNCHANGED <<size, announced, node, copied, closed, sent, got, ended, whole, request, result>>

-----------------------------------------------------------------------------
(* The request.                                                             *)

\* hyper's connection has room for what is in the channel.
Take ==
    /\ ~closed
    /\ sent < copied /\ sent - got < Buffer
    /\ sent' = sent + 1
    /\ UNCHANGED <<size, announced, node, copying, copied, closed, got, ended, whole, request, result>>

\* A chunk reaches the node.
Deliver ==
    /\ ~closed
    /\ got < sent
    /\ got' = got + 1
    /\ UNCHANGED <<size, announced, node, copying, copied, closed, sent, ended, whole, request, result>>

\* stream_to has dropped the sending end, with or without an error: the channel
\* is at its end.
ChannelEnds == copying # "running" /\ sent = copied

\* With a length the body is over when so much was sent, otherwise when the
\* channel is.
SendEnd ==
    /\ ~closed /\ ~ended
    /\ IF LengthKnown THEN sent = size ELSE ChannelEnds
    /\ ended' = TRUE
    /\ UNCHANGED <<size, announced, node, copying, copied, closed, sent, got, whole, request, result>>

\* The node has read the end.
DeliverEnd ==
    /\ ~closed /\ ~whole
    /\ ended /\ got = sent
    /\ whole' = TRUE
    /\ UNCHANGED <<size, announced, node, copying, copied, closed, sent, got, ended, request, result>>

\* The connection is gone, and an answer that is not there yet never comes.
Close ==
    /\ closed' = TRUE
    /\ request' = IF request = "running" THEN "failed" ELSE request
    /\ UNCHANGED <<size, announced, node, copying, copied, sent, got, ended, whole, result>>

\* The body is shorter than announced: hyper gives up the connection.
TooShort ==
    /\ ~closed
    /\ ChannelEnds
    /\ LengthKnown /\ sent # size
    /\ Close

\* The node cannot be reached or closes the connection.
NodeCloses == ~closed /\ Close

\* The node may answer before it has the body; its status is not looked at.
Answer ==
    /\ ~closed
    /\ request = "running"
    /\ request' = "answered"
    /\ UNCHANGED <<size, announced, node, copying, copied, closed, sent, got, ended, whole, result>>

-----------------------------------------------------------------------------
\* join!: both are over.  The first chunk of the node's answer is taken for all
\* of it, and has to be JSON.
Finish ==
    /\ result = "none"
    /\ copying # "running" /\ request # "running"
    /\ \/ copying = "done" /\ request = "answered" /\ result' = "ok"
       \/ result' = "error"
    /\ UNCHANGED <<size, announced, node, copying, copied, closed, sent, got, ended, whole, request>>

Next ==
    \/ Copy \/ CopyBreaks \/ ClientFails \/ CopyEnds
    \/ Take \/ Deliver \/ SendEnd \/ DeliverEnd \/ TooShort
    \/ NodeCloses \/ Answer
    \/ Finish

Spec == Init /\ [][Next]_vars

(***************************************************************************)
(* The runtime polls both sides and hyper's connection; a client that does    *)
(* not break off goes on sending; a node reads what it is sent, and answers   *)
(* what it has read to the end, or else closes the connection.  The code has  *)
(* no timeout, so without the last two an upload may stay open forever.       *)
(***************************************************************************)
NodeReads == Deliver \/ DeliverEnd \/ (got < sent /\ NodeCloses)
NodeAnswers == whole /\ request = "running" /\ (Answer \/ NodeCloses)

Fairness ==
    /\ WF_vars(Copy \/ CopyBreaks \/ CopyEnds)
    /\ WF_vars(Take)
    /\ WF_vars(NodeReads)
    /\ WF_vars(SendEnd \/ TooShort)
    /\ WF_vars(NodeAnswers)
    /\ WF_vars(Finish)

FairSpec == Spec /\ Fairness

-----------------------------------------------------------------------------
TypeOK ==
    /\ size \in 0..MaxSize
    /\ announced \in BOOLEAN
    /\ node \in 0..(NodeCount - 1)
    /\ copying \in {"running", "done", "failed"}
    /\ copied \in 0..MaxSize
    /\ closed \in BOOLEAN
    /\ sent \in 0..MaxSize
    /\ got \in 0..MaxSize
    /\ ended \in BOOLEAN
    /\ whole \in BOOLEAN
    /\ request \in {"running", "answered", "failed"}
    /\ result \in {"none", "ok", "error"}

\* Dropping the channel's sender looks to hyper like the end of the body, also
\* after an error.  A node takes a part for a whole file only if the client has
\* announced no length; and unless the limit cut it (proxy.rs:118) the client
\* is then not told "ok".  Nothing is said of a node that answers before it has
\* read all: the client may then be told "ok" of a file that no node has.
PartIsNoticed ==
    whole /\ got < size => ~announced /\ (size > Limit \/ result # "ok")

\* An upload ends: no side of join! (proxy.rs:119) waits for the other forever,
\* whichever of them ends first.
UploadEnds == <>(result # "none")
=============================================================================
