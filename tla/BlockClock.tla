----------------------------- MODULE BlockClock -----------------------------
(***************************************************************************)
(* What the services take for granted of latest_block, whatever happens to   *)
(* the connection and to the process: it is a block the chain has, and it    *)
(* never goes back.                                                         *)
(***************************************************************************)
EXTENDS Integers

VARIABLES head,    \* the chain's last block
          latest   \* the last block the services know of

Init == head \in Nat /\ latest \in 0..head

Mine ==
    /\ head' \in Nat
    /\ head' > head
    /\ UNCHANGED latest

Learn ==
    /\ latest' \in latest..head
    /\ UNCHANGED head

Next == Mine \/ Learn

Spec == Init /\ [][Next]_<<head, latest>>
=============================================================================
