--------------------------- MODULE ReliableChannel ---------------------------
(***************************************************************************)
(* What one direction of a CConnection promises its users: the messages    *)
(* handed to SendData come out of the other end's message queue unchanged, *)
(* in order, once each, and all of them.                                   *)
(***************************************************************************)
EXTENDS Naturals, Sequences

CONSTANT Message

VARIABLES sent, received

Init == sent = <<>> /\ received = <<>>

Send == (\E m \in Message : sent' = Append(sent, m)) /\ UNCHANGED received

(* one packet from the network may complete several messages *)
Deliver ==
    /\ \E n \in (Len(received) + 1)..Len(sent) : received' = SubSeq(sent, 1, n)
    /\ UNCHANGED sent

Next == Send \/ Deliver
Spec == Init /\ [][Next]_<<sent, received>>
=============================================================================
