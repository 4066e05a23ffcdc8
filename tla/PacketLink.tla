----------------------------- MODULE PacketLink -----------------------------
(***************************************************************************)
(* What a transport promises the client (the Transport trait): while it is *)
(* connected every packet of the companion is read once, whole and in the  *)
(* order it was sent, and what a lost connection had not delivered is not  *)
(* delivered by a later one.                                               *)
(***************************************************************************)
EXTENDS Sequences

CONSTANT Packets

VARIABLES connected,  \* the connection the transport owns
          pending,    \* packets sent on it and not read yet
          received    \* packets read from it

link == <<connected, pending, received>>

Empty == pending = <<>> /\ received = <<>>

Init == ~connected /\ Empty

Open == ~connected /\ connected' = TRUE /\ pending' = <<>> /\ received' = <<>>

Close == connected /\ connected' = FALSE /\ pending' = <<>> /\ received' = <<>>

Send ==
    /\ connected
    /\ \E packet \in Packets : pending' = Append(pending, packet)
    /\ UNCHANGED <<connected, received>>

Receive ==
    /\ connected /\ pending # <<>>
    /\ received' = Append(received, Head(pending))
    /\ pending' = Tail(pending)
    /\ UNCHANGED connected

Next == Open \/ Close \/ Send \/ Receive

Spec == Init /\ [][Next]_link
=============================================================================
