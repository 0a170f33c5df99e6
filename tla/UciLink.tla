------------------------------- MODULE UciLink -------------------------------
(***************************************************************************)
(* What the transport layer of the UWB HAL (TML) promises to the code      *)
(* above it, without its threads, flags and message queue: a write that    *)
(* was accepted is completed, one at a time and in order, and the packets  *)
(* the chip sends reach the HAL one by one, in the order in which the chip *)
(* sent them, none lost and none twice.  Tml.tla implements it.            *)
(***************************************************************************)
EXTENDS Naturals, Sequences

VARIABLES
  issued,     \* number of writes accepted so far
  completed,  \* number of the last write whose completion callback has run
  listening,  \* a read has been requested: packets are passed on from now
  pkts,       \* the packets the chip has sent so far, oldest first
  delivered   \* number of the last packet handed to phNxpUciHal_read_complete

linkVars == <<issued, completed, listening, pkts, delivered>>

(* A response answers the write numbered cmd; a notification answers none. *)
Packet == [ntf : BOOLEAN, cmd : Nat]
Response(c) == [ntf |-> FALSE, cmd |-> c]
Notification == [ntf |-> TRUE, cmd |-> 0]

LinkInit ==
  /\ issued = 0
  /\ completed = 0
  /\ listening = FALSE
  /\ pkts = <<>>
  /\ delivered = 0

Submit ==
  /\ completed = issued
  /\ issued' = issued + 1
  /\ UNCHANGED <<completed, listening, pkts, delivered>>

Complete ==
  /\ completed < issued
  /\ completed' = completed + 1
  /\ UNCHANGED <<issued, listening, pkts, delivered>>

Listen ==
  /\ listening' = TRUE
  /\ UNCHANGED <<issued, completed, pkts, delivered>>

Receive(p) ==
  /\ pkts' = Append(pkts, p)
  /\ UNCHANGED <<issued, completed, listening, delivered>>

Deliver ==
  /\ listening
  /\ delivered < Len(pkts)
  /\ delivered' = delivered + 1
  /\ UNCHANGED <<issued, completed, listening, pkts>>

LinkNext ==
  \/ Submit
  \/ Complete
  \/ Listen
  \/ Receive(Notification)
  \/ \E c \in 1 .. issued : Receive(Response(c))
  \/ Deliver

LinkSafety == LinkInit /\ [][LinkNext]_linkVars

LinkFairness == WF_linkVars(Complete) /\ WF_linkVars(Deliver)

LinkSpec == LinkSafety /\ LinkFairness
=============================================================================
