--------------------------- MODULE ReliableTransfer ---------------------------
(***************************************************************************)
(* What Rtp promises its two programs, without packets, windows, sequence  *)
(* numbers or a network: a file of total packets reaches the receiver in   *)
(* order, the sender learns of it no earlier than it happens, the receiver *)
(* stores its file only when the sender knows that all of it has arrived,  *)
(* and a close that succeeds means the receiver has its file and is done.  *)
(* Either side may stop at any time.                                       *)
(***************************************************************************)
EXTENDS Integers

CONSTANT FileSizes   \* the numbers of packets a file may fill

VARIABLES
  total,       \* packets of the file
  delivered,   \* packets the receiver holds in order
  confirmed,   \* packets the sender knows to be delivered
  sender,      \* "sending", "confirmed", "closed" or "stopped"
  receiver     \* "receiving", "stored", "closed" or "stopped"

vars == <<total, delivered, confirmed, sender, receiver>>

\* A sender whose whole file is confirmed has nothing left to send.
SenderWith(n) == IF n = total THEN "confirmed" ELSE "sending"

Init ==
  /\ total \in FileSizes
  /\ delivered = 0
  /\ confirmed = 0
  /\ sender = SenderWith(0)
  /\ receiver = "receiving"

Deliver ==
  /\ receiver = "receiving"
  /\ delivered' \in delivered + 1 .. total
  /\ UNCHANGED <<total, confirmed, sender, receiver>>

Confirm ==
  /\ sender = "sending"
  /\ confirmed' \in confirmed + 1 .. delivered
  /\ sender' = SenderWith(confirmed')
  /\ UNCHANGED <<total, delivered, receiver>>

Store ==
  /\ receiver = "receiving"
  /\ confirmed = total
  /\ receiver' = "stored"
  /\ UNCHANGED <<total, delivered, confirmed, sender>>

ReceiverCloses ==
  /\ receiver = "stored"
  /\ receiver' = "closed"
  /\ UNCHANGED <<total, delivered, confirmed, sender>>

SenderCloses ==
  /\ sender = "confirmed"
  /\ receiver = "closed"
  /\ sender' = "closed"
  /\ UNCHANGED <<total, delivered, confirmed, receiver>>

SenderStops ==
  /\ sender \in {"sending", "confirmed"}
  /\ sender' = "stopped"
  /\ UNCHANGED <<total, delivered, confirmed, receiver>>

ReceiverStops ==
  /\ receiver \in {"receiving", "stored"}
  /\ receiver' = "stopped"
  /\ UNCHANGED <<total, delivered, confirmed, sender>>

Next ==
  \/ Deliver \/ Confirm \/ Store \/ ReceiverCloses \/ SenderCloses
  \/ SenderStops \/ ReceiverStops

Spec == Init /\ [][Next]_vars
=============================================================================
