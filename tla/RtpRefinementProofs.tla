-------------------------- MODULE RtpRefinementProofs --------------------------
(***************************************************************************)
(* RtpTransfer implements ReliableTransfer: an ACK of new data is a        *)
(* Confirm, the packets recv_base passes are a Deliver, recv_file is a     *)
(* Store and the closing steps are closings of the abstract transfer.      *)
(***************************************************************************)
EXTENDS RtpTransferProofs

\* The phases, place by place.
LEMMA SenderPhases ==
  /\ s_pc \in {"fill", "wait"} => SenderPhase = "sending"
  /\ s_pc \in {"sent", "finwait"} => SenderPhase = "confirmed"
  /\ s_pc = "closed" => SenderPhase = "closed"
  /\ s_pc \in {"unclosed", "timedout", "killed"} => SenderPhase = "stopped"
BY DEF SenderPhase

LEMMA ReceiverPhases ==
  /\ r_pc \in {"recv", "writing"} => ReceiverPhase = "receiving"
  /\ r_pc = "recvd" => ReceiverPhase = "stored"
  /\ r_pc = "closed" => ReceiverPhase = "closed"
  /\ r_pc \in {"timedout", "killed"} => ReceiverPhase = "stopped"
BY DEF ReceiverPhase

LEMMA NextSenderPhases ==
  /\ s_pc' \in {"fill", "wait"} => SenderPhase' = "sending"
  /\ s_pc' \in {"sent", "finwait"} => SenderPhase' = "confirmed"
  /\ s_pc' = "closed" => SenderPhase' = "closed"
  /\ s_pc' \in {"unclosed", "timedout", "killed"} => SenderPhase' = "stopped"
BY DEF SenderPhase

LEMMA NextReceiverPhases ==
  /\ r_pc' \in {"recv", "writing"} => ReceiverPhase' = "receiving"
  /\ r_pc' = "recvd" => ReceiverPhase' = "stored"
  /\ r_pc' = "closed" => ReceiverPhase' = "closed"
  /\ r_pc' \in {"timedout", "killed"} => ReceiverPhase' = "stopped"
BY DEF ReceiverPhase

\* What the invariant says of the counts the phases turn on.
CountsInv ==
  /\ Acked \in Nat /\ Received \in Nat /\ total_packets \in Nat
  /\ Acked <= Received /\ Received <= total_packets
  /\ s_pc \in {"fill", "wait"} => Acked < total_packets
  /\ s_pc \in {"sent", "finwait", "closed", "unclosed"} => Acked = total_packets

LEMMA Counts == IndInv => CountsInv
BY Numbers DEF IndInv, CoreInv, WindowInv, Acked, Received, Sent, CountsInv

LEMMA NextCounts == IndInv' => CountsInv'
BY Counts, PTL

\* Initial states map to initial states.
LEMMA InitRefines ==
  ASSUME Init
  PROVE  Promise!Init
<1>1. IndInv /\ CountsInv
  BY InitEstablishes, Counts DEF IndInv, FinInv, Init
<1>2. s_pc \in {"fill", "wait", "sent"}
  BY DEF Init, LoopPc
<1>3. s_seq_num = s_seq_base /\ r_seq_num = r_seq_base
  BY <1>1, <1>2 DEF IndInv, CoreInv, SeqNumInv, Init
<1>4. Acked = 0 /\ Received = 0
  BY <1>1, <1>3, Numbers DEF IndInv, CoreInv, Init, Acked, Received
<1>5. SenderPhase = IF total_packets = 0 THEN "confirmed" ELSE "sending"
  BY <1>1, <1>2, <1>4, SenderPhases DEF CountsInv
<1>6. ReceiverPhase = "receiving"
  BY ReceiverPhases DEF Init
<1>7. total_packets \in FileSizes
  BY DEF Init
<1> QED
  BY <1>4, <1>5, <1>6, <1>7 DEF Promise!Init, Promise!SenderWith

-----------------------------------------------------------------------------
(* Steps of the sender map to steps of the sender or stutter.              *)

LEMMA SenderRefines ==
  ASSUME IndInv, IndInv', Sender
  PROVE  [Promise!Next]_(Promise!vars)
<1>1. /\ total_packets' = total_packets /\ s_seq_base' = s_seq_base
      /\ r_pc' = r_pc /\ recv_base' = recv_base /\ r_seq_base' = r_seq_base
  BY DEF Sender, SendNext, RetransmitWindow, SendTimesOut, NewAck, DuplicateAck,
         RecvFinAck, SendFin, ResendFin, CloseFails, SenderDies, receiverVars, senderVars
<1>2. ReceiverPhase' = ReceiverPhase /\ Received' = Received
  BY <1>1 DEF ReceiverPhase, Received
<1>3. CountsInv /\ CountsInv'
  BY Counts, NextCounts
<1>4. ASSUME base' = base, SenderPhase' = SenderPhase
      PROVE  UNCHANGED Promise!vars
  BY <1>1, <1>2, <1>4 DEF Promise!vars, Acked
<1>5. ASSUME base' = base, s_pc \in {"fill", "wait"}, s_pc' \in {"fill", "wait", "sent"}
      PROVE  UNCHANGED Promise!vars
  <2>1. Acked' = Acked
    BY <1>1, <1>5 DEF Acked
  <2>2. s_pc' # "sent"
    BY <1>1, <1>3, <1>5, <2>1 DEF CountsInv
  <2> QED
    BY <1>4, <1>5, <2>2, SenderPhases, NextSenderPhases
<1>6. CASE SendNext
  BY <1>5, <1>6 DEF SendNext, LoopPc
<1>7. ASSUME NEW m \in r2s, DuplicateAck(m)
      PROVE  UNCHANGED Promise!vars
  BY <1>5, <1>7 DEF DuplicateAck, LoopPc
<1>8. CASE RetransmitWindow \/ ResendFin
  BY <1>4, <1>8 DEF RetransmitWindow, ResendFin, SenderPhase, senderVars
<1>9. CASE SendFin
  BY <1>4, <1>9, SenderPhases, NextSenderPhases DEF SendFin
<1>10. ASSUME NEW m \in r2s, NewAck(m)
       PROVE  Promise!Confirm
  <2>1. s_pc = "wait" /\ s_pc' \in {"fill", "wait", "sent"}
    BY <1>10 DEF NewAck, LoopPc
  <2>2. Acked' > Acked
    <3>1. PICK a : a = Seq32to64(s_seq_base, m.seq)
      OBVIOUS
    <3>2. a + 1 > base /\ base' = a + 1
      BY <1>10, <3>1 DEF NewAck
    <3>3. base \in Nat /\ base' \in Nat /\ s_seq_base \in Nat
      BY Numbers DEF IndInv, CoreInv, TypeOK, SenderTypeOK
    <3> QED
      BY <1>1, <3>2, <3>3 DEF Acked
  <2>3. Acked' = total_packets <=> s_pc' = "sent"
    BY <1>1, <1>3, <2>1 DEF CountsInv
  <2>4. SenderPhase = "sending"
        /\ SenderPhase' = IF Acked' = total_packets THEN "confirmed" ELSE "sending"
    BY <2>1, <2>3, SenderPhases, NextSenderPhases
  <2>5. Acked' \in Acked + 1 .. Received
    BY <1>2, <1>3, <2>2 DEF CountsInv
  <2> QED
    BY <1>1, <1>2, <2>4, <2>5 DEF Promise!Confirm, Promise!SenderWith
<1>11. ASSUME NEW m \in r2s, RecvFinAck(m)
       PROVE  Promise!SenderCloses
  <2>1. s_pc = "finwait" /\ s_pc' = "closed" /\ base' = base /\ r_pc = "closed"
    BY <1>11 DEF RecvFinAck, IndInv, CoreInv, NetworkInv, ReceiverSaid
  <2> QED
    BY <1>1, <1>2, <2>1, SenderPhases, NextSenderPhases, ReceiverPhases
       DEF Promise!SenderCloses, Acked
<1>12. CASE SendTimesOut \/ CloseFails \/ SenderDies
  <2>1. s_pc \in {"fill", "wait", "sent", "finwait"} /\ base' = base
        /\ s_pc' \in {"unclosed", "timedout", "killed"}
    BY <1>12 DEF SendTimesOut, CloseFails, SenderDies, SenderDone, IndInv, CoreInv, TypeOK,
       SenderTypeOK, SenderPcs
  <2>2. Promise!SenderStops
    BY <1>1, <1>2, <2>1, SenderPhases, NextSenderPhases
       DEF Promise!SenderStops, Acked
  <2> QED
    BY <2>2 DEF Promise!Next
<1> QED
  BY <1>6, <1>5, <1>7, <1>8, <1>9, <1>10, <1>11, <1>12 DEF Sender, Promise!Next

-----------------------------------------------------------------------------
(* Steps of the receiver map to steps of the receiver or stutter.          *)

LEMMA ReceiverRefines ==
  ASSUME IndInv, IndInv', Receiver
  PROVE  [Promise!Next]_(Promise!vars)
<1>1. /\ total_packets' = total_packets /\ s_seq_base' = s_seq_base
      /\ s_pc' = s_pc /\ base' = base /\ r_seq_base' = r_seq_base
  BY DEF Receiver, RecvDat, RecvFin, AllReceived, RecvTimesOut, WriteFile,
         WaitClose, ReceiverDies, receiverVars, senderVars
<1>2. SenderPhase' = SenderPhase /\ Acked' = Acked
  BY <1>1 DEF SenderPhase, Acked
<1>3. CountsInv /\ CountsInv'
  BY Counts, NextCounts
<1>4. ASSUME recv_base' = recv_base, ReceiverPhase' = ReceiverPhase
      PROVE  UNCHANGED Promise!vars
  BY <1>1, <1>2, <1>4 DEF Promise!vars, Received
<1>5. ASSUME NEW m \in s2r, RecvDat(m)
      PROVE  Promise!Deliver \/ UNCHANGED Promise!vars
  <2>1. ReceiverPhase = "receiving" /\ ReceiverPhase' = "receiving"
    BY <1>5, ReceiverPhases, NextReceiverPhases DEF RecvDat
  <2>2. CASE recv_base' = recv_base
    BY <1>4, <2>1, <2>2
  <2>3. CASE recv_base' # recv_base
    <3>1. recv_base' \in recv_base .. r_seq_base + Sent + 1
      BY <1>5, RecvBaseMoves DEF IndInv
    <3>2. PICK n : n = recv_base'
      OBVIOUS
    <3>3. n \in recv_base .. r_seq_base + Sent + 1 /\ n # recv_base
          /\ Received' = n - r_seq_base - 1
      BY <1>1, <2>3, <3>1, <3>2 DEF Received
    <3>4. recv_base \in Nat /\ r_seq_base \in Nat
      BY Numbers DEF IndInv, CoreInv
    <3>5. n - r_seq_base - 1 > Received
      BY <3>3, <3>4 DEF Received
    <3>6. Received' \in Received + 1 .. total_packets
      BY <1>1, <1>3, <3>3, <3>5 DEF CountsInv
    <3> QED
      BY <1>1, <1>2, <2>1, <3>6 DEF Promise!Deliver
  <2> QED
    BY <2>2, <2>3
<1>6. ASSUME NEW m \in s2r, RecvFin(m)
      PROVE  UNCHANGED Promise!vars
  BY <1>4, <1>6 DEF RecvFin, ReceiverPhase
<1>7. CASE AllReceived
  BY <1>4, <1>7, ReceiverPhases, NextReceiverPhases DEF AllReceived
<1>8. CASE WriteFile
  <2>1. r_pc = "writing" /\ r_pc' = "recvd" /\ recv_base' = recv_base
    BY <1>8 DEF WriteFile
  <2>2. Acked = total_packets
    BY <2>1 DEF IndInv, CoreInv, PlaceInv, FinInv
  <2>3. Promise!Store
    BY <1>1, <1>2, <2>1, <2>2, ReceiverPhases, NextReceiverPhases
       DEF Promise!Store, Received
  <2> QED
    BY <2>3 DEF Promise!Next
<1>9. CASE WaitClose
  <2>1. r_pc = "recvd" /\ r_pc' = "closed" /\ recv_base' = recv_base
    BY <1>9 DEF WaitClose
  <2>2. Promise!ReceiverCloses
    BY <1>1, <1>2, <2>1, ReceiverPhases, NextReceiverPhases
       DEF Promise!ReceiverCloses, Received
  <2> QED
    BY <2>2 DEF Promise!Next
<1>10. CASE RecvTimesOut \/ ReceiverDies
  <2>1. recv_base' = recv_base /\ r_pc \in {"recv", "writing", "recvd"}
        /\ \/ r_pc = "recv" /\ r_pc' = "writing"
           \/ r_pc' \in {"timedout", "killed"}
    BY <1>10 DEF RecvTimesOut, ReceiverDies, ReceiverDone, IndInv, CoreInv, TypeOK,
       ReceiverTypeOK, ReceiverPcs
  <2>2. CASE r_pc = "recv" /\ r_pc' = "writing"
    BY <1>4, <2>1, <2>2, ReceiverPhases, NextReceiverPhases
  <2>3. CASE r_pc' \in {"timedout", "killed"}
    <3>1. Promise!ReceiverStops
      BY <1>1, <1>2, <2>1, <2>3, ReceiverPhases, NextReceiverPhases
         DEF Promise!ReceiverStops, Received
    <3> QED
      BY <3>1 DEF Promise!Next
  <2> QED
    BY <2>1, <2>2, <2>3
<1> QED
  BY <1>5, <1>6, <1>7, <1>8, <1>9, <1>10 DEF Receiver, Promise!Next

-----------------------------------------------------------------------------
(* The theorem.                                                            *)

\* The network drops a datagram, or nothing happens.
LEMMA OthersStutter ==
  ASSUME Lose \/ UNCHANGED vars
  PROVE  UNCHANGED Promise!vars
BY DEF Lose, vars, senderVars, receiverVars, Promise!vars, SenderPhase,
       ReceiverPhase, Acked, Received

LEMMA NextRefines ==
  ASSUME IndInv, IndInv', [Next]_vars
  PROVE  [Promise!Next]_(Promise!vars)
BY SenderRefines, ReceiverRefines, OthersStutter DEF Next, Terminated

\* Every behaviour of the protocol is one of the abstract transfer.
THEOREM Refinement == Spec => ImplementsPromise
<1>1. Init => Promise!Init
  BY InitRefines
<1>2. IndInv /\ IndInv' /\ [Next]_vars => [Promise!Next]_(Promise!vars)
  BY NextRefines
<1> QED
  BY <1>1, <1>2, Invariance, PTL DEF Spec, ImplementsPromise, Promise!Spec
=============================================================================
