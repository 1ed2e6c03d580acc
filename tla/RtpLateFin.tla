------------------------------ MODULE RtpLateFin ------------------------------
(***************************************************************************)
(* RtpTransfer with FINs of an earlier run between the same two ports. The *)
(* address is all that recv_packet knows of the peer, and the first FIN is *)
(* recorded whatever its number (src/rtp.cpp:147-155): such a FIN may end  *)
(* recv_file with packets missing, or hide the FIN of this connection.     *)
(***************************************************************************)
EXTENDS RtpTransferInv

\* recv_packet records a late FIN as the first one. Any number may be in its
\* header.
LateFin(seq) ==
  /\ r_pc = "recv"
  /\ ~fin_received
  /\ fin_received' = TRUE
  /\ fin_seq' = Seq32to64(r_seq_base, seq)
  /\ UNCHANGED <<r_pc, r_seq_base, r_seq_num, recv_base, data_map, written,
                 file, senderVars, s2r, r2s>>

LateNext == Next \/ \E seq \in Seq32 : LateFin(seq)

LateSpec == Init /\ [][LateNext]_vars

\* Nothing makes a late FIN arrive. A connection without one is as fair as before.
FairLateSpec == LateSpec /\ Fairness

-----------------------------------------------------------------------------
(* Properties.                                                             *)

\* What is left of FileIntact and FinAckAnswersFin: a late FIN may cut the file
\* off or tear a gap into it, while the receiver exits with status 0, but what is
\* written is in order and without repetition, and the sender tells. A send_file
\* that returns 0 belongs to a whole file, if one is written, and to a FIN&ACK that
\* close() accepts; of a damaged one some packet is never acknowledged.
CutOffIsNoticed ==
  /\ written => \A i, j \in DOMAIN file : i < j => file[i] < file[j]
  /\ s_pc \in {"sent", "finwait", "closed", "unclosed"} =>
       /\ FileIntact
       /\ FinAckAnswersFin
=============================================================================
