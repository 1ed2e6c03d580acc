---------------------------- MODULE RtpTransferInv ----------------------------
(***************************************************************************)
(* The inductive invariant behind the safety properties of RtpTransfer. It *)
(* counts packets from 1 on both sides: packet k has number s_seq_base + k *)
(* at the sender, r_seq_base + k at the receiver, and Seq64to32 of the     *)
(* former in a header.                                                     *)
(***************************************************************************)
EXTENDS RtpTransfer

\* Whether the receiver takes packet k for what it is: when it counts from x +
\* SeqMod, a number that wraps around looks SeqMod too small, hence old.
Recognised(k) == r_seq_base = s_seq_base \/ s_seq_base + k < SeqMod

\* The endpoints count from the same x, or the receiver from x + SeqMod. What it
\* has passed, it has recognised.
BaseInv ==
  /\ r_seq_base \in {s_seq_base, s_seq_base + SeqMod}
  /\ Recognised(Received)

\* seq_num moves only when close() begins, and by the packets recv_file has written.
SeqNumInv ==
  /\ s_pc \in {"fill", "wait", "sent"} => s_seq_num = s_seq_base
  /\ s_pc \in {"finwait", "closed"} =>
       s_seq_num = s_seq_base + total_packets + 1
  /\ s_pc \in {"unclosed", "timedout", "killed"} =>
       s_seq_num \in {s_seq_base, s_seq_base + total_packets + 1}
  /\ r_pc \in {"recv", "writing"} => r_seq_num = r_seq_base
  /\ r_pc = "recvd" => r_seq_num = r_seq_base + Len(file)

\* Acknowledged, received and sent packets, and what the sender's place in its
\* loop says of them.
WindowInv ==
  /\ 0 <= Acked /\ Acked <= Received /\ Received <= Sent
  /\ Sent <= total_packets
  /\ s_pc = "fill" => /\ Sent < total_packets
                      /\ WindowAdmits(cc, next_seq_num - base)
  /\ s_pc = "wait" => Acked < Sent
  /\ s_pc \in {"sent", "finwait", "closed", "unclosed"} => Acked = total_packets

\* Until the file is written the buffer holds recognised packets that were sent,
\* with their payloads, and all that recv_base has passed.
BufferInv ==
  r_pc \in {"recv", "writing"} =>
    /\ \A s \in DOMAIN data_map : /\ s - r_seq_base \in 1 .. Sent
                                  /\ Recognised(s - r_seq_base)
                                  /\ data_map[s] = s - r_seq_base
    /\ \A s \in r_seq_base + 1 .. recv_base - 1 : s \in DOMAIN data_map

\* What a datagram on its way to the receiver tells of the sender.
SenderSaid(m) ==
  \/ /\ m.flags = "DAT"
     /\ m.data \in 1 .. Sent
     /\ m.seq = Seq64to32(s_seq_base + m.data)
  \/ /\ m.flags = "FIN"
     /\ Acked = total_packets
     /\ m.seq = Seq64to32(s_seq_base + total_packets + 1)

\* What a datagram on its way to the sender tells of the receiver.
ReceiverSaid(m) ==
  \/ /\ m.flags = "ACK"
     /\ \E k \in 0 .. Received : m.seq = Seq64to32(s_seq_base + k)
  \/ /\ m.flags = "FIN|ACK"
     /\ r_pc = "closed"
     /\ m.seq = Seq64to32(s_seq_base + Len(file) + 1)

NetworkInv ==
  /\ \A m \in s2r : SenderSaid(m)
  /\ \A m \in r2s : ReceiverSaid(m)

\* How far the receiver can be without a FIN or a file.
PlaceInv ==
  /\ r_pc \in {"writing", "recvd", "closed"} => fin_received
  /\ r_pc \in {"recvd", "closed"} => written
  /\ r_pc \in {"recv", "writing"} => ~written
  /\ written => fin_received
  /\ s_pc = "closed" => r_pc = "closed"

\* A file has at most the sender's packets, each once and in order, and all of
\* them if the receiver had all of them.
FileInv ==
  written => /\ Len(file) <= total_packets
             /\ \A i, j \in 1 .. Len(file) : i < j => file[i] < file[j]
             /\ Received = total_packets => file = [k \in 1 .. total_packets |-> k]

\* The part of the invariant that holds whatever makes the receiver see a FIN.
CoreInv ==
  /\ TypeOK
  /\ BaseInv
  /\ SeqNumInv
  /\ WindowInv
  /\ CcSane(cc)
  /\ BufferInv
  /\ NetworkInv
  /\ PlaceInv
  /\ FileInv

\* A FIN that has arrived, whose number may look old, is the sender's.
FinInv ==
  fin_received => /\ Acked = total_packets
                  /\ fin_seq <= r_seq_base + total_packets + 1

\* The inductive invariant.
IndInv == CoreInv /\ FinInv
=============================================================================
