----------------------------- MODULE RtpTransfer -----------------------------
(***************************************************************************)
(* The data phase and the closing of one RTP connection: the sender's      *)
(* send_file (send_file_gbn) and close, the receiver's recv_file           *)
(* (recv_file_gbn) and wait_close, over a network that loses, duplicates   *)
(* and reorders datagrams (src/rtp.cpp, src/sender.cpp, src/receiver.cpp). *)
(*                                                                         *)
(* Both endpoints are single threads, so that an action is what a thread   *)
(* does between two looks at its socket or its timers. Timers are          *)
(* untimed: one may expire whenever the code looks at it, since the        *)
(* network may be silent for any time before that.                         *)
(***************************************************************************)
EXTENDS SeqNum, CongestionControl, FiniteSets, Sequences

CONSTANTS
  InitialSeqs,   \* the numbers x that connect() may draw for its SYN
  FileSizes,     \* the numbers of packets a file may fill
  GarbageBases   \* what wait_connect may find in the uninitialized seq_base

ASSUME InitialSeqsAssumption == InitialSeqs \subseteq Seq32
ASSUME FileSizesAssumption == \A n \in FileSizes : n \in Nat /\ n + 1 < SeqMod
ASSUME GarbageBasesAssumption == GarbageBases \subseteq Nat

VARIABLES
  \* The sender's Rtp object and the locals of send_file_gbn.
  s_pc,            \* what the sender process is doing
  total_packets,   \* packets of the file
  s_seq_base,      \* seq_base
  s_seq_num,       \* seq_num
  base,            \* first packet not yet acknowledged
  next_seq_num,    \* first packet not yet sent
  cc,              \* congestion control members
  \* The receiver's Rtp object and the local of recv_file_gbn.
  r_pc,            \* what the receiver process is doing
  r_seq_base,      \* seq_base
  r_seq_num,       \* seq_num
  recv_base,       \* first packet not yet received
  data_map,        \* buffered packets: 64-bit number -> payload
  fin_received,    \* a FIN has been seen by recv_packet
  fin_seq,         \* its 64-bit number, 0 before that
  written,         \* recv_file has written its file
  file,            \* what it wrote
  \* The network.
  s2r,             \* datagrams on their way to the receiver
  r2s              \* datagrams on their way to the sender

senderVars   == <<s_pc, total_packets, s_seq_base, s_seq_num, base,
                  next_seq_num, cc>>
receiverVars == <<r_pc, r_seq_base, r_seq_num, recv_base, data_map,
                  fin_received, fin_seq, written, file>>
vars         == <<senderVars, receiverVars, s2r, r2s>>

SenderPcs   == {"fill", "wait", "sent", "finwait",
                "closed", "unclosed", "timedout", "killed"}
ReceiverPcs == {"recv", "writing", "recvd", "closed", "timedout", "killed"}

\* Exited: with status 0 ("closed", "unclosed" when close() has failed), with
\* status 1 after a timeout, or killed by an error of the system or a signal.
SenderDone   == s_pc \in {"closed", "unclosed", "timedout", "killed"}
ReceiverDone == r_pc \in {"closed", "timedout", "killed"}

-----------------------------------------------------------------------------
(* Datagrams. A payload is the number of the chunk of the file it holds.   *)

DataPacket(seq) == [flags |-> "DAT", seq |-> Seq64to32(seq),
                    data |-> seq - s_seq_num]
Header(flags, seq) == [flags |-> flags, seq |-> Seq64to32(seq), data |-> 0]

\* Mutant of LoopPc: the loop ends when everything is sent.
LoopPcSentIsDone(b, n, c) ==
  IF n > s_seq_num + total_packets THEN "sent"
  ELSE IF WindowAdmits(c, n - b) THEN "fill" ELSE "wait"

\* Where the sender's loop stands once base is b, the next packet is n and the
\* congestion state c: finished, sending the rest of the window, or waiting
\* for an ACK.
LoopPc(b, n, c) ==
  IF b > s_seq_num + total_packets THEN "sent"
  ELSE IF WindowAdmits(c, n - b) /\ n <= s_seq_num + total_packets THEN "fill"
  ELSE "wait"

-----------------------------------------------------------------------------
(* Initial states: connect and wait_connect have returned 0. wait_connect  *)
(* converts x with a seq_base that nothing has initialized, twice.         *)

Init ==
  /\ total_packets \in FileSizes
  /\ s_seq_base \in InitialSeqs
  /\ s_seq_num = Seq32to64(s_seq_base, s_seq_base)
  /\ base = s_seq_num + 1
  /\ next_seq_num = s_seq_num + 1
  /\ cc = InitialCc
  /\ s_pc = LoopPc(base, next_seq_num, cc)
  /\ \E garbage \in GarbageBases :
        r_seq_base = Seq32to64(garbage, s_seq_base)
  /\ r_seq_num = Seq32to64(r_seq_base, s_seq_base)
  /\ recv_base = r_seq_num + 1
  /\ data_map = [seq \in {} |-> 0]
  /\ fin_received = FALSE
  /\ fin_seq = 0
  /\ written = FALSE
  /\ file = <<>>
  /\ r_pc = "recv"
  /\ s2r = {}
  /\ r2s = {}

-----------------------------------------------------------------------------
(* The sender.                                                             *)

\* Sends one more packet of the window.
SendNext ==
  /\ s_pc = "fill"
  /\ s2r' = s2r \union {DataPacket(next_seq_num)}
  /\ next_seq_num' = next_seq_num + 1
  /\ s_pc' = LoopPc(base, next_seq_num', cc)
  /\ UNCHANGED <<total_packets, s_seq_base, s_seq_num, base, cc,
                 receiverVars, r2s>>

\* Mutant of Outstanding: the packet whose timer expired is left out.
OutstandingAfterBase == base + 1 .. next_seq_num - 1

\* The packets sent and not yet acknowledged.
Outstanding == base .. next_seq_num - 1

\* The timer of base has expired: every outstanding packet is sent again.
RetransmitWindow ==
  /\ s_pc = "wait"
  /\ base < next_seq_num
  /\ cc' = OnTimeout(cc)
  /\ s2r' = s2r \union {DataPacket(seq) : seq \in Outstanding}
  /\ UNCHANGED <<s_pc, total_packets, s_seq_base, s_seq_num, base,
                 next_seq_num, receiverVars, r2s>>

\* An ACK of new data slides the window.
NewAck(m) ==
  LET ack_seq == Seq32to64(s_seq_base, m.seq)
  IN  /\ s_pc = "wait"
      /\ m.flags = "ACK"
      /\ ack_seq + 1 > base
      /\ base' = ack_seq + 1
      /\ cc' = OnNewAck(cc)
      /\ s_pc' = LoopPc(base', next_seq_num, cc')
      /\ UNCHANGED <<total_packets, s_seq_base, s_seq_num, next_seq_num,
                     receiverVars, s2r, r2s>>

\* Another ACK of the packet before base; the third one retransmits base.
\* ACKs of earlier packets are ignored, and so is any other datagram.
DuplicateAck(m) ==
  /\ s_pc = "wait"
  /\ m.flags = "ACK"
  /\ Seq32to64(s_seq_base, m.seq) + 1 = base
  /\ cc' = OnDuplicateAck(cc)
  /\ s2r' = IF FastRetransmits(cc) THEN s2r \union {DataPacket(base)} ELSE s2r
  /\ s_pc' = LoopPc(base, next_seq_num, cc')
  /\ UNCHANGED <<total_packets, s_seq_base, s_seq_num, base, next_seq_num,
                 receiverVars, r2s>>

\* Nothing has arrived for 5 seconds: LOG_FATAL exits.
SendTimesOut ==
  /\ s_pc = "wait"
  /\ s_pc' = "timedout"
  /\ UNCHANGED <<total_packets, s_seq_base, s_seq_num, base, next_seq_num, cc,
                 receiverVars, s2r, r2s>>

\* The number of the FIN: send_file adds the packets, close() one more.
FinNumber == s_seq_num + total_packets + 1

\* send_file has returned 0 and close() sends its FIN.
SendFin ==
  /\ s_pc = "sent"
  /\ s_pc' = "finwait"
  /\ s_seq_num' = FinNumber
  /\ s2r' = s2r \union {Header("FIN", FinNumber)}
  /\ UNCHANGED <<total_packets, s_seq_base, base, next_seq_num, cc,
                 receiverVars, r2s>>

\* 100 ms without the FIN&ACK.
ResendFin ==
  /\ s_pc = "finwait"
  /\ s2r' = s2r \union {Header("FIN", s_seq_num)}
  /\ UNCHANGED <<senderVars, receiverVars, r2s>>

RecvFinAck(m) ==
  /\ s_pc = "finwait"
  /\ m.flags = "FIN|ACK"
  /\ m.seq = Seq64to32(s_seq_num)
  /\ s_pc' = "closed"
  /\ UNCHANGED <<total_packets, s_seq_base, s_seq_num, base, next_seq_num, cc,
                 receiverVars, s2r, r2s>>

\* close() returns -1, after 5 seconds or because a FIN could not be sent.
\* sender_routine takes no notice and the process exits with status 0.
CloseFails ==
  /\ s_pc \in {"sent", "finwait"}
  /\ s_pc' = "unclosed"
  /\ s_seq_num' = IF s_pc = "sent" THEN FinNumber ELSE s_seq_num
  /\ UNCHANGED <<total_packets, s_seq_base, base, next_seq_num, cc,
                 receiverVars, s2r, r2s>>

\* send_packet fails in the window, or the process is killed.
SenderDies ==
  /\ ~SenderDone
  /\ s_pc' = "killed"
  /\ UNCHANGED <<total_packets, s_seq_base, s_seq_num, base, next_seq_num, cc,
                 receiverVars, s2r, r2s>>

-----------------------------------------------------------------------------
(* The receiver.                                                           *)

Store(map, seq, payload) ==
  [s \in DOMAIN map \union {seq} |-> IF s = seq THEN payload ELSE map[s]]

\* Mutant of FirstMissing: past everything buffered, in order or not.
PastHighest(map, from) ==
  1 + CHOOSE n \in DOMAIN map \union {from - 1} :
        \A s \in DOMAIN map \union {from - 1} : s <= n

\* while (data_map.count(recv_base)) recv_base++. The map never holds more
\* than total_packets numbers.
FirstMissing(map, from) ==
  CHOOSE n \in from .. from + total_packets :
     /\ n \notin DOMAIN map
     /\ \A s \in from .. n - 1 : s \in DOMAIN map

\* Mutant of CumulativeAck: it carries the packet expected next.
AckOfNext(expected) == Header("ACK", expected)

\* The ACK a receiver sends that expects this packet next.
CumulativeAck(expected) == Header("ACK", expected - 1)

\* A DAT packet: buffer it unless it is old or known, move recv_base past all
\* that is there in order, send the cumulative ACK, look for the end.
RecvDat(m) ==
  LET pkt_seq == Seq32to64(r_seq_base, m.seq)
      wanted  == pkt_seq >= recv_base /\ pkt_seq \notin DOMAIN data_map
  IN  /\ r_pc = "recv"
      /\ m.flags = "DAT"
      /\ data_map' = IF wanted THEN Store(data_map, pkt_seq, m.data)
                               ELSE data_map
      /\ recv_base' = FirstMissing(data_map', recv_base)
      /\ r2s' = r2s \union {CumulativeAck(recv_base')}
      /\ r_pc' = IF fin_received /\ recv_base' >= fin_seq THEN "writing"
                                                          ELSE "recv"
      /\ UNCHANGED <<r_seq_base, r_seq_num, fin_received, fin_seq, written,
                     file, senderVars, s2r>>

\* recv_packet notes the first FIN while waitfor goes on waiting for a DAT.
RecvFin(m) ==
  /\ r_pc = "recv"
  /\ m.flags = "FIN"
  /\ ~fin_received
  /\ fin_received' = TRUE
  /\ fin_seq' = Seq32to64(r_seq_base, m.seq)
  /\ UNCHANGED <<r_pc, r_seq_base, r_seq_num, recv_base, data_map, written,
                 file, senderVars, s2r, r2s>>

\* waitfor has returned without a DAT and all packets before the FIN are here.
AllReceived ==
  /\ r_pc = "recv"
  /\ fin_received /\ recv_base >= fin_seq
  /\ r_pc' = "writing"
  /\ UNCHANGED <<r_seq_base, r_seq_num, recv_base, data_map, fin_received,
                 fin_seq, written, file, senderVars, s2r, r2s>>

\* Nothing has arrived for 10 seconds. With a FIN in hand and packets before
\* it missing the loop ends as if it had succeeded, otherwise LOG_FATAL exits.
RecvTimesOut ==
  /\ r_pc = "recv"
  /\ r_pc' = IF fin_received /\ fin_seq > recv_base THEN "writing" ELSE "timedout"
  /\ UNCHANGED <<r_seq_base, r_seq_num, recv_base, data_map, fin_received,
                 fin_seq, written, file, senderVars, s2r, r2s>>

\* Mutant of FileOf: the last packet is not written.
FileWithoutLast(map) ==
  [k \in 1 .. Cardinality(DOMAIN map) - 1 |->
     map[CHOOSE s \in DOMAIN map :
           Cardinality({t \in DOMAIN map : t < s}) = k - 1]]

\* The buffered payloads in the order of std::map, that of their numbers.
FileOf(map) ==
  [k \in 1 .. Cardinality(DOMAIN map) |->
     map[CHOOSE s \in DOMAIN map :
           Cardinality({t \in DOMAIN map : t < s}) = k - 1]]

\* Mutant of WriteFile: seq_num does not count the packets.
WriteFileUncounted ==
  /\ r_pc = "writing"
  /\ r_pc' = "recvd"
  /\ written' = TRUE
  /\ file' = FileOf(data_map)
  /\ data_map' = [seq \in {} |-> 0]
  /\ UNCHANGED <<r_seq_base, r_seq_num, recv_base, fin_received, fin_seq,
                 senderVars, s2r, r2s>>

\* recv_file writes the file, counts its packets and empties data_map.
WriteFile ==
  /\ r_pc = "writing"
  /\ r_pc' = "recvd"
  /\ written' = TRUE
  /\ file' = FileOf(data_map)
  /\ r_seq_num' = r_seq_num + Cardinality(DOMAIN data_map)
  /\ data_map' = [seq \in {} |-> 0]
  /\ UNCHANGED <<r_seq_base, recv_base, fin_received, fin_seq,
                 senderVars, s2r, r2s>>

\* wait_close() after recv_file: the FIN is known, one FIN&ACK and the end.
WaitClose ==
  /\ r_pc = "recvd"
  /\ fin_received
  /\ r_pc' = "closed"
  /\ r_seq_num' = r_seq_num + 1
  /\ r2s' = r2s \union {Header("FIN|ACK", r_seq_num')}
  /\ UNCHANGED <<r_seq_base, recv_base, data_map, fin_received, fin_seq,
                 written, file, senderVars, s2r>>

\* send_packet or opening the file fails, or the process is killed.
ReceiverDies ==
  /\ ~ReceiverDone
  /\ r_pc' = "killed"
  /\ UNCHANGED <<r_seq_base, r_seq_num, recv_base, data_map, fin_received,
                 fin_seq, written, file, senderVars, s2r, r2s>>

-----------------------------------------------------------------------------
(* The network keeps a datagram until it drops it. As long as it is there  *)
(* it may be received, more than once and in any order. A datagram whose   *)
(* checksum is wrong, or whose source recvfrom has not filled in because   *)
(* its addrlen is uninitialized, is thrown away by recv_packet: it counts  *)
(* as lost. The loops of this phase go on after a failing waitfor, except  *)
(* that of close(), whose failure is CloseFails.                           *)

Lose ==
  /\ \/ \E m \in s2r : s2r' = s2r \ {m} /\ r2s' = r2s
     \/ \E m \in r2s : r2s' = r2s \ {m} /\ s2r' = s2r
  /\ UNCHANGED <<senderVars, receiverVars>>

\* Both processes have exited.
Terminated == SenderDone /\ ReceiverDone /\ UNCHANGED vars

Sender ==
  \/ SendNext \/ RetransmitWindow \/ SendTimesOut
  \/ \E m \in r2s : NewAck(m) \/ DuplicateAck(m) \/ RecvFinAck(m)
  \/ SendFin \/ ResendFin \/ CloseFails \/ SenderDies

Receiver ==
  \/ \E m \in s2r : RecvDat(m) \/ RecvFin(m)
  \/ AllReceived \/ RecvTimesOut \/ WriteFile \/ WaitClose \/ ReceiverDies

Next == Sender \/ Receiver \/ Lose \/ Terminated

Spec == Init /\ [][Next]_vars

-----------------------------------------------------------------------------
(* Fairness. The processes run. A datagram that is sent again and again    *)
(* arrives some day. While packets are outstanding and no ACK of new data  *)
(* comes, the window is sent again: by the timer of base, or by duplicate  *)
(* ACKs, which restart that timer but send base themselves. The timers     *)
(* that give up are sure to expire only when the other process is gone,    *)
(* and close() lasts 5 seconds at most.                                    *)

Retransmission ==
  \/ RetransmitWindow
  \/ \E m \in r2s : FastRetransmits(cc) /\ DuplicateAck(m)

Fairness ==
  /\ WF_vars(SendNext) /\ WF_vars(SendFin) /\ WF_vars(ResendFin)
  /\ WF_vars(AllReceived) /\ WF_vars(WriteFile) /\ WF_vars(WaitClose)
  /\ SF_vars(Retransmission)
  /\ SF_vars(\E m \in s2r : m.data = base - s_seq_base /\ RecvDat(m))
  /\ SF_vars(\E m \in s2r : RecvFin(m))
  /\ SF_vars(\E m \in r2s : NewAck(m))
  /\ SF_vars(\E m \in r2s : RecvFinAck(m))
  /\ WF_vars(CloseFails)
  /\ WF_vars(ReceiverDone /\ SendTimesOut)
  /\ WF_vars(SenderDone /\ RecvTimesOut)

FairSpec == Spec /\ Fairness

-----------------------------------------------------------------------------
(* Properties. The k-th packet of the file has number s_seq_base + k at    *)
(* the sender and r_seq_base + k at the receiver.                          *)

\* Packets the sender knows to have arrived, packets it has sent, packets the
\* receiver holds in order.
Acked    == base - s_seq_base - 1
Sent     == next_seq_num - s_seq_base - 1
Received == recv_base - r_seq_base - 1

SenderTypeOK ==
  /\ s_pc \in SenderPcs
  /\ total_packets \in FileSizes
  /\ s_seq_base \in Seq32
  /\ s_seq_num \in Nat /\ base \in Nat /\ next_seq_num \in Nat
  /\ cc \in CcState

ReceiverTypeOK ==
  /\ r_pc \in ReceiverPcs
  /\ r_seq_base \in Nat /\ r_seq_num \in Nat /\ recv_base \in Nat
  /\ DOMAIN data_map \subseteq Nat
  /\ data_map \in [DOMAIN data_map -> 1 .. total_packets]
  /\ fin_received \in BOOLEAN
  /\ fin_seq \in Nat
  /\ written \in BOOLEAN
  /\ file \in Seq(1 .. total_packets)

ToReceiver == [flags : {"DAT", "FIN"}, seq : Seq32, data : 0 .. total_packets]
ToSender   == [flags : {"ACK", "FIN|ACK"}, seq : Seq32, data : {0}]

\* Type correctness of every member, local and datagram.
TypeOK ==
  /\ SenderTypeOK
  /\ ReceiverTypeOK
  /\ s2r \subseteq ToReceiver
  /\ r2s \subseteq ToSender

\* A packet the sender has slid its window past is in the receiver's buffer,
\* with the right payload, whatever ACKs were lost, repeated or overtaken
\* (the cumulative ACK of recv_file_gbn against the window of send_file_gbn).
AckedIsBuffered ==
  r_pc \in {"recv", "writing"} =>
    \A k \in 1 .. Acked :
      /\ r_seq_base + k \in DOMAIN data_map
      /\ data_map[r_seq_base + k] = k

\* The FIN&ACK of wait_close carries the number of the FIN, although the two
\* sides get there along different ways: the sender adds the packets it cut the
\* file into, the receiver the size of its data_map. close() ignores any other.
FinAckAnswersFin ==
  \A m \in r2s : m.flags = "FIN|ACK" =>
    m.seq = Seq64to32(s_seq_base + total_packets + 1)

\* Once a FIN is on its way nothing is missing at the receiver, so that the
\* exit of recv_file_gbn which reports success with packets missing before
\* the FIN (src/rtp.cpp:988) is never taken. It is by a FIN of an earlier run, see
\* RtpLateFin.
FinMeansComplete ==
  (fin_received \/ \E m \in s2r : m.flags = "FIN") =>
    Received = total_packets

\* recv_file writes the sender's file: every chunk, once, in order. RtpLateFin says
\* what FINs of an earlier run leave of it.
FileIntact ==
  written => file = [k \in 1 .. total_packets |-> k]

\* close() returning 0 means that the receiver has written the whole file and
\* finished its wait_close.
CloseIsConfirmed ==
  s_pc = "closed" => /\ r_pc = "closed"
                     /\ written
                     /\ file = [k \in 1 .. total_packets |-> k]

\* A sender that waits has a packet outstanding, hence a running timer: the
\* window never closes on a loop that neither sends nor retransmits.
TimerArmed == s_pc = "wait" => base < next_seq_num

\* A garbage seq_base above x in a connection whose data wraps around lets the
\* transfer stall and does nothing worse: the packets after the wrap look old,
\* so that they are neither acknowledged nor missing from a file that is written.
SkewOnlyStalls ==
  r_seq_base > s_seq_base /\ s_seq_base + total_packets >= SeqMod =>
    Acked < total_packets /\ ~written

\* The window is paid for by acknowledgements: it is never more than six packets
\* ahead of them, nor is what is in flight, however often the third duplicate is
\* counted again, since that halves it before it adds three (src/rtp.cpp:936).
WindowIsEarned ==
  /\ cc.cwnd <= (Acked + 6) * Unit
  /\ Sent - Acked <= Acked + 6

\* Fast recovery lasts exactly as long as the count of duplicates stays at 3.
RecoveryHoldsCount == cc.in_fast_recovery <=> cc.dup_ack_count = 3

\* Both processes terminate, whatever the network does: the transfer and the
\* closing come to an end or one of the timers gives up.
Termination == <>(SenderDone /\ ReceiverDone)

\* A duplicate ACK during fast recovery inflates the window by one packet
\* ("each duplicate ACK means that a packet has left the network",
\* src/rtp.cpp:955).
RecoveryInflatesWindow ==
  [][cc.in_fast_recovery /\ cc'.in_fast_recovery /\ cc' # cc
       => cc' = [cc EXCEPT !.cwnd = @ + Unit]]_vars

\* A failing close() does no harm ("no effect", src/sender.cpp:40): when a
\* sender that exits with status 0 and a receiver nobody killed are both gone,
\* the file is there.
SenderSuccessMeansFile ==
  s_pc \in {"closed", "unclosed"} /\ r_pc \in {"closed", "timedout"} => written

\* The abstract transfer this module implements.
SenderPhase ==
  CASE s_pc \in {"fill", "wait"}    -> "sending"
    [] s_pc \in {"sent", "finwait"} -> "confirmed"
    [] s_pc = "closed"              -> "closed"
    [] s_pc \in {"unclosed", "timedout", "killed"} -> "stopped"

ReceiverPhase ==
  CASE r_pc \in {"recv", "writing"} -> "receiving"
    [] r_pc = "recvd"               -> "stored"
    [] r_pc = "closed"              -> "closed"
    [] r_pc \in {"timedout", "killed"} -> "stopped"

Promise == INSTANCE ReliableTransfer WITH
  total     <- total_packets,
  delivered <- Received,
  confirmed <- Acked,
  sender    <- SenderPhase,
  receiver  <- ReceiverPhase

\* Every behaviour of the protocol is one of the abstract transfer.
ImplementsPromise == Promise!Spec
=============================================================================
