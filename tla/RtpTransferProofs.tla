--------------------------- MODULE RtpTransferProofs ---------------------------
(***************************************************************************)
(* The safety of RtpTransfer for every number of packets, every initial    *)
(* sequence number, every modulus and every garbage seq_base.              *)
(***************************************************************************)
EXTENDS RtpLateFin, SeqNumProofs, RtpTransferLemmas

-----------------------------------------------------------------------------
(* Sequence numbers of the two endpoints.                                  *)

\* What the constants and the type invariant say of the numbers.
LEMMA Numbers ==
  ASSUME TypeOK
  PROVE  /\ SeqMod \in Nat /\ SeqMod > 1
         /\ total_packets \in Nat /\ total_packets + 1 < SeqMod
         /\ s_seq_base \in Seq32 /\ s_seq_base \in Nat
         /\ s_seq_num \in Nat /\ base \in Nat /\ next_seq_num \in Nat
         /\ r_seq_base \in Nat /\ r_seq_num \in Nat /\ recv_base \in Nat
         /\ fin_seq \in Nat
BY SeqModAssumption, FileSizesAssumption
   DEF TypeOK, SenderTypeOK, ReceiverTypeOK, Seq32

\* The sender recovers the number of a packet from its header.
LEMMA SenderDecodes ==
  ASSUME TypeOK, NEW k \in 0 .. total_packets + 1
  PROVE  Seq32to64(s_seq_base, Seq64to32(s_seq_base + k)) = s_seq_base + k
BY Numbers, RoundTrip

\* The receiver recovers its own number of a packet it recognises.
LEMMA ReceiverDecodes ==
  ASSUME TypeOK, BaseInv, NEW k \in 0 .. total_packets + 1, Recognised(k)
  PROVE  Seq32to64(r_seq_base, Seq64to32(s_seq_base + k)) = r_seq_base + k
<1>1. CASE r_seq_base = s_seq_base
  BY <1>1, SenderDecodes
<1>2. CASE r_seq_base = s_seq_base + SeqMod /\ s_seq_base + k < SeqMod
  BY <1>2, Numbers, SkewedRoundTrip
<1> QED
  BY <1>1, <1>2 DEF BaseInv, Recognised

\* Any other packet it takes for one from before the connection.
LEMMA ReceiverMistakes ==
  ASSUME TypeOK, BaseInv, NEW k \in 0 .. total_packets + 1, ~Recognised(k)
  PROVE  /\ Seq32to64(r_seq_base, Seq64to32(s_seq_base + k)) \in Nat
         /\ Seq32to64(r_seq_base, Seq64to32(s_seq_base + k)) <= r_seq_base
<1>1. r_seq_base = s_seq_base + SeqMod /\ s_seq_base + k >= SeqMod
  BY Numbers DEF BaseInv, Recognised
<1>2. k \in 0 .. SeqMod - 1
  BY Numbers
<1>3. Seq32to64(s_seq_base + SeqMod, Seq64to32(s_seq_base + k)) = s_seq_base + k
  BY <1>1, <1>2, Numbers, SkewedWrap
<1> QED
  BY <1>1, <1>2, <1>3, Numbers

\* Both put the same number into the header of a packet.
LEMMA HeadersAgree ==
  ASSUME TypeOK, BaseInv, NEW k \in Nat
  PROVE  Seq64to32(r_seq_base + k) = Seq64to32(s_seq_base + k)
<1>1. CASE r_seq_base = s_seq_base
  BY <1>1
<1>2. CASE r_seq_base = s_seq_base + SeqMod
  <2>1. s_seq_base + k \in Nat /\ r_seq_base + k = (s_seq_base + k) + SeqMod
    BY <1>2, Numbers
  <2> QED
    BY <2>1, HeaderNumberRepeats
<1> QED
  BY <1>1, <1>2 DEF BaseInv

\* What a datagram of each kind carries.
LEMMA DataPacketCarries ==
  ASSUME TypeOK, s_seq_num = s_seq_base,
         NEW n \in s_seq_base + 1 .. s_seq_base + total_packets
  PROVE  /\ DataPacket(n) \in ToReceiver
         /\ DataPacket(n).flags = "DAT"
         /\ DataPacket(n).data = n - s_seq_base
         /\ DataPacket(n).seq = Seq64to32(s_seq_base + (n - s_seq_base))
<1>1. s_seq_base + (n - s_seq_base) = n /\ n \in Nat
      /\ n - s_seq_base \in 0 .. total_packets
  BY Numbers
<1>2. Seq64to32(n) \in Seq32
  BY <1>1, HeaderNumberFits
<1> QED
  BY <1>1, <1>2 DEF DataPacket, ToReceiver

LEMMA FinCarries ==
  ASSUME TypeOK, NEW n \in Nat
  PROVE  /\ Header("FIN", n) \in ToReceiver
         /\ Header("FIN", n).flags = "FIN"
         /\ Header("FIN", n).seq = Seq64to32(n)
BY Numbers, HeaderNumberFits DEF Header, ToReceiver

LEMMA AckCarries ==
  ASSUME NEW flags \in {"ACK", "FIN|ACK"}, NEW n \in Nat
  PROVE  /\ Header(flags, n) \in ToSender
         /\ Header(flags, n).flags = flags
         /\ Header(flags, n).seq = Seq64to32(n)
BY HeaderNumberFits DEF Header, ToSender

\* Where the sender stands in its loop: with the window closed it has something
\* outstanding, with the window open something left to send.
LEMMA LoopPcPlace ==
  ASSUME NEW b \in Nat, NEW n \in Nat, NEW c \in CcState, CcSane(c),
         s_seq_num \in Nat, total_packets \in Nat,
         b <= n, n <= s_seq_num + total_packets + 1
  PROVE  /\ LoopPc(b, n, c) \in {"fill", "wait", "sent"}
         /\ LoopPc(b, n, c) = "fill" => /\ n <= s_seq_num + total_packets
                                        /\ WindowAdmits(c, n - b)
         /\ LoopPc(b, n, c) = "wait" => b < n
         /\ LoopPc(b, n, c) = "sent" => b = s_seq_num + total_packets + 1
<1>1. b = n => WindowAdmits(c, n - b)
  BY EmptyWindowAdmits
<1> QED
  BY <1>1 DEF LoopPc

-----------------------------------------------------------------------------
(* The initial states.                                                     *)

LEMMA InitEstablishes ==
  ASSUME Init
  PROVE  CoreInv
<1>1. /\ SeqMod \in Nat /\ SeqMod > 1
      /\ total_packets \in Nat /\ total_packets + 1 < SeqMod
      /\ s_seq_base \in Seq32 /\ s_seq_base \in Nat
  BY SeqModAssumption, FileSizesAssumption, InitialSeqsAssumption DEF Init, Seq32
<1>2. s_seq_num = s_seq_base
  BY <1>1 DEF Init, Seq32to64
<1>3. r_seq_base \in Nat /\ r_seq_base \in {s_seq_base, s_seq_base + SeqMod}
  <2>1. PICK garbage \in GarbageBases : r_seq_base = Seq32to64(garbage, s_seq_base)
    BY DEF Init
  <2> QED
    BY <1>1, <2>1 DEF Seq32to64
<1>4. r_seq_num = r_seq_base
  BY <1>1, <1>3 DEF Init, Seq32to64
<1>5. cc \in CcState /\ CcSane(cc)
  BY InitialCcSane DEF Init
<1>6. base = s_seq_base + 1 /\ next_seq_num = s_seq_base + 1
      /\ recv_base = r_seq_base + 1
  BY <1>2, <1>4 DEF Init
<1>7. /\ s_pc \in {"fill", "wait", "sent"}
      /\ s_pc = "fill" => /\ next_seq_num <= s_seq_num + total_packets
                          /\ WindowAdmits(cc, next_seq_num - base)
      /\ s_pc = "wait" => base < next_seq_num
      /\ s_pc = "sent" => base = s_seq_num + total_packets + 1
  BY <1>1, <1>2, <1>5, <1>6, LoopPcPlace DEF Init
<1>8. SenderTypeOK
  BY <1>1, <1>2, <1>5, <1>6, <1>7 DEF Init, SenderTypeOK, SenderPcs
<1>9. ReceiverTypeOK
  <2>1. DOMAIN data_map = {} /\ data_map \in [DOMAIN data_map -> 1 .. total_packets]
    BY DEF Init
  <2>2. file \in Seq(1 .. total_packets)
    BY DEF Init
  <2>3. r_pc \in ReceiverPcs /\ fin_received = FALSE /\ fin_seq = 0
        /\ written = FALSE
    BY DEF Init, ReceiverPcs
  <2>4. r_seq_num \in Nat /\ recv_base \in Nat /\ fin_seq \in Nat
    BY <1>3, <1>4, <1>6, <2>3
  <2>5. DOMAIN data_map \subseteq Nat
    BY <2>1
  <2> QED
    BY <1>3, <2>1, <2>2, <2>3, <2>4, <2>5, Zenon DEF ReceiverTypeOK
<1>10. TypeOK
  BY <1>8, <1>9 DEF Init, TypeOK
<1>11. SeqNumInv
  BY <1>2, <1>4, <1>7 DEF Init, SeqNumInv
<1>12. WindowInv
  BY <1>1, <1>2, <1>3, <1>6, <1>7 DEF WindowInv, Acked, Sent, Received
<1>13. BufferInv /\ BaseInv
  <2>1. Received = 0 /\ s_seq_base + 0 < SeqMod
    BY <1>1, <1>3, <1>6 DEF Received, Seq32
  <2>2. BaseInv
    BY <1>3, <2>1, Zenon DEF BaseInv, Recognised
  <2> QED
    BY <1>1, <1>3, <1>6, <2>2 DEF Init, BufferInv
<1>14. NetworkInv /\ PlaceInv /\ FileInv
  BY <1>7 DEF Init, NetworkInv, PlaceInv, FileInv
<1> QED
  BY <1>5, <1>10, <1>11, <1>12, <1>13, <1>14 DEF CoreInv

-----------------------------------------------------------------------------
(* The sender's actions. They leave the receiver alone.                    *)

\* The next packet goes out.
LEMMA SendNextKeeps ==
  ASSUME CoreInv, SendNext
  PROVE  CoreInv'
<1> USE DEF senderVars, receiverVars, Recognised
<1>1. TypeOK /\ BaseInv /\ SeqNumInv /\ WindowInv /\ CcSane(cc) /\ BufferInv
      /\ NetworkInv /\ PlaceInv /\ FileInv
  BY DEF CoreInv
<1>2. s_seq_num = s_seq_base /\ Sent < total_packets /\ cc \in CcState
  BY <1>1 DEF SendNext, SeqNumInv, WindowInv, TypeOK, SenderTypeOK
<1>3. Sent' = Sent + 1 /\ Acked' = Acked /\ Received' = Received
      /\ Sent \in Nat /\ Acked \in Nat /\ Received \in Nat
  BY <1>1, Numbers DEF SendNext, Sent, Acked, Received, WindowInv
<1>4. /\ s_pc' \in {"fill", "wait", "sent"}
      /\ s_pc' = "fill" => /\ next_seq_num' <= s_seq_num + total_packets
                           /\ WindowAdmits(cc, next_seq_num' - base)
      /\ s_pc' = "wait" => base < next_seq_num'
      /\ s_pc' = "sent" => base = s_seq_num + total_packets + 1
  <2>1. next_seq_num' \in Nat /\ base <= next_seq_num'
        /\ next_seq_num' <= s_seq_num + total_packets + 1
    BY <1>1, <1>2, Numbers DEF SendNext, Sent, Acked, Received, WindowInv
  <2> QED
    BY <1>1, <1>2, <2>1, Numbers, LoopPcPlace DEF SendNext
<1>5. PICK p : /\ s2r' = s2r \union {p}
               /\ p \in ToReceiver /\ p.flags = "DAT" /\ p.data = Sent + 1
               /\ p.seq = Seq64to32(s_seq_base + p.data)
  <2>1. next_seq_num \in s_seq_base + 1 .. s_seq_base + total_packets
        /\ next_seq_num - s_seq_base = Sent + 1
    BY <1>1, <1>2, <1>3, Numbers DEF Sent
  <2>2. s2r' = s2r \union {DataPacket(next_seq_num)}
    BY DEF SendNext
  <2> QED
    BY <1>1, <1>2, <2>1, <2>2, DataPacketCarries, Zenon
<1>6. TypeOK'
  <2>1. SenderTypeOK'
    BY <1>1, <1>4, Numbers DEF SendNext, SenderPcs, TypeOK, SenderTypeOK
  <2>2. ReceiverTypeOK'
    BY <1>1 DEF SendNext, TypeOK, ReceiverTypeOK
  <2>3. s2r' \subseteq ToReceiver' /\ r2s' \subseteq ToSender'
    BY <1>1, <1>5 DEF SendNext, TypeOK, ToReceiver, ToSender
  <2> QED
    BY <2>1, <2>2, <2>3 DEF TypeOK
<1>7. BaseInv' /\ SeqNumInv' /\ CcSane(cc)'
  BY <1>1, <1>2, <1>3, <1>4 DEF SendNext, BaseInv, SeqNumInv
<1>8. WindowInv'
  <2>1. s_pc' = "fill" => Sent' < total_packets'
    BY <1>2, <1>3, <1>4, <1>1, Numbers DEF SendNext, Sent
  <2>2. s_pc' = "sent" => Acked' = total_packets'
    BY <1>2, <1>4, <1>1, Numbers DEF SendNext, Acked
  <2>3. s_pc' = "wait" => Acked' < Sent'
    BY <1>2, <1>4, <1>1, Numbers DEF SendNext, Acked, Sent
  <2>4. /\ total_packets' = total_packets
        /\ s_pc' = "fill" => WindowAdmits(cc, next_seq_num - base)'
    BY <1>4 DEF SendNext
  <2> QED
    BY <1>1, <1>2, <1>3, <1>4, <2>1, <2>2, <2>3, <2>4, Numbers DEF WindowInv
<1>9. BufferInv'
  BY <1>1, <1>3 DEF SendNext, BufferInv
<1>10. NetworkInv'
  <2>1. ASSUME NEW m \in s2r
        PROVE  SenderSaid(m)'
    BY <1>1, <1>3 DEF SendNext, NetworkInv, SenderSaid
  <2>2. SenderSaid(p)'
    BY <1>3, <1>5 DEF SendNext, SenderSaid
  <2>3. ASSUME NEW m \in r2s
        PROVE  ReceiverSaid(m)'
    BY <1>1, <1>3 DEF SendNext, NetworkInv, ReceiverSaid
  <2> QED
    BY <1>5, <2>1, <2>2, <2>3 DEF SendNext, NetworkInv
<1>11. PlaceInv' /\ FileInv'
  BY <1>1, <1>3, <1>4 DEF SendNext, PlaceInv, FileInv
<1> QED
  BY <1>6, <1>7, <1>8, <1>9, <1>10, <1>11 DEF CoreInv

\* The window goes out again.
LEMMA RetransmitWindowKeeps ==
  ASSUME CoreInv, RetransmitWindow
  PROVE  CoreInv'
<1> USE DEF senderVars, receiverVars, Recognised
<1>1. TypeOK /\ BaseInv /\ SeqNumInv /\ WindowInv /\ CcSane(cc) /\ BufferInv
      /\ NetworkInv /\ PlaceInv /\ FileInv
  BY DEF CoreInv
<1>2. s_seq_num = s_seq_base /\ cc \in CcState
  BY <1>1 DEF RetransmitWindow, SeqNumInv, TypeOK, SenderTypeOK
<1>3. Sent' = Sent /\ Acked' = Acked /\ Received' = Received
  BY DEF RetransmitWindow, Sent, Acked, Received
<1>4. cc' \in CcState /\ CcSane(cc)'
  BY <1>2, OnTimeoutSane DEF RetransmitWindow
<1>5. ASSUME NEW m \in s2r' \ s2r
      PROVE  /\ m \in ToReceiver /\ m.flags = "DAT" /\ m.data \in 1 .. Sent
             /\ m.seq = Seq64to32(s_seq_base + m.data)
  <2>1. PICK n \in Outstanding : m = DataPacket(n)
    BY <1>5 DEF RetransmitWindow
  <2>2. n \in s_seq_base + 1 .. s_seq_base + total_packets
        /\ n - s_seq_base \in 1 .. Sent
    BY <1>1, Numbers DEF Outstanding, WindowInv, Sent, Acked, Received
  <2>3. /\ m \in ToReceiver /\ m.flags = "DAT"
        /\ m.data = n - s_seq_base
        /\ m.seq = Seq64to32(s_seq_base + (n - s_seq_base))
    BY <1>1, <1>2, <2>1, <2>2, DataPacketCarries, Zenon
  <2> QED
    BY <2>2, <2>3
<1>6. TypeOK'
  <2>1. SenderTypeOK' /\ ReceiverTypeOK'
    BY <1>1, <1>4 DEF RetransmitWindow, TypeOK, SenderTypeOK, ReceiverTypeOK
  <2>2. s2r' \subseteq ToReceiver' /\ r2s' \subseteq ToSender'
    BY <1>1, <1>5 DEF RetransmitWindow, TypeOK, ToReceiver, ToSender
  <2> QED
    BY <2>1, <2>2 DEF TypeOK
<1>7. BaseInv' /\ SeqNumInv' /\ WindowInv' /\ BufferInv' /\ PlaceInv' /\ FileInv'
  BY <1>1, <1>3
  DEF RetransmitWindow, BaseInv, SeqNumInv, WindowInv, BufferInv, PlaceInv,
      FileInv
<1>8. NetworkInv'
  <2>1. ASSUME NEW m \in s2r'
        PROVE  SenderSaid(m)'
    <3>1. CASE m \in s2r
      BY <1>1, <1>3, <3>1 DEF RetransmitWindow, NetworkInv, SenderSaid
    <3>2. CASE m \notin s2r
      BY <1>3, <1>5, <2>1, <3>2 DEF RetransmitWindow, SenderSaid
    <3> QED
      BY <3>1, <3>2
  <2>2. ASSUME NEW m \in r2s
        PROVE  ReceiverSaid(m)'
    BY <1>1, <1>3 DEF RetransmitWindow, NetworkInv, ReceiverSaid
  <2> QED
    BY <2>1, <2>2 DEF RetransmitWindow, NetworkInv
<1> QED
  BY <1>4, <1>6, <1>7, <1>8 DEF CoreInv

\* An ACK of new data, which names a packet the receiver has.
LEMMA NewAckKeeps ==
  ASSUME CoreInv, NEW m \in r2s, NewAck(m)
  PROVE  CoreInv'
<1> USE DEF senderVars, receiverVars, Recognised
<1>1. TypeOK /\ BaseInv /\ SeqNumInv /\ WindowInv /\ CcSane(cc) /\ BufferInv
      /\ NetworkInv /\ PlaceInv /\ FileInv
  BY DEF CoreInv
<1>2. s_seq_num = s_seq_base /\ cc \in CcState
  BY <1>1 DEF NewAck, SeqNumInv, TypeOK, SenderTypeOK
<1>3. Sent \in Nat /\ Acked \in Nat /\ Received \in Nat
  BY <1>1, Numbers DEF WindowInv, Sent, Acked, Received
<1>4. PICK k \in 0 .. Received : m.seq = Seq64to32(s_seq_base + k)
  BY <1>1 DEF NewAck, NetworkInv, ReceiverSaid
<1>5. Seq32to64(s_seq_base, m.seq) = s_seq_base + k
  <2>1. k \in 0 .. total_packets + 1
    BY <1>1, <1>3, Numbers DEF WindowInv
  <2> QED
    BY <1>1, <1>4, <2>1, SenderDecodes
<1>6. base' = s_seq_base + k + 1 /\ Acked' = k /\ k > Acked
      /\ Sent' = Sent /\ Received' = Received
  BY <1>3, <1>5, Numbers, <1>1 DEF NewAck, Acked, Sent, Received
<1>7. cc' \in CcState /\ CcSane(cc)'
  BY <1>1, <1>2, OnNewAckSane DEF NewAck
<1>8. /\ s_pc' \in {"fill", "wait", "sent"}
      /\ s_pc' = "fill" => /\ next_seq_num <= s_seq_num + total_packets
                           /\ WindowAdmits(cc', next_seq_num - base')
      /\ s_pc' = "wait" => base' < next_seq_num
      /\ s_pc' = "sent" => base' = s_seq_num + total_packets + 1
  <2>1. base' \in Nat /\ base' <= next_seq_num
        /\ next_seq_num <= s_seq_num + total_packets + 1
    BY <1>1, <1>2, <1>3, <1>6, Numbers DEF Sent, WindowInv
  <2>2. s_pc' = LoopPc(base', next_seq_num, cc')
    BY DEF NewAck
  <2> QED
    BY <1>1, <1>7, <2>1, <2>2, Numbers, LoopPcPlace
<1>9. TypeOK'
  <2>1. base' \in Nat
    BY <1>3, <1>6, <1>1, Numbers
  <2>2. SenderTypeOK'
    BY <1>1, <1>7, <1>8, <2>1 DEF NewAck, SenderPcs, TypeOK, SenderTypeOK
  <2>3. ReceiverTypeOK' /\ s2r' \subseteq ToReceiver' /\ r2s' \subseteq ToSender'
    BY <1>1 DEF NewAck, TypeOK, ReceiverTypeOK, ToReceiver, ToSender
  <2> QED
    BY <2>2, <2>3 DEF TypeOK
<1>10. BaseInv' /\ SeqNumInv' /\ BufferInv'
  BY <1>1, <1>2, <1>6, <1>8 DEF NewAck, BaseInv, SeqNumInv, BufferInv
<1>11. WindowInv'
  <2>1. s_pc' = "fill" => Sent' < total_packets'
    BY <1>1, <1>2, <1>8, Numbers DEF NewAck, Sent
  <2>2. s_pc' = "wait" => Acked' < Sent'
    BY <1>1, <1>8, Numbers DEF NewAck, Acked, Sent
  <2>3. s_pc' = "sent" => Acked' = total_packets'
    BY <1>1, <1>2, <1>6, <1>8, Numbers DEF NewAck
  <2>4. /\ total_packets' = total_packets
        /\ s_pc' = "fill" => WindowAdmits(cc, next_seq_num - base)'
    BY <1>8 DEF NewAck
  <2> QED
    BY <1>1, <1>3, <1>6, <1>8, <2>1, <2>2, <2>3, <2>4 DEF WindowInv
<1>12. NetworkInv' /\ PlaceInv' /\ FileInv'
  <2>1. Acked # total_packets
    BY <1>1, <1>3, <1>6, Numbers DEF WindowInv
  <2>2. ASSUME NEW d \in s2r
        PROVE  SenderSaid(d)'
    BY <1>1, <1>6, <2>1 DEF NewAck, NetworkInv, SenderSaid
  <2>3. ASSUME NEW d \in r2s
        PROVE  ReceiverSaid(d)'
    BY <1>1, <1>6 DEF NewAck, NetworkInv, ReceiverSaid
  <2>4. NetworkInv'
    BY <2>2, <2>3 DEF NewAck, NetworkInv
  <2>5. PlaceInv'
    BY <1>1, <1>8 DEF NewAck, PlaceInv
  <2>6. FileInv'
    BY <1>1, <1>6 DEF NewAck, FileInv
  <2> QED
    BY <2>4, <2>5, <2>6
<1> QED
  BY <1>7, <1>9, <1>10, <1>11, <1>12 DEF CoreInv

\* A duplicate ACK, with or without the fast retransmission of base.
LEMMA DuplicateAckKeeps ==
  ASSUME CoreInv, NEW m \in r2s, DuplicateAck(m)
  PROVE  CoreInv'
<1> USE DEF senderVars, receiverVars, Recognised
<1>1. TypeOK /\ BaseInv /\ SeqNumInv /\ WindowInv /\ CcSane(cc) /\ BufferInv
      /\ NetworkInv /\ PlaceInv /\ FileInv
  BY DEF CoreInv
<1>2. s_seq_num = s_seq_base /\ cc \in CcState
  BY <1>1 DEF DuplicateAck, SeqNumInv, TypeOK, SenderTypeOK
<1>3. Sent' = Sent /\ Acked' = Acked /\ Received' = Received
      /\ Sent \in Nat /\ Acked \in Nat /\ Received \in Nat
  BY <1>1, Numbers DEF DuplicateAck, Sent, Acked, Received, WindowInv
<1>4. cc' \in CcState /\ CcSane(cc)'
  BY <1>1, <1>2, OnDuplicateAckSane DEF DuplicateAck
<1>5. base \in s_seq_base + 1 .. s_seq_base + total_packets
      /\ base - s_seq_base \in 1 .. Sent
      /\ base < next_seq_num /\ next_seq_num <= s_seq_num + total_packets + 1
  BY <1>1, <1>2, Numbers DEF DuplicateAck, WindowInv, Acked, Sent, Received
<1>6. /\ s_pc' \in {"fill", "wait"}
      /\ s_pc' = "fill" => /\ next_seq_num <= s_seq_num + total_packets
                           /\ WindowAdmits(cc', next_seq_num - base)
  <2>1. s_pc' = LoopPc(base, next_seq_num, cc')
    BY DEF DuplicateAck
  <2>2. base # s_seq_num + total_packets + 1
    BY <1>1, <1>2, <1>5, Numbers
  <2> QED
    BY <1>1, <1>4, <1>5, <2>1, <2>2, Numbers, LoopPcPlace
<1>7. ASSUME NEW d \in s2r' \ s2r
      PROVE  /\ d \in ToReceiver /\ d.flags = "DAT" /\ d.data \in 1 .. Sent
             /\ d.seq = Seq64to32(s_seq_base + d.data)
  <2>1. d = DataPacket(base)
    BY <1>7 DEF DuplicateAck
  <2>2. /\ d \in ToReceiver /\ d.flags = "DAT"
        /\ d.data = base - s_seq_base
        /\ d.seq = Seq64to32(s_seq_base + (base - s_seq_base))
    BY <1>1, <1>2, <1>5, <2>1, DataPacketCarries, Zenon
  <2> QED
    BY <1>5, <2>2
<1>8. TypeOK'
  <2>1. SenderTypeOK'
    BY <1>1, <1>4, <1>6 DEF DuplicateAck, SenderPcs, TypeOK, SenderTypeOK
  <2>2. ReceiverTypeOK'
    BY <1>1 DEF DuplicateAck, TypeOK, ReceiverTypeOK
  <2>3. s2r' \subseteq ToReceiver' /\ r2s' \subseteq ToSender'
    BY <1>1, <1>7 DEF DuplicateAck, TypeOK, ToReceiver, ToSender
  <2> QED
    BY <2>1, <2>2, <2>3 DEF TypeOK
<1>9. BaseInv' /\ SeqNumInv' /\ BufferInv' /\ PlaceInv' /\ FileInv'
  BY <1>1, <1>2, <1>3, <1>6 DEF DuplicateAck, BaseInv, SeqNumInv, BufferInv, PlaceInv, FileInv
<1>10. WindowInv'
  <2>1. s_pc' = "fill" => Sent' < total_packets'
    BY <1>1, <1>2, <1>6, Numbers DEF DuplicateAck, Sent
  <2>2. Acked < Sent
    BY <1>1 DEF DuplicateAck, WindowInv
  <2>3. s_pc' = "fill" => WindowAdmits(cc, next_seq_num - base)'
    BY <1>6 DEF DuplicateAck
  <2>4. total_packets' = total_packets
    BY DEF DuplicateAck
  <2> QED
    BY <1>1, <1>3, <1>6, <2>1, <2>2, <2>3, <2>4 DEF WindowInv
<1>11. NetworkInv'
  <2>1. ASSUME NEW d \in s2r'
        PROVE  SenderSaid(d)'
    <3>1. CASE d \in s2r
      BY <1>1, <1>3, <3>1 DEF DuplicateAck, NetworkInv, SenderSaid
    <3>2. CASE d \notin s2r
      BY <1>3, <1>7, <2>1, <3>2 DEF DuplicateAck, SenderSaid
    <3> QED
      BY <3>1, <3>2
  <2>2. ASSUME NEW d \in r2s
        PROVE  ReceiverSaid(d)'
    BY <1>1, <1>3 DEF DuplicateAck, NetworkInv, ReceiverSaid
  <2> QED
    BY <2>1, <2>2 DEF DuplicateAck, NetworkInv
<1> QED
  BY <1>4, <1>8, <1>9, <1>10, <1>11 DEF CoreInv

\* The sender gives up or dies, or close() fails.
LEMMA SenderStopsKeeps ==
  ASSUME CoreInv, SendTimesOut \/ CloseFails \/ SenderDies
  PROVE  CoreInv'
<1> USE DEF senderVars, receiverVars, Recognised
<1>1. TypeOK /\ BaseInv /\ SeqNumInv /\ WindowInv /\ CcSane(cc) /\ BufferInv
      /\ NetworkInv /\ PlaceInv /\ FileInv
  BY DEF CoreInv
<1>2. /\ UNCHANGED <<total_packets, s_seq_base, base, next_seq_num, cc,
                     receiverVars, s2r, r2s>>
      /\ s_pc' \in {"timedout", "unclosed", "killed"}
      /\ s_pc' = "unclosed" => s_pc \in {"sent", "finwait"}
      /\ ~ SenderDone
      /\ s_seq_num' \in {s_seq_num, FinNumber}
      /\ s_seq_num' # s_seq_num => s_pc = "sent"
  BY DEF SendTimesOut, CloseFails, SenderDies, SenderDone
<1>3. s_seq_num' \in {s_seq_base, s_seq_base + total_packets + 1}
  BY <1>1, <1>2, Numbers DEF SeqNumInv, FinNumber, SenderDone, TypeOK, SenderTypeOK,
     SenderPcs
<1>4. Sent' = Sent /\ Acked' = Acked /\ Received' = Received
  BY <1>2 DEF Sent, Acked, Received
<1>5. TypeOK'
  <2>1. s_seq_num' \in Nat
    BY <1>1, <1>3, Numbers
  <2>2. SenderTypeOK'
    BY <1>1, <1>2, <2>1 DEF TypeOK, SenderTypeOK, SenderPcs
  <2>3. ReceiverTypeOK' /\ s2r' \subseteq ToReceiver' /\ r2s' \subseteq ToSender'
    BY <1>1, <1>2 DEF TypeOK, ReceiverTypeOK, ToReceiver, ToSender
  <2> QED
    BY <2>2, <2>3 DEF TypeOK
<1>6. BaseInv' /\ CcSane(cc)' /\ BufferInv'
  BY <1>1, <1>2, <1>4 DEF BaseInv, BufferInv
<1>7. SeqNumInv'
  BY <1>1, <1>2, <1>3 DEF SeqNumInv
<1>8. WindowInv'
  BY <1>1, <1>2, <1>4 DEF WindowInv
<1>9. NetworkInv' /\ PlaceInv' /\ FileInv'
  BY <1>1, <1>2, <1>4 DEF NetworkInv, SenderSaid, ReceiverSaid, PlaceInv, FileInv
<1> QED
  BY <1>5, <1>6, <1>7, <1>8, <1>9 DEF CoreInv

\* A FIN goes out, the first or another one.
LEMMA FinKeeps ==
  ASSUME CoreInv, SendFin \/ ResendFin
  PROVE  CoreInv'
<1> USE DEF senderVars, receiverVars, Recognised
<1>1. TypeOK /\ BaseInv /\ SeqNumInv /\ WindowInv /\ CcSane(cc) /\ BufferInv
      /\ NetworkInv /\ PlaceInv /\ FileInv
  BY DEF CoreInv
<1> DEFINE number == s_seq_base + total_packets + 1
<1>2. /\ UNCHANGED <<total_packets, s_seq_base, base, next_seq_num, cc,
                     receiverVars, r2s>>
      /\ s_pc' = "finwait"
      /\ s_pc \in {"sent", "finwait"}
      /\ s_seq_num' = number
      /\ s2r' = s2r \union {Header("FIN", number)}
  BY <1>1 DEF SendFin, ResendFin, SeqNumInv, FinNumber
<1>3. Sent' = Sent /\ Acked' = Acked /\ Received' = Received
      /\ Acked = total_packets
  BY <1>1, <1>2 DEF Sent, Acked, Received, WindowInv
<1>4. number \in Nat
  BY <1>1, Numbers
<1>5. PICK p : /\ s2r' = s2r \union {p}
               /\ p \in ToReceiver /\ p.flags = "FIN"
               /\ p.seq = Seq64to32(number)
  BY <1>1, <1>2, <1>4, FinCarries, Zenon
<1>6. TypeOK'
  <2>1. SenderTypeOK'
    BY <1>1, <1>2, <1>4 DEF TypeOK, SenderTypeOK, SenderPcs
  <2>2. ReceiverTypeOK'
    BY <1>1, <1>2 DEF TypeOK, ReceiverTypeOK
  <2>3. s2r' \subseteq ToReceiver' /\ r2s' \subseteq ToSender'
    BY <1>1, <1>2, <1>5 DEF TypeOK, ToReceiver, ToSender
  <2> QED
    BY <2>1, <2>2, <2>3 DEF TypeOK
<1>7. BaseInv' /\ CcSane(cc)' /\ SeqNumInv' /\ BufferInv'
  BY <1>1, <1>2, <1>3 DEF BaseInv, SeqNumInv, BufferInv
<1>8. WindowInv' /\ PlaceInv' /\ FileInv'
  BY <1>1, <1>2, <1>3 DEF WindowInv, PlaceInv, FileInv
<1>9. NetworkInv'
  <2>1. ASSUME NEW d \in s2r
        PROVE  SenderSaid(d)'
    BY <1>1, <1>2, <1>3 DEF NetworkInv, SenderSaid
  <2>2. SenderSaid(p)'
    BY <1>2, <1>3, <1>5 DEF SenderSaid
  <2>3. ASSUME NEW d \in r2s
        PROVE  ReceiverSaid(d)'
    BY <1>1, <1>2, <1>3 DEF NetworkInv, ReceiverSaid
  <2> QED
    BY <1>2, <1>5, <2>1, <2>2, <2>3 DEF NetworkInv
<1> QED
  BY <1>6, <1>7, <1>8, <1>9 DEF CoreInv

\* The FIN&ACK, which only a closed receiver has sent.
LEMMA RecvFinAckKeeps ==
  ASSUME CoreInv, NEW m \in r2s, RecvFinAck(m)
  PROVE  CoreInv'
<1> USE DEF senderVars, receiverVars, Recognised
<1>1. TypeOK /\ BaseInv /\ SeqNumInv /\ WindowInv /\ CcSane(cc) /\ BufferInv
      /\ NetworkInv /\ PlaceInv /\ FileInv
  BY DEF CoreInv
<1>2. Sent' = Sent /\ Acked' = Acked /\ Received' = Received
  BY DEF RecvFinAck, Sent, Acked, Received
<1>3. r_pc = "closed"
  BY <1>1 DEF RecvFinAck, NetworkInv, ReceiverSaid
<1>4. TypeOK'
  <2>1. SenderTypeOK'
    BY <1>1 DEF RecvFinAck, TypeOK, SenderTypeOK, SenderPcs
  <2>2. ReceiverTypeOK' /\ s2r' \subseteq ToReceiver' /\ r2s' \subseteq ToSender'
    BY <1>1 DEF RecvFinAck, TypeOK, ReceiverTypeOK, ToReceiver, ToSender
  <2> QED
    BY <2>1, <2>2 DEF TypeOK
<1>5. BaseInv' /\ SeqNumInv' /\ CcSane(cc)' /\ BufferInv'
  BY <1>1, <1>2 DEF RecvFinAck, BaseInv, SeqNumInv, BufferInv
<1>6. WindowInv' /\ PlaceInv' /\ FileInv'
  BY <1>1, <1>2, <1>3 DEF RecvFinAck, WindowInv, PlaceInv, FileInv
<1>7. NetworkInv'
  BY <1>1, <1>2 DEF RecvFinAck, NetworkInv, SenderSaid, ReceiverSaid
<1> QED
  BY <1>4, <1>5, <1>6, <1>7 DEF CoreInv

-----------------------------------------------------------------------------
(* The receiver's actions. They leave the sender alone.                    *)

\* What a DAT packet leaves in the buffer: numbers of packets that were sent,
\* with their payloads, and all that the buffer held before.
LEMMA BufferedPackets ==
  ASSUME CoreInv, NEW m \in s2r, RecvDat(m)
  PROVE  /\ \A s \in DOMAIN data_map' : /\ s - r_seq_base \in 1 .. Sent
                                        /\ Recognised(s - r_seq_base)
                                        /\ data_map'[s] = s - r_seq_base
         /\ DOMAIN data_map \subseteq DOMAIN data_map'
         /\ DOMAIN data_map' \subseteq Nat
         /\ data_map' \in [DOMAIN data_map' -> 1 .. total_packets]
<1>1. TypeOK /\ BaseInv /\ WindowInv /\ BufferInv /\ NetworkInv
  BY DEF CoreInv
<1>2. m.data \in 1 .. Sent /\ m.seq = Seq64to32(s_seq_base + m.data)
  BY <1>1 DEF RecvDat, NetworkInv, SenderSaid
<1>3. Sent \in Nat /\ Sent <= total_packets
  BY <1>1, Numbers DEF WindowInv, Sent, Acked, Received
<1>4. \/ Recognised(m.data) /\ Seq32to64(r_seq_base, m.seq) = r_seq_base + m.data
      \/ ~ (Seq32to64(r_seq_base, m.seq) >= recv_base)
  <2>1. m.data \in 0 .. total_packets + 1
    BY <1>1, <1>2, <1>3, Numbers
  <2>2. CASE Recognised(m.data)
    BY <1>1, <1>2, <2>1, <2>2, ReceiverDecodes
  <2>3. CASE ~Recognised(m.data)
    <3>1. PICK n \in Nat : n = Seq32to64(r_seq_base, m.seq) /\ n <= r_seq_base
      BY <1>1, <1>2, <2>1, <2>3, ReceiverMistakes
    <3>2. recv_base > r_seq_base
      BY <1>1, Numbers DEF WindowInv, Acked, Received
    <3> QED
      BY <1>1, <3>1, <3>2, Numbers
  <2> QED
    BY <2>2, <2>3
<1>5. DOMAIN data_map \subseteq Nat /\ data_map \in [DOMAIN data_map -> 1 .. total_packets]
  BY <1>1 DEF TypeOK, ReceiverTypeOK
<1>6. \A s \in DOMAIN data_map : /\ s - r_seq_base \in 1 .. Sent
                                 /\ Recognised(s - r_seq_base)
                                 /\ data_map[s] = s - r_seq_base
  BY <1>1 DEF RecvDat, BufferInv
<1>7. CASE data_map' = data_map
  BY <1>5, <1>6, <1>7
<1>8. CASE /\ data_map' = Store(data_map, r_seq_base + m.data, m.data)
           /\ Recognised(m.data)
  <2>1. DOMAIN data_map' = DOMAIN data_map \union {r_seq_base + m.data}
    BY <1>8 DEF Store
  <2>2. \A s \in DOMAIN data_map' :
          data_map'[s] = IF s = r_seq_base + m.data THEN m.data ELSE data_map[s]
    BY <1>8 DEF Store
  <2>3. r_seq_base + m.data \in Nat /\ m.data \in 1 .. total_packets
        /\ (r_seq_base + m.data) - r_seq_base = m.data
    BY <1>1, <1>2, <1>3, Numbers
  <2>4. ASSUME NEW s \in DOMAIN data_map'
        PROVE  /\ s - r_seq_base \in 1 .. Sent
               /\ Recognised(s - r_seq_base)
               /\ data_map'[s] = s - r_seq_base
               /\ data_map'[s] \in 1 .. total_packets
    <3>1. CASE s = r_seq_base + m.data
      BY <1>2, <1>8, <2>2, <2>3, <3>1, Zenon
    <3>2. CASE s # r_seq_base + m.data
      <4>1. s \in DOMAIN data_map /\ data_map'[s] = data_map[s]
        BY <2>1, <2>2, <3>2
      <4> QED
        BY <1>5, <1>6, <4>1
    <3> QED
      BY <3>1, <3>2
  <2>5. data_map' = [s \in DOMAIN data_map' |-> data_map'[s]]
    BY <1>8 DEF Store
  <2>6. data_map' \in [DOMAIN data_map' -> 1 .. total_packets]
    BY <2>4, <2>5, Zenon
  <2> QED
    BY <1>5, <2>1, <2>3, <2>4, <2>6
<1> QED
  BY <1>4, <1>7, <1>8 DEF RecvDat

\* How far recv_base moves.
LEMMA RecvBaseMoves ==
  ASSUME CoreInv, NEW m \in s2r, RecvDat(m)
  PROVE  /\ recv_base' \in recv_base .. r_seq_base + Sent + 1
         /\ \A s \in recv_base .. recv_base' - 1 : s \in DOMAIN data_map'
<1>1. TypeOK /\ WindowInv
  BY DEF CoreInv
<1> DEFINE stop == r_seq_base + Sent + 1
<1>2. stop \notin DOMAIN data_map'
  BY <1>1, Numbers, BufferedPackets DEF Sent
<1>3. stop \in recv_base .. recv_base + total_packets
  BY <1>1, Numbers DEF WindowInv, Sent, Acked, Received
<1>4. recv_base' = FirstMissing(data_map', recv_base)
  BY DEF RecvDat
<1> HIDE DEF stop
<1>5. /\ recv_base' \in recv_base .. stop
      /\ \A s \in recv_base .. recv_base' - 1 : s \in DOMAIN data_map'
  BY <1>1, <1>2, <1>3, <1>4, Numbers, FirstMissingIsFirst, Zenon
<1> QED
  BY <1>5 DEF stop

\* A DAT packet.
LEMMA RecvDatKeeps ==
  ASSUME CoreInv, NEW m \in s2r, RecvDat(m)
  PROVE  CoreInv'
<1> USE DEF senderVars, receiverVars, Recognised
<1>1. TypeOK /\ BaseInv /\ SeqNumInv /\ WindowInv /\ CcSane(cc) /\ BufferInv
      /\ NetworkInv /\ PlaceInv /\ FileInv
  BY DEF CoreInv
<1>2. Sent' = Sent /\ Acked' = Acked
      /\ Sent \in Nat /\ Acked \in Nat /\ Received \in Nat
  BY <1>1, Numbers DEF RecvDat, WindowInv, Sent, Acked, Received
<1>3. /\ recv_base' \in Nat
      /\ Received' \in Nat /\ Received <= Received' /\ Received' <= Sent
  BY <1>1, <1>2, Numbers, RecvBaseMoves DEF RecvDat, Received
<1>4. recv_base' - 1 = r_seq_base + Received'
  BY <1>1, <1>2, Numbers, RecvBaseMoves DEF RecvDat, Received
<1>5. PICK p : /\ r2s' = r2s \union {p}
               /\ p \in ToSender /\ p.flags = "ACK"
               /\ p.seq = Seq64to32(s_seq_base + Received')
  <2>1. Sent <= total_packets /\ total_packets \in Nat /\ r_seq_base \in Nat
    BY <1>1, Numbers DEF WindowInv
  <2>2. PICK k \in Nat : k = Received'
    BY <1>3
  <2>3. k <= total_packets
    BY <1>2, <1>3, <2>1, <2>2
  <2>4. k \in 0 .. total_packets + 1 /\ r_seq_base + k \in Nat
    BY <2>1, <2>3
  <2>5. r2s' = r2s \union {Header("ACK", recv_base' - 1)}
    BY DEF RecvDat, CumulativeAck
  <2>6. Seq64to32(r_seq_base + k) = Seq64to32(s_seq_base + k)
    BY <1>1, <2>4, HeadersAgree
  <2> QED
    BY <1>4, <2>2, <2>4, <2>5, <2>6, AckCarries, Zenon
<1>6. TypeOK'
  <2>1. ReceiverTypeOK'
    <3>1. DOMAIN data_map' \subseteq Nat
          /\ data_map' \in [DOMAIN data_map' -> 1 .. total_packets']
      BY BufferedPackets DEF RecvDat
    <3>2. /\ r_pc' \in ReceiverPcs
          /\ r_seq_base' \in Nat /\ r_seq_num' \in Nat
          /\ fin_received' \in BOOLEAN /\ fin_seq' \in Nat
          /\ written' \in BOOLEAN /\ file' \in Seq(1 .. total_packets')
      BY <1>1 DEF RecvDat, TypeOK, ReceiverTypeOK, ReceiverPcs
    <3> QED
      BY <1>3, <3>1, <3>2, Zenon DEF ReceiverTypeOK
  <2>2. SenderTypeOK'
    BY <1>1 DEF RecvDat, TypeOK, SenderTypeOK
  <2>3. s2r' \subseteq ToReceiver' /\ r2s' \subseteq ToSender'
    BY <1>1, <1>5 DEF RecvDat, TypeOK, ToReceiver, ToSender
  <2> QED
    BY <2>1, <2>2, <2>3 DEF TypeOK
<1>7. SeqNumInv' /\ CcSane(cc)'
  BY <1>1 DEF RecvDat, SeqNumInv
<1>8. BaseInv'
  <2>1. r_seq_base' = r_seq_base /\ s_seq_base' = s_seq_base
    BY DEF RecvDat
  <2>2. CASE recv_base' = recv_base
    <3>1. Received' = Received
      BY <2>2 DEF RecvDat, Received
    <3> QED
      BY <1>1, <2>1, <3>1 DEF BaseInv
  <2>3. CASE recv_base' # recv_base
    <3>1. recv_base' - 1 \in recv_base .. recv_base' - 1
      BY <1>1, <2>3, Numbers, RecvBaseMoves
    <3>2. recv_base' - 1 \in DOMAIN data_map'
      BY <3>1, RecvBaseMoves
    <3>3. Recognised((recv_base' - 1) - r_seq_base)
      BY <3>2, BufferedPackets
    <3>4. (recv_base' - 1) - r_seq_base = Received'
      BY <1>1, <1>3, <1>4, Numbers
    <3>5. Recognised(Received')
      BY <3>3, <3>4, Zenon
    <3> QED
      BY <1>1, <2>1, <3>5 DEF BaseInv
  <2> QED
    BY <2>2, <2>3
<1>9. WindowInv'
  BY <1>1, <1>2, <1>3 DEF RecvDat, WindowInv
<1>10. BufferInv'
  <2>1. ASSUME NEW s \in r_seq_base + 1 .. r_seq_base + Received'
        PROVE  s \in DOMAIN data_map'
    <3>1. CASE s < recv_base
      <4>1. \A t \in r_seq_base + 1 .. recv_base - 1 : t \in DOMAIN data_map
        BY <1>1 DEF RecvDat, BufferInv
      <4>2. s \in r_seq_base + 1 .. recv_base - 1
        BY <1>1, <1>3, <3>1, Numbers
      <4> QED
        BY <4>1, <4>2, BufferedPackets
    <3>2. CASE s >= recv_base
      <4>1. \A t \in recv_base .. r_seq_base + Received' : t \in DOMAIN data_map'
        BY <1>4, RecvBaseMoves, Zenon
      <4>2. s \in recv_base .. r_seq_base + Received'
        BY <1>1, <1>3, <3>2, Numbers
      <4> QED
        BY <4>1, <4>2
    <3> QED
      BY <3>1, <3>2, <1>1, Numbers
  <2>2. \A s \in DOMAIN data_map' : /\ s - r_seq_base \in 1 .. Sent
                                    /\ Recognised(s - r_seq_base)
                                    /\ data_map'[s] = s - r_seq_base
    BY BufferedPackets
  <2>3. r_seq_base' = r_seq_base /\ s_seq_base' = s_seq_base
    BY DEF RecvDat
  <2>4. \A s \in r_seq_base + 1 .. recv_base' - 1 : s \in DOMAIN data_map'
    BY <1>4, <2>1, Zenon
  <2> QED
    BY <1>2, <2>2, <2>3, <2>4, Zenon DEF BufferInv, Recognised
<1>11. NetworkInv'
  <2>1. ASSUME NEW d \in s2r
        PROVE  SenderSaid(d)'
    BY <1>1, <1>2 DEF RecvDat, NetworkInv, SenderSaid
  <2>2. ASSUME NEW d \in r2s
        PROVE  ReceiverSaid(d)'
    BY <1>1, <1>2, <1>3 DEF RecvDat, NetworkInv, ReceiverSaid
  <2>3. ReceiverSaid(p)'
    BY <1>2, <1>3, <1>5 DEF RecvDat, ReceiverSaid
  <2> QED
    BY <1>5, <2>1, <2>2, <2>3 DEF RecvDat, NetworkInv
<1>12. PlaceInv' /\ FileInv'
  BY <1>1, <1>2 DEF RecvDat, PlaceInv, FileInv
<1> QED
  BY <1>6, <1>7, <1>8, <1>9, <1>10, <1>11, <1>12 DEF CoreInv

\* The first FIN, whatever its number and whoever has sent it.
LEMMA LateFinKeeps ==
  ASSUME CoreInv, NEW seq \in Seq32, LateFin(seq)
  PROVE  CoreInv'
<1> USE DEF senderVars, receiverVars, Recognised
<1>1. TypeOK /\ BaseInv /\ SeqNumInv /\ WindowInv /\ CcSane(cc) /\ BufferInv
      /\ NetworkInv /\ PlaceInv /\ FileInv
  BY DEF CoreInv
<1>2. Sent' = Sent /\ Acked' = Acked /\ Received' = Received
  BY DEF LateFin, Sent, Acked, Received
<1>3. fin_seq' \in Nat
  BY <1>1, Numbers DEF LateFin, Seq32, Seq32to64
<1>4. TypeOK'
  <2>1. ReceiverTypeOK'
    BY <1>1, <1>3 DEF LateFin, TypeOK, ReceiverTypeOK
  <2>2. SenderTypeOK' /\ s2r' \subseteq ToReceiver' /\ r2s' \subseteq ToSender'
    BY <1>1 DEF LateFin, TypeOK, SenderTypeOK, ToReceiver, ToSender
  <2> QED
    BY <2>1, <2>2 DEF TypeOK
<1>5. BaseInv' /\ SeqNumInv' /\ WindowInv' /\ CcSane(cc)' /\ BufferInv'
  BY <1>1, <1>2 DEF LateFin, BaseInv, SeqNumInv, WindowInv, BufferInv
<1>6. NetworkInv'
  BY <1>1, <1>2 DEF LateFin, NetworkInv, SenderSaid, ReceiverSaid
<1>7. PlaceInv' /\ FileInv'
  BY <1>1, <1>2 DEF LateFin, PlaceInv, FileInv
<1> QED
  BY <1>4, <1>5, <1>6, <1>7 DEF CoreInv

LEMMA RecvFinKeeps ==
  ASSUME CoreInv, NEW m \in s2r, RecvFin(m)
  PROVE  CoreInv'
<1>1. m.seq \in Seq32
  BY DEF CoreInv, TypeOK, ToReceiver
<1>2. LateFin(m.seq)
  BY DEF RecvFin, LateFin
<1> QED
  BY <1>1, <1>2, LateFinKeeps

\* The receiver's loop ends, or the receiver dies.
LEMMA ReceiverStopsKeeps ==
  ASSUME CoreInv, AllReceived \/ RecvTimesOut \/ ReceiverDies
  PROVE  CoreInv'
<1> USE DEF senderVars, receiverVars, Recognised
<1>1. TypeOK /\ BaseInv /\ SeqNumInv /\ WindowInv /\ CcSane(cc) /\ BufferInv
      /\ NetworkInv /\ PlaceInv /\ FileInv
  BY DEF CoreInv
<1>2. /\ UNCHANGED <<r_seq_base, r_seq_num, recv_base, data_map, fin_received,
                     fin_seq, written, file, senderVars, s2r, r2s>>
      /\ r_pc' \in {"writing", "timedout", "killed"}
      /\ r_pc' = "writing" => r_pc = "recv" /\ fin_received
      /\ r_pc # "closed"
  BY DEF AllReceived, RecvTimesOut, ReceiverDies, ReceiverDone
<1>3. Sent' = Sent /\ Acked' = Acked /\ Received' = Received
  BY <1>2 DEF Sent, Acked, Received
<1>4. TypeOK'
  <2>1. SenderTypeOK' /\ s2r' \subseteq ToReceiver' /\ r2s' \subseteq ToSender'
    BY <1>1, <1>2 DEF TypeOK, SenderTypeOK, ToReceiver, ToSender
  <2>2. ReceiverTypeOK'
    BY <1>1, <1>2 DEF TypeOK, ReceiverTypeOK, ReceiverPcs
  <2> QED
    BY <2>1, <2>2 DEF TypeOK
<1>5. BaseInv' /\ SeqNumInv' /\ WindowInv' /\ CcSane(cc)' /\ BufferInv'
  BY <1>1, <1>2, <1>3 DEF BaseInv, SeqNumInv, WindowInv, BufferInv
<1>6. NetworkInv'
  BY <1>1, <1>2, <1>3 DEF NetworkInv, SenderSaid, ReceiverSaid
<1>7. PlaceInv' /\ FileInv'
  BY <1>1, <1>2, <1>3 DEF PlaceInv, FileInv
<1> QED
  BY <1>4, <1>5, <1>6, <1>7 DEF CoreInv

\* What the buffer holds when the file is written.
LEMMA BufferAtTheEnd ==
  ASSUME CoreInv, r_pc = "writing"
  PROVE  /\ DOMAIN data_map \subseteq r_seq_base + 1 .. r_seq_base + total_packets
         /\ \A s \in DOMAIN data_map : data_map[s] = s - r_seq_base
         /\ Received = total_packets =>
              DOMAIN data_map = r_seq_base + 1 .. r_seq_base + total_packets
<1>1. TypeOK /\ WindowInv /\ BufferInv
  BY DEF CoreInv
<1>2. DOMAIN data_map \subseteq Nat
  BY <1>1 DEF TypeOK, ReceiverTypeOK
<1>3. \A s \in DOMAIN data_map : /\ s - r_seq_base \in 1 .. Sent
                                 /\ data_map[s] = s - r_seq_base
  BY <1>1 DEF BufferInv
<1>4. \A s \in r_seq_base + 1 .. recv_base - 1 : s \in DOMAIN data_map
  BY <1>1 DEF BufferInv
<1>5. Sent \in Nat /\ Sent <= total_packets
  BY <1>1, Numbers DEF WindowInv, Sent, Acked, Received
<1>6. ASSUME NEW s \in DOMAIN data_map
      PROVE  s \in r_seq_base + 1 .. r_seq_base + total_packets
  BY <1>1, <1>2, <1>3, <1>5, Numbers
<1>7. ASSUME Received = total_packets
      PROVE  \A s \in r_seq_base + 1 .. r_seq_base + total_packets : s \in DOMAIN data_map
  <2>1. recv_base - 1 = r_seq_base + total_packets
    BY <1>1, <1>7, Numbers DEF Received
  <2> QED
    BY <1>4, <2>1, Zenon
<1> QED
  BY <1>3, <1>6, <1>7

\* The file is written: what the buffer holds, and nothing is missing from it if
\* the receiver had all packets.
LEMMA WriteFileKeeps ==
  ASSUME CoreInv, WriteFile
  PROVE  CoreInv'
<1> USE DEF senderVars, receiverVars, Recognised
<1>1. TypeOK /\ BaseInv /\ SeqNumInv /\ WindowInv /\ CcSane(cc) /\ BufferInv
      /\ NetworkInv /\ PlaceInv /\ FileInv
  BY DEF CoreInv
<1>2. Sent' = Sent /\ Acked' = Acked /\ Received' = Received
  BY DEF WriteFile, Sent, Acked, Received
<1>3. fin_received /\ r_seq_num = r_seq_base
  BY <1>1 DEF WriteFile, PlaceInv, SeqNumInv
<1>4. /\ Cardinality(DOMAIN data_map) \in 0 .. total_packets
      /\ file' \in Seq(1 .. total_packets)
      /\ Len(file') = Cardinality(DOMAIN data_map)
      /\ \A i, j \in 1 .. Len(file') : i < j => file'[i] < file'[j]
  <2>1. /\ DOMAIN data_map \subseteq r_seq_base + 1 .. r_seq_base + total_packets
        /\ \A s \in DOMAIN data_map : data_map[s] = s - r_seq_base
    BY BufferAtTheEnd DEF WriteFile
  <2>2. file' = FileOf(data_map)
    BY DEF WriteFile
  <2>3. r_seq_base \in Nat /\ total_packets \in Nat
    BY <1>1, Numbers
  <2>4. /\ Cardinality(DOMAIN data_map) \in 0 .. total_packets
        /\ FileOf(data_map) \in Seq(1 .. total_packets)
        /\ Len(FileOf(data_map)) = Cardinality(DOMAIN data_map)
        /\ \A i, j \in 1 .. Cardinality(DOMAIN data_map) :
             i < j => FileOf(data_map)[i] < FileOf(data_map)[j]
    BY <2>1, <2>3, FileOfBuffer
  <2> QED
    BY <2>2, <2>4, Zenon
<1>5. Received = total_packets => file' = [k \in 1 .. total_packets |-> k]
  BY <1>1, Numbers, BufferAtTheEnd, FileOfRange DEF WriteFile
<1>6. r_seq_num' = r_seq_base + Len(file')
  BY <1>3, <1>4 DEF WriteFile
<1>7. TypeOK'
  <2>1. ReceiverTypeOK'
    <3>1. DOMAIN data_map' = {} /\ data_map' \in [DOMAIN data_map' -> 1 .. total_packets']
      BY DEF WriteFile
    <3>2. file' \in Seq(1 .. total_packets')
      BY <1>4 DEF WriteFile
    <3>3. r_seq_num' \in Nat
      BY <1>1, <1>4, <1>6, Numbers
    <3>4. /\ r_pc' \in ReceiverPcs /\ r_seq_base' \in Nat /\ recv_base' \in Nat
          /\ fin_received' \in BOOLEAN /\ fin_seq' \in Nat
          /\ written' \in BOOLEAN
      BY <1>1 DEF WriteFile, TypeOK, ReceiverTypeOK, ReceiverPcs
    <3>5. DOMAIN data_map' \subseteq Nat
      BY <3>1
    <3> QED
      BY <3>1, <3>2, <3>3, <3>4, <3>5, Zenon DEF ReceiverTypeOK
  <2>2. SenderTypeOK' /\ s2r' \subseteq ToReceiver' /\ r2s' \subseteq ToSender'
    BY <1>1 DEF WriteFile, TypeOK, SenderTypeOK, ToReceiver, ToSender
  <2> QED
    BY <2>1, <2>2 DEF TypeOK
<1>8. BaseInv' /\ WindowInv' /\ CcSane(cc)' /\ BufferInv'
  BY <1>1, <1>2 DEF WriteFile, BaseInv, WindowInv, BufferInv
<1>9. SeqNumInv'
  BY <1>1, <1>6 DEF WriteFile, SeqNumInv
<1>10. NetworkInv'
  BY <1>1, <1>2 DEF WriteFile, NetworkInv, SenderSaid, ReceiverSaid
<1>11. PlaceInv' /\ FileInv'
  <2>1. total_packets' = total_packets /\ Len(file') <= total_packets
    BY <1>1, <1>4, Numbers DEF WriteFile
  <2>2. FileInv'
    BY <1>2, <1>4, <1>5, <2>1 DEF FileInv
  <2> QED
    BY <1>1, <1>2, <1>3, <2>2 DEF WriteFile, PlaceInv
<1> QED
  BY <1>7, <1>8, <1>9, <1>10, <1>11 DEF CoreInv

\* The FIN&ACK, numbered by the size of the buffer, answers the FIN.
LEMMA WaitCloseKeeps ==
  ASSUME CoreInv, WaitClose
  PROVE  CoreInv'
<1> USE DEF senderVars, receiverVars, Recognised
<1>1. TypeOK /\ BaseInv /\ SeqNumInv /\ WindowInv /\ CcSane(cc) /\ BufferInv
      /\ NetworkInv /\ PlaceInv /\ FileInv
  BY DEF CoreInv
<1>2. Sent' = Sent /\ Acked' = Acked /\ Received' = Received
  BY DEF WaitClose, Sent, Acked, Received
<1> DEFINE number == s_seq_base + Len(file) + 1
<1>3. PICK p : /\ r2s' = r2s \union {p}
               /\ p \in ToSender /\ p.flags = "FIN|ACK"
               /\ p.seq = Seq64to32(number)
  <2>1. r_seq_num = r_seq_base + Len(file)
    BY <1>1 DEF WaitClose, SeqNumInv
  <2>2. Len(file) \in Nat
    BY <1>1 DEF TypeOK, ReceiverTypeOK
  <2>3. /\ r_seq_num + 1 = r_seq_base + (Len(file) + 1)
        /\ Len(file) + 1 \in Nat
        /\ number = s_seq_base + (Len(file) + 1)
        /\ r_seq_num + 1 \in Nat
    BY <1>1, <2>1, <2>2, Numbers
  <2>4. Seq64to32(r_seq_base + (Len(file) + 1)) =
          Seq64to32(s_seq_base + (Len(file) + 1))
    BY <1>1, <2>3, HeadersAgree
  <2>5. r2s' = r2s \union {Header("FIN|ACK", r_seq_num + 1)}
    BY DEF WaitClose
  <2> QED
    BY <2>3, <2>4, <2>5, AckCarries, Zenon
<1>4. TypeOK'
  <2>1. r_seq_num' \in Nat
    BY <1>1, Numbers DEF WaitClose
  <2>2. ReceiverTypeOK'
    BY <1>1, <2>1 DEF WaitClose, TypeOK, ReceiverTypeOK, ReceiverPcs
  <2>3. SenderTypeOK' /\ s2r' \subseteq ToReceiver' /\ r2s' \subseteq ToSender'
    BY <1>1, <1>3 DEF WaitClose, TypeOK, SenderTypeOK, ToReceiver, ToSender
  <2> QED
    BY <2>2, <2>3 DEF TypeOK
<1>5. BaseInv' /\ SeqNumInv' /\ WindowInv' /\ CcSane(cc)' /\ BufferInv'
  BY <1>1, <1>2 DEF WaitClose, BaseInv, SeqNumInv, WindowInv, BufferInv
<1>6. NetworkInv'
  <2>1. ASSUME NEW d \in s2r
        PROVE  SenderSaid(d)'
    BY <1>1, <1>2 DEF WaitClose, NetworkInv, SenderSaid
  <2>2. ASSUME NEW d \in r2s
        PROVE  ReceiverSaid(d)'
    BY <1>1, <1>2 DEF WaitClose, NetworkInv, ReceiverSaid
  <2>3. ReceiverSaid(p)'
    BY <1>2, <1>3 DEF WaitClose, ReceiverSaid
  <2> QED
    BY <1>3, <2>1, <2>2, <2>3 DEF WaitClose, NetworkInv
<1>7. PlaceInv' /\ FileInv'
  BY <1>1, <1>2 DEF WaitClose, PlaceInv, FileInv
<1> QED
  BY <1>4, <1>5, <1>6, <1>7 DEF CoreInv

-----------------------------------------------------------------------------
(* The network, and steps that change nothing.                             *)

LEMMA LoseKeeps ==
  ASSUME CoreInv, Lose
  PROVE  CoreInv'
<1> USE DEF senderVars, receiverVars, Recognised
<1>1. TypeOK /\ BaseInv /\ SeqNumInv /\ WindowInv /\ CcSane(cc) /\ BufferInv
      /\ NetworkInv /\ PlaceInv /\ FileInv
  BY DEF CoreInv
<1>2. UNCHANGED <<senderVars, receiverVars>> /\ s2r' \subseteq s2r /\ r2s' \subseteq r2s
  BY DEF Lose
<1>3. Sent' = Sent /\ Acked' = Acked /\ Received' = Received
  BY <1>2 DEF Sent, Acked, Received
<1>4. TypeOK'
  BY <1>1, <1>2 DEF TypeOK, SenderTypeOK, ReceiverTypeOK, ToReceiver, ToSender
<1>5. BaseInv' /\ SeqNumInv' /\ WindowInv' /\ CcSane(cc)' /\ BufferInv' /\ PlaceInv' /\ FileInv'
  BY <1>1, <1>2, <1>3 DEF BaseInv, SeqNumInv, WindowInv, BufferInv, PlaceInv, FileInv
<1>6. NetworkInv'
  BY <1>1, <1>2, <1>3 DEF NetworkInv, SenderSaid, ReceiverSaid
<1> QED
  BY <1>4, <1>5, <1>6 DEF CoreInv

LEMMA StutterKeeps ==
  ASSUME CoreInv, UNCHANGED vars
  PROVE  CoreInv'
<1>1. UNCHANGED <<senderVars, receiverVars, s2r, r2s>>
  BY DEF vars
<1>2. Sent' = Sent /\ Acked' = Acked /\ Received' = Received
  BY <1>1 DEF senderVars, receiverVars, Sent, Acked, Received
<1>3. TypeOK'
  BY <1>1 DEF CoreInv, senderVars, receiverVars, TypeOK, SenderTypeOK,
              ReceiverTypeOK, ToReceiver, ToSender
<1>4. BaseInv' /\ SeqNumInv' /\ WindowInv' /\ CcSane(cc)' /\ BufferInv' /\ PlaceInv' /\ FileInv'
  BY <1>1, <1>2 DEF CoreInv, senderVars, receiverVars, BaseInv, SeqNumInv, WindowInv,
                    BufferInv, PlaceInv, FileInv, Recognised
<1>5. NetworkInv'
  BY <1>1, <1>2 DEF CoreInv, senderVars, receiverVars, NetworkInv, SenderSaid,
                    ReceiverSaid
<1> QED
  BY <1>3, <1>4, <1>5 DEF CoreInv

-----------------------------------------------------------------------------
(* The invariant.                                                          *)

\* Every step of either process and of the network preserves what holds of any
\* FIN.
LEMMA NextKeepsCore ==
  ASSUME CoreInv, [Next]_vars
  PROVE  CoreInv'
<1>1. CASE Sender
  BY <1>1, SendNextKeeps, RetransmitWindowKeeps, SenderStopsKeeps, NewAckKeeps,
     DuplicateAckKeeps, RecvFinAckKeeps, FinKeeps DEF Sender
<1>2. CASE Receiver
  BY <1>2, RecvDatKeeps, RecvFinKeeps, ReceiverStopsKeeps, WriteFileKeeps,
     WaitCloseKeeps DEF Receiver
<1>3. CASE Lose
  BY <1>3, LoseKeeps
<1>4. CASE UNCHANGED vars
  BY <1>4, StutterKeeps
<1> QED
  BY <1>1, <1>2, <1>3, <1>4 DEF Next, Terminated

\* The window never moves back, and only RecvFin records a FIN.
LEMMA NextAdvances ==
  ASSUME CoreInv, [Next]_vars
  PROVE  /\ UNCHANGED <<total_packets, s_seq_base, r_seq_base>>
         /\ base' = base \/ base' > base
         /\ \/ UNCHANGED <<fin_received, fin_seq>>
            \/ \E m \in s2r : RecvFin(m)
<1> USE DEF senderVars, receiverVars
<1>1. CASE Sender
  BY <1>1 DEF Sender, SendNext, RetransmitWindow, SendTimesOut, NewAck, DuplicateAck,
     RecvFinAck, SendFin, ResendFin, CloseFails, SenderDies
<1>2. CASE Receiver
  BY <1>2 DEF Receiver, RecvDat, RecvFin, AllReceived, RecvTimesOut, WriteFile,
     WaitClose, ReceiverDies
<1>3. CASE Lose \/ UNCHANGED vars
  BY <1>3 DEF Lose, vars
<1> QED
  BY <1>1, <1>2, <1>3 DEF Next, Terminated

\* The FIN of the sender is what the receiver records.
LEMMA NextKeepsFin ==
  ASSUME IndInv, [Next]_vars
  PROVE  FinInv'
<1>1. TypeOK /\ BaseInv /\ NetworkInv /\ FinInv /\ WindowInv' /\ TypeOK'
  BY NextKeepsCore DEF IndInv, CoreInv
<1>2. /\ UNCHANGED <<total_packets, s_seq_base, r_seq_base>>
      /\ base' = base \/ base' > base
      /\ UNCHANGED <<fin_received, fin_seq>> \/ \E m \in s2r : RecvFin(m)
  BY NextAdvances DEF IndInv
<1>3. Acked = total_packets => Acked' = total_packets'
  <2>1. /\ Acked' \in Int /\ Sent' \in Int /\ Received' \in Int
        /\ total_packets \in Int /\ Acked \in Int
    <3>1. base' \in Nat /\ next_seq_num' \in Nat /\ recv_base' \in Nat
      BY <1>1 DEF TypeOK, SenderTypeOK, ReceiverTypeOK
    <3> QED
      BY <1>1, <1>2, <3>1, Numbers DEF Acked, Sent, Received
  <2>2. Acked' >= Acked
    BY <1>1, <1>2, Numbers DEF TypeOK, SenderTypeOK, Acked
  <2>3. Acked' <= total_packets
    BY <1>1, <1>2, <2>1 DEF WindowInv
  <2> QED
    BY <1>2, <2>1, <2>2, <2>3
<1>4. CASE UNCHANGED <<fin_received, fin_seq>>
  BY <1>1, <1>2, <1>3, <1>4 DEF FinInv
<1>5. ASSUME NEW m \in s2r, RecvFin(m)
      PROVE  FinInv'
  <2> DEFINE k == total_packets + 1
  <2>1. Acked = total_packets /\ m.seq = Seq64to32(s_seq_base + k)
    <3>1. Acked = total_packets /\ m.seq = Seq64to32(s_seq_base + total_packets + 1)
      BY <1>1, <1>5 DEF RecvFin, NetworkInv, SenderSaid
    <3>2. s_seq_base + total_packets + 1 = s_seq_base + k
      BY <1>1, Numbers
    <3> QED
      BY <3>1, <3>2, Zenon
  <2>2. k \in 0 .. total_packets + 1
    BY <1>1, Numbers
  <2>3. fin_seq' = Seq32to64(r_seq_base, Seq64to32(s_seq_base + k))
    BY <1>5, <2>1 DEF RecvFin
  <2> HIDE DEF k
  <2>4. fin_seq' = r_seq_base + k \/ (fin_seq' \in Nat /\ fin_seq' <= r_seq_base)
    BY <1>1, <2>2, <2>3, ReceiverDecodes, ReceiverMistakes
  <2>5. fin_seq' <= r_seq_base + total_packets + 1
    BY <1>1, <2>4, Numbers DEF k
  <2> QED
    BY <1>2, <1>3, <2>1, <2>5 DEF FinInv
<1> QED
  BY <1>2, <1>4, <1>5

LEMMA NextKeeps ==
  ASSUME IndInv, [Next]_vars
  PROVE  IndInv'
BY NextKeepsCore, NextKeepsFin DEF IndInv

\* The invariant holds throughout every transfer.
THEOREM Invariance == Spec => []IndInv
<1>1. Init => IndInv
  BY InitEstablishes DEF IndInv, Init, FinInv
<1>2. IndInv /\ [Next]_vars => IndInv'
  BY NextKeeps
<1> QED
  BY <1>1, <1>2, PTL DEF Spec

\* With late FINs the core of it still holds.
THEOREM LateInvariance == LateSpec => []CoreInv
<1>1. Init => CoreInv
  BY InitEstablishes
<1>2. CoreInv /\ [LateNext]_vars => CoreInv'
  BY NextKeepsCore, LateFinKeeps DEF LateNext
<1> QED
  BY <1>1, <1>2, PTL DEF LateSpec

-----------------------------------------------------------------------------
(* What the invariant says of a state.                                     *)

LEMMA AckedWasBuffered ==
  ASSUME CoreInv
  PROVE  AckedIsBuffered
<1> SUFFICES ASSUME r_pc \in {"recv", "writing"}, NEW k \in 1 .. Acked
             PROVE  /\ r_seq_base + k \in DOMAIN data_map
                    /\ data_map[r_seq_base + k] = k
  BY DEF AckedIsBuffered
<1>1. TypeOK /\ WindowInv /\ BufferInv
  BY DEF CoreInv
<1>2. r_seq_base + k \in r_seq_base + 1 .. recv_base - 1
  BY <1>1, Numbers DEF WindowInv, Acked, Received, Sent
<1>3. r_seq_base + k \in DOMAIN data_map
  BY <1>1, <1>2 DEF BufferInv
<1>4. data_map[r_seq_base + k] = (r_seq_base + k) - r_seq_base
  BY <1>1, <1>3 DEF BufferInv
<1> QED
  BY <1>1, <1>3, <1>4, Numbers

\* A file whose packets are all acknowledged is whole.
LEMMA AckedFileIsWhole ==
  ASSUME CoreInv, Acked = total_packets
  PROVE  /\ Received = total_packets
         /\ FileIntact
         /\ FinAckAnswersFin
<1>1. TypeOK /\ WindowInv /\ NetworkInv /\ PlaceInv /\ FileInv
  BY DEF CoreInv
<1>2. Received = total_packets
  BY <1>1, Numbers DEF WindowInv, Acked, Received, Sent
<1>3. FileIntact
  BY <1>1, <1>2 DEF FileInv, FileIntact
<1>4. written => Len(file) = total_packets
  BY <1>1, <1>3, Numbers DEF FileIntact
<1>5. FinAckAnswersFin
  <2> SUFFICES ASSUME NEW m \in r2s, m.flags = "FIN|ACK"
               PROVE  m.seq = Seq64to32(s_seq_base + total_packets + 1)
    BY DEF FinAckAnswersFin
  <2>1. r_pc = "closed" /\ m.seq = Seq64to32(s_seq_base + Len(file) + 1)
    BY <1>1 DEF NetworkInv, ReceiverSaid
  <2>2. Len(file) = total_packets
    BY <1>1, <1>4, <2>1 DEF PlaceInv
  <2> QED
    BY <2>1, <2>2
<1> QED
  BY <1>2, <1>3, <1>5

LEMMA ClosedWasConfirmed ==
  ASSUME CoreInv
  PROVE  CloseIsConfirmed
<1> SUFFICES ASSUME s_pc = "closed"
             PROVE  /\ r_pc = "closed" /\ written
                    /\ file = [k \in 1 .. total_packets |-> k]
  BY DEF CloseIsConfirmed
<1>1. r_pc = "closed" /\ written
  BY DEF CoreInv, PlaceInv
<1>2. Acked = total_packets
  BY DEF CoreInv, WindowInv
<1> QED
  BY <1>1, <1>2, AckedFileIsWhole DEF FileIntact

LEMMA WaitingHasTimer ==
  ASSUME CoreInv
  PROVE  TimerArmed
<1> SUFFICES ASSUME s_pc = "wait"
             PROVE  base < next_seq_num
  BY DEF TimerArmed
<1>1. TypeOK /\ Acked < Sent
  BY DEF CoreInv, WindowInv
<1> QED
  BY <1>1, Numbers DEF Acked, Sent

\* All packets of a FIN that was recorded, or is on its way, are acknowledged.
LEMMA FinIsLast ==
  ASSUME IndInv, fin_received \/ \E m \in s2r : m.flags = "FIN"
  PROVE  Acked = total_packets
BY DEF IndInv, CoreInv, NetworkInv, SenderSaid, FinInv

\* Hence what is written is whole, and answered with the number of the FIN.
LEMMA WrittenIsWhole ==
  ASSUME IndInv
  PROVE  FileIntact /\ FinAckAnswersFin
<1>1. CoreInv /\ FinInv /\ PlaceInv /\ NetworkInv
  BY DEF IndInv, CoreInv
<1>2. CASE fin_received
  BY <1>1, <1>2, AckedFileIsWhole DEF FinInv
<1>3. CASE ~fin_received
  BY <1>1, <1>3 DEF PlaceInv, NetworkInv, ReceiverSaid, FileIntact, FinAckAnswersFin
<1> QED
  BY <1>2, <1>3

-----------------------------------------------------------------------------
(* The theorems.                                                           *)

\* Every member, local and datagram keeps its type.
THEOREM TypeCorrect == Spec => []TypeOK
<1>1. IndInv => TypeOK
  BY DEF IndInv, CoreInv
<1> QED
  BY <1>1, Invariance, PTL

\* The sender slides its window only past packets the receiver has buffered.
THEOREM NothingAckedIsLost == Spec => []AckedIsBuffered
<1>1. IndInv => AckedIsBuffered
  BY AckedWasBuffered DEF IndInv
<1> QED
  BY <1>1, Invariance, PTL

\* A FIN is sent, hence noted by the receiver, only when it has every packet.
THEOREM FinComesLast == Spec => []FinMeansComplete
<1>1. IndInv => FinMeansComplete
  BY FinIsLast, AckedFileIsWhole DEF IndInv, FinMeansComplete
<1> QED
  BY <1>1, Invariance, PTL

\* What the receiver writes is the sender's file.
THEOREM FileArrivesIntact == Spec => []FileIntact
<1>1. IndInv => FileIntact
  BY WrittenIsWhole
<1> QED
  BY <1>1, Invariance, PTL

\* A close() that succeeds is confirmed by a receiver that has its file.
THEOREM CloseConfirmed == Spec => []CloseIsConfirmed
<1>1. IndInv => CloseIsConfirmed
  BY ClosedWasConfirmed DEF IndInv
<1> QED
  BY <1>1, Invariance, PTL

\* No FIN&ACK bears a number that close() would ignore.
THEOREM FinAckNumbered == Spec => []FinAckAnswersFin
<1>1. IndInv => FinAckAnswersFin
  BY WrittenIsWhole
<1> QED
  BY <1>1, Invariance, PTL

\* A waiting sender has a packet outstanding, hence a timer running.
THEOREM WaitingIsArmed == Spec => []TimerArmed
<1>1. IndInv => TimerArmed
  BY WaitingHasTimer DEF IndInv
<1> QED
  BY <1>1, Invariance, PTL

\* Fast recovery and the count of duplicates go together.
THEOREM RecoveryCounts == Spec => []RecoveryHoldsCount
<1>1. IndInv => RecoveryHoldsCount
  BY DEF IndInv, CoreInv, CcSane, RecoveryHoldsCount
<1> QED
  BY <1>1, Invariance, PTL

\* A connection whose data wraps around under a garbage seq_base above x stalls:
\* nothing beyond the wrap is recognised, so that the FIN is never due.
THEOREM SkewIsHarmless == Spec => []SkewOnlyStalls
<1>1. IndInv => SkewOnlyStalls
  <2> SUFFICES ASSUME IndInv, r_seq_base > s_seq_base,
                      s_seq_base + total_packets >= SeqMod
               PROVE  Acked < total_packets /\ ~written
    BY DEF SkewOnlyStalls
  <2>1. TypeOK /\ BaseInv /\ WindowInv /\ PlaceInv /\ FinInv
    BY DEF IndInv, CoreInv
  <2>2. s_seq_base + Received < SeqMod /\ Received \in Int /\ Acked \in Int
        /\ Acked <= Received
    BY <2>1, Numbers DEF BaseInv, Recognised, WindowInv, Acked, Received
  <2>3. Acked < total_packets
    BY <2>1, <2>2, Numbers
  <2> QED
    BY <2>1, <2>2, <2>3, Numbers DEF PlaceInv, FinInv
<1> QED
  BY <1>1, Invariance, PTL

\* Late FINs damage nothing but the file: what is acknowledged was buffered, a
\* close() that returns 0 is confirmed by a receiver with the whole file, and the
\* sender's timer and its congestion control do not notice them.
THEOREM LateFinsHurtNothingElse ==
  LateSpec => [](TypeOK /\ AckedIsBuffered /\ CloseIsConfirmed /\ TimerArmed
                        /\ RecoveryHoldsCount)
<1>1. CoreInv => TypeOK /\ RecoveryHoldsCount
  BY DEF CoreInv, CcSane, RecoveryHoldsCount
<1>2. CoreInv => AckedIsBuffered /\ CloseIsConfirmed /\ TimerArmed
  BY AckedWasBuffered, ClosedWasConfirmed, WaitingHasTimer
<1> QED
  BY <1>1, <1>2, LateInvariance, PTL

\* A file that a late FIN has damaged is in order and without repetition, and its
\* sender does not get past send_file.
THEOREM CutOffNoticed == LateSpec => []CutOffIsNoticed
<1>1. CoreInv => CutOffIsNoticed
  <2> SUFFICES ASSUME CoreInv
               PROVE  CutOffIsNoticed
    OBVIOUS
  <2>1. DOMAIN file = 1 .. Len(file)
    BY DEF CoreInv, TypeOK, ReceiverTypeOK
  <2>2. written => \A i, j \in DOMAIN file : i < j => file[i] < file[j]
    BY <2>1 DEF CoreInv, FileInv
  <2>3. s_pc \in {"sent", "finwait", "closed", "unclosed"} => Acked = total_packets
    BY DEF CoreInv, WindowInv
  <2> QED
    BY <2>2, <2>3, AckedFileIsWhole DEF CutOffIsNoticed
<1> QED
  BY <1>1, LateInvariance, PTL

-----------------------------------------------------------------------------
(* The window and the acknowledgements that pay for it.                    *)

\* One more acknowledged packet pays for one more in the window.
LEMMA EarningPays ==
  ASSUME NEW a \in Nat, NEW b \in Nat, a < b
  PROVE  /\ (a + 6) * Unit \in Nat /\ (b + 6) * Unit \in Nat
         /\ (a + 6) * Unit >= 6 * Unit
         /\ (a + 6) * Unit + Unit <= (b + 6) * Unit
<1>1. PICK d \in Nat : b = a + 1 + d
  <2>1. b - a - 1 \in Nat /\ b = a + 1 + (b - a - 1)
    OBVIOUS
  <2> QED
    BY <2>1
<1>2. Unit \in Nat /\ a * Unit \in Nat /\ d * Unit \in Nat
  BY UnitAssumption
<1>3. (a + 6) * Unit = a * Unit + 6 * Unit
  BY <1>2
<1>4. (b + 6) * Unit = a * Unit + 7 * Unit + d * Unit
  BY <1>1, <1>2
<1> QED
  BY <1>2, <1>3, <1>4

LEMMA WindowEarnedAtFirst ==
  ASSUME Init
  PROVE  WindowIsEarned
<1>1. CoreInv
  BY InitEstablishes
<1>2. Acked = 0 /\ Sent = 0
  BY <1>1, Numbers DEF CoreInv, SeqNumInv, Init, LoopPc, Acked, Sent
<1> QED
  BY <1>2, UnitAssumption DEF Init, InitialCc, WindowIsEarned

LEMMA WindowEarnedNext ==
  ASSUME CoreInv, WindowIsEarned, [Next]_vars
  PROVE  WindowIsEarned'
<1> USE DEF senderVars, receiverVars
<1>1. TypeOK /\ WindowInv /\ CcSane(cc) /\ cc \in CcState
  BY DEF CoreInv, TypeOK, SenderTypeOK
<1>2. /\ Acked \in Nat /\ Sent \in Nat /\ Acked <= Sent
      /\ cc.cwnd \in Nat /\ Unit \in Nat /\ Unit > 0
  BY <1>1, Numbers, UnitAssumption DEF WindowInv, Acked, Sent, Received, CcState
<1>3. /\ (Acked + 6) * Unit \in Nat /\ (Acked + 6) * Unit >= 6 * Unit
      /\ cc.cwnd <= (Acked + 6) * Unit /\ Sent - Acked <= Acked + 6
  <2>1. Acked + 1 \in Nat /\ Acked < Acked + 1
    BY <1>2
  <2>2. (Acked + 6) * Unit \in Nat /\ (Acked + 6) * Unit >= 6 * Unit
    BY <1>2, <2>1, EarningPays
  <2> QED
    BY <2>2 DEF WindowIsEarned
<1>4. CASE SendNext
  <2>1. (next_seq_num - base) * Unit < cc.cwnd /\ next_seq_num - base = Sent - Acked
    BY <1>1, <1>4, Numbers DEF SendNext, WindowInv, WindowAdmits, Sent, Acked
  <2>2. Sent - Acked < Acked + 6
    <3>1. (Sent - Acked) * Unit < (Acked + 6) * Unit
      BY <1>2, <1>3, <2>1
    <3>2. ASSUME Sent - Acked >= Acked + 6
          PROVE  (Sent - Acked) * Unit >= (Acked + 6) * Unit
      BY <1>2, <3>2
    <3> QED
      BY <1>2, <1>3, <3>1, <3>2
  <2>3. Sent' = Sent + 1 /\ Acked' = Acked /\ cc' = cc
    BY <1>1, <1>4, Numbers DEF SendNext, Sent, Acked
  <2> QED
    BY <1>2, <1>3, <2>2, <2>3 DEF WindowIsEarned
<1>5. CASE RetransmitWindow
  <2>1. Sent' = Sent /\ Acked' = Acked /\ cc'.cwnd = Unit
    BY <1>5 DEF RetransmitWindow, Sent, Acked, OnTimeout
  <2> QED
    BY <1>2, <1>3, <2>1 DEF WindowIsEarned
<1>6. ASSUME NEW m \in r2s, NewAck(m)
      PROVE  WindowIsEarned'
  <2>1. CoreInv'
    BY NextKeepsCore
  <2>2. Acked' \in Nat /\ Sent' = Sent /\ Acked' > Acked
    <3>1. PICK a : a = Seq32to64(s_seq_base, m.seq)
      OBVIOUS
    <3>2. a + 1 > base /\ base' = a + 1 /\ s_seq_base' = s_seq_base
          /\ next_seq_num' = next_seq_num
      BY <1>6, <3>1 DEF NewAck
    <3>3. base' \in Nat
      BY <2>1 DEF CoreInv, TypeOK, SenderTypeOK
    <3> QED
      BY <1>1, <1>2, <3>2, <3>3, Numbers DEF Acked, Sent
  <2>3. cc'.cwnd <= cc.cwnd + Unit
    BY <1>1, <1>6, OnNewAckGrows DEF NewAck
  <2>4. cc'.cwnd \in Nat
    BY <2>1 DEF CoreInv, TypeOK, SenderTypeOK, CcState
  <2>5. /\ (Acked + 6) * Unit + Unit <= (Acked' + 6) * Unit
        /\ (Acked' + 6) * Unit \in Nat
    <3>1. PICK a \in Nat, b \in Nat : a = Acked /\ b = Acked' /\ a < b
      BY <1>2, <2>2
    <3>2. (a + 6) * Unit + Unit <= (b + 6) * Unit /\ (b + 6) * Unit \in Nat
      BY <3>1, EarningPays
    <3> QED
      BY <3>1, <3>2, Zenon
  <2>6. cc'.cwnd <= (Acked' + 6) * Unit
    BY <1>2, <1>3, <2>3, <2>4, <2>5
  <2>7. Sent' - Acked' <= Acked' + 6
    <3>1. PICK a \in Nat, b \in Nat, n \in Nat :
            a = Acked /\ b = Acked' /\ n = Sent /\ n = Sent' /\ a < b
      BY <1>2, <2>2
    <3>2. a \in Nat /\ b \in Nat /\ n \in Nat /\ a < b /\ n - a <= a + 6
      BY <1>3, <3>1, Zenon
    <3>3. n - b <= b + 6
      BY <3>2
    <3> QED
      BY <3>1, <3>3, Zenon
  <2> QED
    BY <2>6, <2>7, Zenon DEF WindowIsEarned
<1>7. ASSUME NEW m \in r2s, DuplicateAck(m)
      PROVE  WindowIsEarned'
  <2>1. Sent' = Sent /\ Acked' = Acked /\ cc' = OnDuplicateAck(cc)
    BY <1>7 DEF DuplicateAck, Sent, Acked
  <2>2. OnDuplicateAck(cc).cwnd <= (Acked + 6) * Unit
    BY <1>1, <1>3, OnDuplicateAckBound
  <2> QED
    BY <2>1, <2>2 DEF WindowIsEarned
<1>8. CASE UNCHANGED <<base, s_seq_base, next_seq_num, cc>>
  BY <1>8 DEF WindowIsEarned, Acked, Sent
<1> QED
  BY <1>4, <1>5, <1>6, <1>7, <1>8
     DEF Next, Sender, SendTimesOut, RecvFinAck, SendFin, ResendFin, CloseFails,
         SenderDies, Receiver, RecvDat, RecvFin, AllReceived, RecvTimesOut, WriteFile,
         WaitClose, ReceiverDies, Lose, Terminated, vars

\* The window grows with the acknowledgements, and so does what is in flight.
THEOREM WindowEarned == Spec => []WindowIsEarned
<1>1. Init => WindowIsEarned
  BY WindowEarnedAtFirst
<1>2. IndInv /\ WindowIsEarned /\ [Next]_vars => WindowIsEarned'
  BY WindowEarnedNext DEF IndInv
<1> QED
  BY <1>1, <1>2, Invariance, PTL DEF Spec
=============================================================================
