---------------------------- MODULE RtpSessionProofs ----------------------------
(***************************************************************************)
(* A run of the two programs is a transfer of RtpTransfer, for every       *)
(* number of packets, of retries and every garbage seq_base. Its safety    *)
(* then follows from that of the transfer, instead of being proved again.  *)
(***************************************************************************)
EXTENDS RtpSession, SeqNumProofs

\* The theorems on RtpTransfer, of the transfer within the session.
TP == INSTANCE RtpRefinementProofs WITH
  s_pc       <- SenderPlace,
  r_pc       <- ReceiverPlace,
  r_seq_base <- CountsFrom,
  r_seq_num  <- ReceiverSeqNum,
  recv_base  <- NextExpected

\* What the constants say of the numbers.
LEMMA SessionNumbers ==
  /\ SeqMod \in Nat /\ SeqMod > 1 /\ MaxRetry \in Nat
  /\ Seq32 \subseteq Nat /\ InitialSeqs \subseteq Seq32
BY SeqModAssumption, MaxRetryAssumption, InitialSeqsAssumption DEF Seq32

\* Both modules compute with the same sequence numbers.
LEMMA SameNumbers ==
  /\ Handshake!Seq32 = Seq32
  /\ \A n, b : Handshake!Seq32to64(n, b) = Seq32to64(n, b)
  /\ \A n : Handshake!Seq64to32(n) = Seq64to32(n)
  /\ \A n : Handshake!IncSeq32(n) = Seq64to32(n + 1)
BY DEF Handshake!Seq32, Seq32, Handshake!Seq32to64, Seq32to64,
       Handshake!Seq64to32, Seq64to32, Handshake!IncSeq32

\* Converting x twice is converting it once.
LEMMA ConvertedTwice ==
  ASSUME NEW g \in Nat, NEW x \in Seq32
  PROVE  /\ Seq32to64(g, x) \in Nat
         /\ Seq32to64(Seq32to64(g, x), x) = Seq32to64(g, x)
BY SessionNumbers DEF Seq32to64

-----------------------------------------------------------------------------
(* The invariant of the session.                                           *)

LEMMA SessionBegins == SessionInit => SessionInv
<1> SUFFICES ASSUME SessionInit
             PROVE  SessionInv
  OBVIOUS
<1> USE DEF SessionInit, Handshake!Init
<1>1. s_seq_base \in InitialSeqs /\ s_seq_base \in Seq32
  BY SessionNumbers
<1>2. Handshake!Header("SYN", s_seq_base) \in Handshake!ToReceiver
  BY <1>1, SameNumbers DEF Handshake!Header, Handshake!ToReceiver
<1>3. r_seq_base \in Nat
  BY GarbageBasesAssumption
<1>4. HandshakeTypes
  BY <1>1, <1>2, <1>3, SessionNumbers
     DEF HandshakeTypes, Handshake!SenderPcs, Handshake!ReceiverPcs
<1>5. s_pc \in {"fill", "wait", "sent"}
  BY DEF LoopPc
<1>6. SenderWaits /\ ReceiverWaits
  BY <1>5 DEF SenderWaits, ReceiverWaits
<1>7. \A m \in c2w : m.flags = "SYN" => m.seq = s_seq_base
  BY DEF Handshake!Header
<1> QED
  BY <1>4, <1>6, <1>7 DEF SessionInv

\* connect: it is the sender of x, and the transfer has not begun.
LEMMA ConnectKeeps ==
  ASSUME SessionInv,
         \/ Connecting(Handshake!SynTimeout)
         \/ \E m \in w2c : Connecting(Handshake!RecvSynAck(m))
         \/ Connecting(Handshake!ConnectReturns)
         \/ Connecting(Handshake!ConnectFails)
  PROVE  SessionInv'
<1> USE DEF SessionInv, Connecting, transferVars, Handshake!receiverVars
<1>1. /\ Handshake!Header("SYN", s_seq_base) \in Handshake!ToReceiver
      /\ Handshake!Header("ACK", Handshake!IncSeq32(s_seq_base))
           \in Handshake!ToReceiver
  <2>1. s_seq_base \in Seq32 /\ s_seq_base \in Nat
    BY SessionNumbers DEF HandshakeTypes
  <2>2. Seq64to32(s_seq_base + 1) \in Seq32
    BY <2>1, HeaderNumberFits
  <2> QED
    BY <2>1, <2>2, SameNumbers DEF Handshake!Header, Handshake!ToReceiver
<1>2. CASE Connecting(Handshake!SynTimeout)
  BY <1>1, <1>2, SessionNumbers
     DEF Handshake!SynTimeout, HandshakeTypes, SenderWaits, ReceiverWaits,
         Handshake!SenderPcs, Handshake!Header
<1>3. ASSUME NEW m \in w2c, Connecting(Handshake!RecvSynAck(m))
      PROVE  SessionInv'
  BY <1>1, <1>3
     DEF Handshake!RecvSynAck, HandshakeTypes, SenderWaits, ReceiverWaits,
         Handshake!SenderPcs, Handshake!Header
<1>4. CASE Connecting(Handshake!ConnectReturns)
  BY <1>4 DEF Handshake!ConnectReturns, HandshakeTypes, SenderWaits,
              ReceiverWaits, Handshake!SenderPcs
<1>5. CASE Connecting(Handshake!ConnectFails)
  BY <1>5 DEF Handshake!ConnectFails, Handshake!SenderReturned, HandshakeTypes,
              SenderWaits, ReceiverWaits, Handshake!SenderPcs
<1> QED
  BY <1>2, <1>3, <1>4, <1>5

\* wait_connect: the first SYN settles the numbers.
LEMMA WaitConnectKeeps ==
  ASSUME SessionInv,
         \/ \E m \in c2w : Connecting(Handshake!RecvSyn(m)) \/ Accept(m)
         \/ Connecting(Handshake!SynAckTimeout)
         \/ Connecting(Handshake!WaitConnectFails)
  PROVE  SessionInv'
<1> USE DEF SessionInv, Connecting, transferVars, Handshake!senderVars
<1>1. s_seq_base \in Seq32 /\ r_seq_base \in Nat
  BY SessionNumbers DEF HandshakeTypes
<1>2. ASSUME NEW n \in Nat
      PROVE  Handshake!Header("SYN|ACK", Seq64to32(n)) \in Handshake!ToSender
  BY HeaderNumberFits, SameNumbers DEF Handshake!Header, Handshake!ToSender
<1>3. ASSUME NEW m \in c2w, Connecting(Handshake!RecvSyn(m))
      PROVE  SessionInv'
  <2>1. m.seq = s_seq_base /\ fin_received' = fin_received
    BY <1>3 DEF Handshake!RecvSyn
  <2>2. r_seq_base' = Seq32to64(r_seq_base, s_seq_base) /\ r_seq_num' = r_seq_base'
        /\ r_seq_base' \in Nat
    BY <1>1, <1>3, <2>1, SameNumbers, ConvertedTwice DEF Handshake!RecvSyn
  <2>3. w2c' \subseteq Handshake!ToSender
    <3>1. s_seq_base + 1 \in Nat
      BY <1>1, SessionNumbers
    <3> QED
      BY <1>2, <1>3, <2>1, <3>1, SameNumbers
         DEF Handshake!RecvSyn, Handshake!SendSynAck, HandshakeTypes
  <2> QED
    BY <1>3, <2>2, <2>3
       DEF Handshake!RecvSyn, HandshakeTypes, SenderWaits, ReceiverWaits,
           Handshake!ReceiverPcs
<1>4. ASSUME NEW m \in c2w, Accept(m)
      PROVE  SessionInv'
  BY <1>4 DEF Accept, Handshake!RecvAck, HandshakeTypes, SenderWaits,
              ReceiverWaits, Handshake!ReceiverPcs
<1>5. CASE Connecting(Handshake!SynAckTimeout)
  <2>1. r_seq_num \in Nat
    BY <1>5 DEF Handshake!SynAckTimeout, ReceiverWaits
  <2>2. Seq64to32(r_seq_num) \in Nat
    BY <2>1, HeaderNumberFits, SessionNumbers
  <2>3. w2c' \subseteq Handshake!ToSender
    BY <1>2, <1>5, <2>2, SameNumbers
       DEF Handshake!SynAckTimeout, Handshake!SendSynAck, Handshake!Accepted,
           HandshakeTypes
  <2> QED
    BY <1>5, <2>3 DEF Handshake!SynAckTimeout, Handshake!receiverVars,
                      HandshakeTypes, SenderWaits, ReceiverWaits
<1>6. CASE Connecting(Handshake!WaitConnectFails)
  BY <1>6 DEF Handshake!WaitConnectFails, Handshake!ReceiverReturned,
              HandshakeTypes, SenderWaits, ReceiverWaits, Handshake!ReceiverPcs
<1> QED
  BY <1>3, <1>4, <1>5, <1>6

\* The transfer, once both sides are there, and what the network loses.
LEMMA TransferKeeps ==
  ASSUME SessionInv,
         \/ BySender(Sender)
         \/ ByReceiver(Receiver)
         \/ \E m \in s2r : EarlyFin(m)
         \/ Connecting(Handshake!Lose)
         \/ Lose /\ UNCHANGED handshakeVars
         \/ UNCHANGED sessionVars
  PROVE  SessionInv'
<1> USE DEF SessionInv, HandshakeTypes, SenderWaits, ReceiverWaits
<1>1. CASE BySender(Sender)
  <2>1. c_pc = "connected" /\ UNCHANGED <<c_pc, retry, w_pc, peer, c2w, w2c>>
    BY <1>1 DEF BySender, handshakeVars
  <2>2. UNCHANGED <<s_seq_base, r_pc, r_seq_base, r_seq_num, recv_base, fin_received>>
    BY <1>1 DEF BySender, Sender, SendNext, RetransmitWindow, SendTimesOut,
                NewAck, DuplicateAck, RecvFinAck, SendFin, ResendFin, CloseFails,
                SenderDies, senderVars, receiverVars
  <2> QED
    BY <2>1, <2>2
<1>2. CASE ByReceiver(Receiver)
  <2>1. w_pc = "connected" /\ UNCHANGED <<c_pc, retry, w_pc, peer, c2w, w2c>>
    BY <1>2 DEF ByReceiver, handshakeVars
  <2>2. UNCHANGED <<s_pc, s_seq_base, r_seq_base, s2r>>
    BY <1>2 DEF ByReceiver, Receiver, RecvDat, RecvFin, AllReceived, RecvTimesOut,
                WriteFile, WaitClose, ReceiverDies, senderVars, receiverVars
  <2>3. s2r = {} => fin_received' = fin_received
    BY <1>2 DEF ByReceiver, Receiver, RecvDat, RecvFin, AllReceived, RecvTimesOut,
                WriteFile, WaitClose, ReceiverDies, senderVars, receiverVars
  <2> QED
    BY <2>1, <2>2, <2>3
<1>3. ASSUME NEW m \in s2r, EarlyFin(m)
      PROVE  SessionInv'
  BY <1>3 DEF EarlyFin, RecvFin, handshakeVars, senderVars
<1>4. CASE Connecting(Handshake!Lose)
  BY <1>4 DEF Connecting, Handshake!Lose, transferVars, Handshake!senderVars,
              Handshake!receiverVars
<1>5. CASE Lose /\ UNCHANGED handshakeVars
  BY <1>5 DEF Lose, handshakeVars, senderVars, receiverVars
<1>6. CASE UNCHANGED sessionVars
  BY <1>6 DEF sessionVars, vars, handshakeVars, senderVars, receiverVars
<1> QED
  BY <1>1, <1>2, <1>3, <1>4, <1>5, <1>6

LEMMA SessionKeeps ==
  ASSUME SessionInv, [SessionNext]_sessionVars
  PROVE  SessionInv'
BY ConnectKeeps, WaitConnectKeeps, TransferKeeps
   DEF SessionNext, SessionTerminated

\* The invariant holds in every run of the two programs.
THEOREM SessionInvariance == SessionSpec => []SessionInv
<1>1. SessionInit => SessionInv
  BY SessionBegins
<1>2. SessionInv /\ [SessionNext]_sessionVars => SessionInv'
  BY SessionKeeps
<1> QED
  BY <1>1, <1>2, PTL DEF SessionSpec

-----------------------------------------------------------------------------
(* The refinement. What of the transfer within the session is left alone   *)
(* by a step of one side or of the handshake.                              *)

\* Both sides are connected: the mapping changes nothing.
LEMMA SenderIsThere ==
  ASSUME c_pc = "connected", c_pc' = c_pc
  PROVE  SenderPlace = s_pc /\ SenderPlace' = s_pc'
BY DEF SenderPlace

LEMMA ReceiverIsThere ==
  ASSUME SessionInv, w_pc = "connected", UNCHANGED <<w_pc, peer>>
  PROVE  /\ ReceiverPlace = r_pc /\ ReceiverPlace' = r_pc'
         /\ CountsFrom = r_seq_base /\ CountsFrom' = r_seq_base'
         /\ ReceiverSeqNum = r_seq_num /\ ReceiverSeqNum' = r_seq_num'
         /\ NextExpected = recv_base /\ NextExpected' = recv_base'
BY DEF SessionInv, ReceiverWaits, ReceiverPlace, CountsFrom, ReceiverSeqNum,
       NextExpected

\* Nothing of what the mapping turns on changes at the sender, or the receiver.
LEMMA SenderRests ==
  ASSUME UNCHANGED <<c_pc, s_pc>>
  PROVE  UNCHANGED SenderPlace
BY DEF SenderPlace

LEMMA ReceiverRests ==
  ASSUME UNCHANGED <<w_pc, peer, s_seq_base, r_pc, r_seq_base, r_seq_num, recv_base>>
  PROVE  UNCHANGED <<ReceiverPlace, CountsFrom, ReceiverSeqNum, NextExpected>>
BY DEF ReceiverPlace, CountsFrom, ReceiverSeqNum, NextExpected

LEMMA SessionInitRefines ==
  ASSUME SessionInit
  PROVE  TP!Init
<1>1. /\ SenderPlace = s_pc /\ ReceiverPlace = r_pc
      /\ CountsFrom = Seq32to64(r_seq_base, s_seq_base)
      /\ ReceiverSeqNum = CountsFrom /\ NextExpected = CountsFrom + 1
  BY DEF SessionInit, Handshake!Init, SenderPlace, ReceiverPlace, CountsFrom,
         ReceiverSeqNum, NextExpected
<1>2. s_seq_base \in Seq32 /\ r_seq_base \in Nat /\ r_seq_base \in GarbageBases
  BY SessionNumbers, GarbageBasesAssumption DEF SessionInit, Handshake!Init
<1>3. Seq32to64(CountsFrom, s_seq_base) = CountsFrom
  BY <1>1, <1>2, ConvertedTwice
<1> QED
  BY <1>1, <1>2, <1>3
     DEF SessionInit, Handshake!Init, TP!Init, TP!Seq32to64, Seq32to64, TP!LoopPc,
         LoopPc, TP!WindowAdmits, WindowAdmits, TP!InitialCc, InitialCc

\* send_file and close.
LEMMA BySenderRefines ==
  ASSUME SessionInv, BySender(Sender)
  PROVE  TP!Sender
<1>1. SenderPlace = s_pc /\ SenderPlace' = s_pc'
  BY SenderIsThere DEF BySender, handshakeVars
<1>2. UNCHANGED receiverVars /\ s_seq_base' = s_seq_base
  BY DEF BySender, Sender, SendNext, RetransmitWindow, SendTimesOut, NewAck,
         DuplicateAck, RecvFinAck, SendFin, ResendFin, CloseFails, SenderDies,
         senderVars
<1>3. UNCHANGED <<ReceiverPlace, CountsFrom, ReceiverSeqNum, NextExpected>>
  BY <1>2, ReceiverRests DEF BySender, handshakeVars, receiverVars
<1>4. UNCHANGED TP!receiverVars
  BY <1>2, <1>3 DEF receiverVars, TP!receiverVars
<1> USE DEF BySender, senderVars, TP!senderVars, LoopPc, TP!LoopPc, WindowAdmits,
            TP!WindowAdmits, DataPacket, TP!DataPacket, Header, TP!Header,
            Seq64to32, TP!Seq64to32, Seq32to64, TP!Seq32to64
<1>5. CASE SendNext
  <2>1. TP!SendNext
    BY <1>1, <1>4, <1>5 DEF SendNext, TP!SendNext
  <2> QED
    BY <2>1 DEF TP!Sender
<1>6. CASE RetransmitWindow
  <2>1. TP!RetransmitWindow
    BY <1>1, <1>4, <1>6
       DEF RetransmitWindow, TP!RetransmitWindow, Outstanding, TP!Outstanding,
           OnTimeout, TP!OnTimeout, HalvedWindow, TP!HalvedWindow
  <2> QED
    BY <2>1 DEF TP!Sender
<1>7. CASE SendTimesOut \/ SendFin \/ ResendFin \/ CloseFails \/ SenderDies
  <2>1. TP!SendTimesOut \/ TP!SendFin \/ TP!ResendFin \/ TP!CloseFails \/ TP!SenderDies
    BY <1>1, <1>4, <1>7
       DEF SendTimesOut, TP!SendTimesOut, SendFin, TP!SendFin, ResendFin,
           TP!ResendFin, CloseFails, TP!CloseFails, SenderDies, TP!SenderDies,
           SenderDone, TP!SenderDone, FinNumber, TP!FinNumber
  <2> QED
    BY <2>1 DEF TP!Sender
<1>8. ASSUME NEW m \in r2s, NewAck(m)
      PROVE  TP!Sender
  <2>1. TP!NewAck(m)
    BY <1>1, <1>4, <1>8
       DEF NewAck, TP!NewAck, OnNewAck, TP!OnNewAck, GrownWindow, TP!GrownWindow
  <2> QED
    BY <2>1 DEF TP!Sender
<1>9. ASSUME NEW m \in r2s, DuplicateAck(m)
      PROVE  TP!Sender
  <2>1. TP!DuplicateAck(m)
    BY <1>1, <1>4, <1>9
       DEF DuplicateAck, TP!DuplicateAck, OnDuplicateAck, TP!OnDuplicateAck,
           FastRetransmits, TP!FastRetransmits, DuplicateCount, TP!DuplicateCount,
           HalvedWindow, TP!HalvedWindow
  <2> QED
    BY <2>1 DEF TP!Sender
<1>10. ASSUME NEW m \in r2s, RecvFinAck(m)
       PROVE  TP!Sender
  <2>1. TP!RecvFinAck(m)
    BY <1>1, <1>4, <1>10 DEF RecvFinAck, TP!RecvFinAck
  <2> QED
    BY <2>1 DEF TP!Sender
<1> QED
  BY <1>5, <1>6, <1>7, <1>8, <1>9, <1>10 DEF Sender

\* recv_file and wait_close.
LEMMA ByReceiverRefines ==
  ASSUME SessionInv, ByReceiver(Receiver)
  PROVE  TP!Receiver
<1>1. /\ ReceiverPlace = r_pc /\ ReceiverPlace' = r_pc'
      /\ CountsFrom = r_seq_base /\ CountsFrom' = r_seq_base'
      /\ ReceiverSeqNum = r_seq_num /\ ReceiverSeqNum' = r_seq_num'
      /\ NextExpected = recv_base /\ NextExpected' = recv_base'
  BY ReceiverIsThere DEF ByReceiver, handshakeVars
<1>2. UNCHANGED senderVars
  BY DEF ByReceiver, Receiver, RecvDat, RecvFin, AllReceived, RecvTimesOut,
         WriteFile, WaitClose, ReceiverDies
<1>3. UNCHANGED TP!senderVars
  BY <1>2, SenderRests DEF ByReceiver, handshakeVars, senderVars, TP!senderVars
<1> USE DEF ByReceiver, receiverVars, TP!receiverVars, Header, TP!Header,
            Seq64to32, TP!Seq64to32, Seq32to64, TP!Seq32to64
<1>4. ASSUME NEW m \in s2r, RecvDat(m)
      PROVE  TP!Receiver
  <2>1. TP!RecvDat(m)
    BY <1>1, <1>3, <1>4
       DEF RecvDat, TP!RecvDat, Store, TP!Store, FirstMissing, TP!FirstMissing,
           CumulativeAck, TP!CumulativeAck
  <2> QED
    BY <2>1 DEF TP!Receiver
<1>5. ASSUME NEW m \in s2r, RecvFin(m)
      PROVE  TP!Receiver
  <2>1. TP!RecvFin(m)
    BY <1>1, <1>3, <1>5 DEF RecvFin, TP!RecvFin
  <2> QED
    BY <2>1 DEF TP!Receiver
<1>6. CASE AllReceived \/ RecvTimesOut \/ WaitClose \/ ReceiverDies
  <2>1. TP!AllReceived \/ TP!RecvTimesOut \/ TP!WaitClose \/ TP!ReceiverDies
    BY <1>1, <1>3, <1>6
       DEF AllReceived, TP!AllReceived, RecvTimesOut, TP!RecvTimesOut, WaitClose,
           TP!WaitClose, ReceiverDies, TP!ReceiverDies, ReceiverDone,
           TP!ReceiverDone
  <2> QED
    BY <2>1 DEF TP!Receiver
<1>7. CASE WriteFile
  <2>1. \A S : TP!Cardinality(S) = Cardinality(S)
    BY DEF Cardinality, TP!Cardinality
  <2>2. TP!FileOf(data_map) = FileOf(data_map)
    BY DEF FileOf, TP!FileOf, Cardinality, TP!Cardinality
  <2>3. TP!WriteFile
    BY <1>1, <1>3, <1>7, <2>1, <2>2 DEF WriteFile, TP!WriteFile
  <2> QED
    BY <2>3 DEF TP!Receiver
<1> QED
  BY <1>4, <1>5, <1>6, <1>7 DEF Receiver

\* connect: nothing happens to the transfer, or its sender is gone.
LEMMA ConnectRefines ==
  ASSUME SessionInv,
         \/ Connecting(Handshake!SynTimeout)
         \/ \E m \in w2c : Connecting(Handshake!RecvSynAck(m))
         \/ Connecting(Handshake!ConnectReturns)
         \/ Connecting(Handshake!ConnectFails)
  PROVE  TP!SenderDies \/ UNCHANGED TP!vars
<1>1. /\ UNCHANGED <<transferVars, s_seq_base, recv_base, w_pc, peer, r_seq_base,
                     r_seq_num>>
      /\ c_pc \in {"calling", "lingering"}
      /\ c_pc' \in {"calling", "lingering", "connected", "refused", "failed"}
  BY DEF Connecting, Handshake!SynTimeout, Handshake!RecvSynAck,
         Handshake!ConnectReturns, Handshake!ConnectFails,
         Handshake!SenderReturned, Handshake!receiverVars, SessionInv,
         HandshakeTypes, Handshake!SenderPcs
<1>2. UNCHANGED <<ReceiverPlace, CountsFrom, ReceiverSeqNum, NextExpected>>
  BY <1>1, ReceiverRests DEF transferVars
<1>3. SenderPlace = s_pc /\ SenderPlace \in {"fill", "wait", "sent"}
  BY <1>1 DEF SenderPlace, SessionInv, SenderWaits
<1>4. CASE c_pc' \in {"refused", "failed"}
  <2>1. SenderPlace' = "killed"
    BY <1>4 DEF SenderPlace
  <2> QED
    BY <1>1, <1>2, <1>3, <2>1
       DEF TP!SenderDies, TP!SenderDone, TP!receiverVars, transferVars
<1>5. CASE c_pc' \notin {"refused", "failed"}
  <2>1. SenderPlace' = SenderPlace
    BY <1>1, <1>3, <1>5 DEF SenderPlace, transferVars
  <2> QED
    BY <1>1, <1>2, <2>1
       DEF TP!vars, TP!senderVars, TP!receiverVars, transferVars
<1> QED
  BY <1>4, <1>5

\* wait_connect: the transfer has counted from the accepted number all along, and
\* recv_file begins where it stands, or its receiver is gone.
LEMMA WaitConnectRefines ==
  ASSUME SessionInv,
         \/ \E m \in c2w : Connecting(Handshake!RecvSyn(m)) \/ Accept(m)
         \/ Connecting(Handshake!SynAckTimeout)
         \/ Connecting(Handshake!WaitConnectFails)
  PROVE  TP!ReceiverDies \/ UNCHANGED TP!vars
<1>1. /\ UNCHANGED <<transferVars, s_seq_base, c_pc>>
      /\ w_pc \in {"listening", "answering"} /\ r_pc = "recv"
  BY DEF Connecting, Accept, Handshake!RecvSyn, Handshake!RecvAck,
         Handshake!SynAckTimeout, Handshake!WaitConnectFails,
         Handshake!ReceiverReturned, Handshake!senderVars, SessionInv,
         HandshakeTypes, Handshake!ReceiverPcs, ReceiverWaits
<1>2. UNCHANGED SenderPlace
  BY <1>1, SenderRests DEF transferVars
<1>3. ASSUME UNCHANGED <<ReceiverPlace, CountsFrom, ReceiverSeqNum, NextExpected>>
      PROVE  UNCHANGED TP!vars
  BY <1>1, <1>2, <1>3 DEF TP!vars, TP!senderVars, TP!receiverVars, transferVars
<1>4. ASSUME NEW m \in c2w, Connecting(Handshake!RecvSyn(m))
      PROVE  UNCHANGED TP!vars
  <2>1. peer = "none" /\ peer' # "none" /\ w_pc = "listening" /\ w_pc' = "answering"
        /\ m.seq = s_seq_base
    BY <1>4 DEF Connecting, Handshake!RecvSyn, SessionInv, ReceiverWaits
  <2>2. s_seq_base \in Seq32 /\ r_seq_base \in Nat
    BY SessionNumbers DEF SessionInv, HandshakeTypes
  <2>3. /\ r_seq_base' = Seq32to64(r_seq_base, s_seq_base)
        /\ r_seq_num' = r_seq_base'
    BY <1>4, <2>1, <2>2, SameNumbers, ConvertedTwice
       DEF Connecting, Handshake!RecvSyn
  <2>4. CountsFrom' = CountsFrom /\ ReceiverSeqNum' = ReceiverSeqNum
    BY <2>1, <2>3 DEF CountsFrom, ReceiverSeqNum
  <2>5. ReceiverPlace' = ReceiverPlace /\ NextExpected' = NextExpected
    BY <1>1, <2>1, <2>4 DEF ReceiverPlace, NextExpected, transferVars
  <2> QED
    BY <1>3, <2>4, <2>5
<1>5. ASSUME NEW m \in c2w, Accept(m)
      PROVE  UNCHANGED TP!vars
  <2>1. /\ w_pc = "answering" /\ w_pc' = "connected" /\ recv_base' = r_seq_num + 1
        /\ UNCHANGED <<peer, r_seq_base, r_seq_num>>
    BY <1>5 DEF Accept, Handshake!RecvAck
  <2>2. peer # "none" /\ r_seq_num = r_seq_base
    BY <2>1 DEF SessionInv, ReceiverWaits
  <2> QED
    BY <1>1, <1>3, <2>1, <2>2
       DEF ReceiverPlace, CountsFrom, ReceiverSeqNum, NextExpected, transferVars
<1>6. CASE Connecting(Handshake!SynAckTimeout)
  BY <1>3, <1>6, ReceiverRests
     DEF Connecting, Handshake!SynAckTimeout, Handshake!receiverVars, transferVars
<1>7. CASE Connecting(Handshake!WaitConnectFails)
  <2>1. w_pc' = "failed" /\ UNCHANGED <<peer, r_seq_base, r_seq_num, recv_base>>
    BY <1>7 DEF Connecting, Handshake!WaitConnectFails
  <2>2. ReceiverPlace = "recv" /\ ReceiverPlace' = "killed"
    BY <1>1, <2>1 DEF ReceiverPlace
  <2>3. UNCHANGED <<CountsFrom, ReceiverSeqNum, NextExpected>>
    BY <1>1, <2>1 DEF CountsFrom, ReceiverSeqNum, NextExpected
  <2> QED
    BY <1>1, <1>2, <2>2, <2>3
       DEF TP!ReceiverDies, TP!ReceiverDone, TP!senderVars, transferVars
<1> QED
  BY <1>4, <1>5, <1>6, <1>7

\* recv_packet sees a FIN for wait_connect: a RecvFin that comes early.
LEMMA EarlyFinRefines ==
  ASSUME SessionInv, NEW m \in s2r, EarlyFin(m)
  PROVE  TP!RecvFin(m)
<1>1. w_pc = "answering" /\ peer # "none" /\ r_pc = "recv"
  BY DEF EarlyFin, SessionInv, ReceiverWaits
<1>2. /\ UNCHANGED <<c_pc, w_pc, peer, r_pc, r_seq_base, r_seq_num, recv_base>>
      /\ UNCHANGED senderVars
  BY DEF EarlyFin, RecvFin, handshakeVars
<1>3. UNCHANGED <<SenderPlace, ReceiverPlace, CountsFrom, ReceiverSeqNum, NextExpected>>
  BY <1>2, SenderRests, ReceiverRests DEF senderVars
<1>4. ReceiverPlace = "recv" /\ CountsFrom = r_seq_base
  BY <1>1 DEF ReceiverPlace, CountsFrom
<1> QED
  BY <1>2, <1>3, <1>4
     DEF EarlyFin, RecvFin, TP!RecvFin, senderVars, TP!senderVars, Seq32to64,
         TP!Seq32to64

\* The network loses a datagram of the handshake or of the transfer.
LEMMA LossRefines ==
  ASSUME \/ Connecting(Handshake!Lose)
         \/ Lose /\ UNCHANGED handshakeVars
         \/ UNCHANGED sessionVars
  PROVE  TP!Lose \/ UNCHANGED TP!vars
<1>1. UNCHANGED <<senderVars, receiverVars, c_pc, w_pc, peer>>
  BY DEF Connecting, Handshake!Lose, Handshake!senderVars, Handshake!receiverVars,
         transferVars, Lose, senderVars, receiverVars, sessionVars, vars, handshakeVars
<1>2. UNCHANGED <<SenderPlace, ReceiverPlace, CountsFrom, ReceiverSeqNum, NextExpected>>
  BY <1>1, SenderRests, ReceiverRests DEF senderVars, receiverVars
<1>3. UNCHANGED <<TP!senderVars, TP!receiverVars>>
  BY <1>1, <1>2 DEF senderVars, receiverVars, TP!senderVars, TP!receiverVars
<1>4. CASE Lose /\ UNCHANGED handshakeVars
  BY <1>3, <1>4 DEF Lose, TP!Lose
<1>5. CASE Connecting(Handshake!Lose) \/ UNCHANGED sessionVars
  <2>1. UNCHANGED <<s2r, r2s>>
    BY <1>5 DEF Connecting, transferVars, sessionVars, vars
  <2> QED
    BY <1>3, <2>1 DEF TP!vars
<1> QED
  BY <1>4, <1>5

LEMMA SessionNextRefines ==
  ASSUME SessionInv, [SessionNext]_sessionVars
  PROVE  [TP!Next]_(TP!vars)
<1>1. CASE \/ Connecting(Handshake!SynTimeout)
           \/ \E m \in w2c : Connecting(Handshake!RecvSynAck(m))
           \/ Connecting(Handshake!ConnectReturns)
           \/ Connecting(Handshake!ConnectFails)
  BY <1>1, ConnectRefines DEF TP!Next, TP!Sender
<1>2. CASE \/ \E m \in c2w : Connecting(Handshake!RecvSyn(m)) \/ Accept(m)
           \/ Connecting(Handshake!SynAckTimeout)
           \/ Connecting(Handshake!WaitConnectFails)
  BY <1>2, WaitConnectRefines DEF TP!Next, TP!Receiver
<1>3. CASE BySender(Sender)
  BY <1>3, BySenderRefines DEF TP!Next
<1>4. CASE ByReceiver(Receiver)
  BY <1>4, ByReceiverRefines DEF TP!Next
<1>5. ASSUME NEW m \in s2r, EarlyFin(m)
      PROVE  TP!Next
  BY <1>5, EarlyFinRefines DEF TP!Next, TP!Receiver
<1>6. CASE \/ Connecting(Handshake!Lose)
           \/ Lose /\ UNCHANGED handshakeVars
           \/ UNCHANGED sessionVars
  BY <1>6, LossRefines DEF TP!Next
<1> QED
  BY <1>1, <1>2, <1>3, <1>4, <1>5, <1>6 DEF SessionNext, SessionTerminated

-----------------------------------------------------------------------------
(* The theorems.                                                           *)

\* RtpTransferProofs speaks of the same transfer as RtpSession.
LEMMA SameTransfer ==
  /\ TP!Init <=> Transfer!Init
  /\ UNCHANGED TP!vars <=> UNCHANGED Transfer!vars
  /\ TP!Next <=> Transfer!Next
<1>1. TP!Init <=> Transfer!Init
  BY
     DEF TP!Init, Transfer!Init, TP!Seq32to64, Transfer!Seq32to64,
         TP!LoopPc, Transfer!LoopPc, TP!WindowAdmits,
         Transfer!WindowAdmits, TP!InitialCc, Transfer!InitialCc
<1>2. UNCHANGED TP!vars <=> UNCHANGED Transfer!vars
  BY
     DEF TP!vars, Transfer!vars, TP!senderVars,
         Transfer!senderVars, TP!receiverVars,
         Transfer!receiverVars
<1>3. TP!Sender <=> Transfer!Sender
  BY
     DEF TP!Sender, Transfer!Sender, TP!SendNext,
         Transfer!SendNext, TP!RetransmitWindow,
         Transfer!RetransmitWindow, TP!SendTimesOut,
         Transfer!SendTimesOut, TP!NewAck, Transfer!NewAck,
         TP!DuplicateAck, Transfer!DuplicateAck, TP!RecvFinAck,
         Transfer!RecvFinAck, TP!SendFin, Transfer!SendFin,
         TP!ResendFin, Transfer!ResendFin, TP!CloseFails,
         Transfer!CloseFails, TP!SenderDies, Transfer!SenderDies,
         TP!senderVars, Transfer!senderVars, TP!receiverVars,
         Transfer!receiverVars, TP!DataPacket,
         Transfer!DataPacket, TP!Header, Transfer!Header,
         TP!Seq64to32, Transfer!Seq64to32, TP!Seq32to64,
         Transfer!Seq32to64, TP!LoopPc, Transfer!LoopPc,
         TP!WindowAdmits, Transfer!WindowAdmits, TP!Outstanding,
         Transfer!Outstanding, TP!OnTimeout, Transfer!OnTimeout,
         TP!HalvedWindow, Transfer!HalvedWindow, TP!OnNewAck,
         Transfer!OnNewAck, TP!GrownWindow, Transfer!GrownWindow,
         TP!OnDuplicateAck, Transfer!OnDuplicateAck,
         TP!FastRetransmits, Transfer!FastRetransmits,
         TP!DuplicateCount, Transfer!DuplicateCount, TP!FinNumber,
         Transfer!FinNumber, TP!SenderDone, Transfer!SenderDone,
         TP!ReceiverDone, Transfer!ReceiverDone, TP!Store,
         Transfer!Store, TP!FirstMissing, Transfer!FirstMissing,
         TP!CumulativeAck, Transfer!CumulativeAck, TP!FileOf,
         Transfer!FileOf, TP!Cardinality, Transfer!Cardinality
<1>4. TP!Receiver <=> Transfer!Receiver
  BY
     DEF TP!Receiver, Transfer!Receiver, TP!RecvDat,
         Transfer!RecvDat, TP!RecvFin, Transfer!RecvFin,
         TP!AllReceived, Transfer!AllReceived, TP!RecvTimesOut,
         Transfer!RecvTimesOut, TP!WriteFile, Transfer!WriteFile,
         TP!WaitClose, Transfer!WaitClose, TP!ReceiverDies,
         Transfer!ReceiverDies, TP!senderVars,
         Transfer!senderVars, TP!receiverVars,
         Transfer!receiverVars, TP!DataPacket,
         Transfer!DataPacket, TP!Header, Transfer!Header,
         TP!Seq64to32, Transfer!Seq64to32, TP!Seq32to64,
         Transfer!Seq32to64, TP!LoopPc, Transfer!LoopPc,
         TP!WindowAdmits, Transfer!WindowAdmits, TP!Outstanding,
         Transfer!Outstanding, TP!OnTimeout, Transfer!OnTimeout,
         TP!HalvedWindow, Transfer!HalvedWindow, TP!OnNewAck,
         Transfer!OnNewAck, TP!GrownWindow, Transfer!GrownWindow,
         TP!OnDuplicateAck, Transfer!OnDuplicateAck,
         TP!FastRetransmits, Transfer!FastRetransmits,
         TP!DuplicateCount, Transfer!DuplicateCount, TP!FinNumber,
         Transfer!FinNumber, TP!SenderDone, Transfer!SenderDone,
         TP!ReceiverDone, Transfer!ReceiverDone, TP!Store,
         Transfer!Store, TP!FirstMissing, Transfer!FirstMissing,
         TP!CumulativeAck, Transfer!CumulativeAck, TP!FileOf,
         Transfer!FileOf, TP!Cardinality, Transfer!Cardinality
<1>5. (TP!Lose <=> Transfer!Lose) /\ (TP!Terminated <=> Transfer!Terminated)
  BY <1>2
     DEF TP!Lose, Transfer!Lose, TP!Terminated,
         Transfer!Terminated, TP!senderVars, Transfer!senderVars,
         TP!receiverVars, Transfer!receiverVars, TP!SenderDone,
         Transfer!SenderDone, TP!ReceiverDone,
         Transfer!ReceiverDone
<1> QED
  BY <1>1, <1>2, <1>3, <1>4, <1>5 DEF TP!Next, Transfer!Next

\* Every run of the two programs is a transfer.
LEMMA SessionTransfers == SessionSpec => TP!Spec
<1>1. SessionInit => TP!Init
  BY SessionInitRefines
<1>2. SessionInv /\ [SessionNext]_sessionVars => [TP!Next]_(TP!vars)
  BY SessionNextRefines
<1> QED
  BY <1>1, <1>2, SessionInvariance, PTL DEF SessionSpec, TP!Spec

THEOREM SessionRefines == SessionSpec => ImplementsTransfer
<1>1. TP!Init => Transfer!Init
  BY SameTransfer
<1>2. [TP!Next]_(TP!vars) => [Transfer!Next]_(Transfer!vars)
  BY SameTransfer
<1> QED
  BY <1>1, <1>2, SessionTransfers, PTL DEF TP!Spec, ImplementsTransfer, Transfer!Spec

\* The invariant of the transfer holds in every session.
LEMMA TransferInvariance == SessionSpec => []TP!IndInv
<1>1. TP!Spec => []TP!IndInv
  BY TP!Invariance, SeqModAssumption, UnitAssumption, InitialSeqsAssumption,
     FileSizesAssumption, GarbageBasesAssumption DEF TP!Seq32, Seq32
<1> QED
  BY <1>1, SessionTransfers, PTL

\* What it says of the two processes, in the words of the session.
LEMMA WhatTheTransferSays ==
  ASSUME SessionInv, TP!IndInv
  PROVE  /\ total_packets \in Nat /\ Acked \in Nat
         /\ s_pc \in {"closed", "unclosed"} \/ fin_received => Acked = total_packets
         /\ Acked <= NextExpected - CountsFrom - 1
         /\ NextExpected \in Nat /\ CountsFrom \in Nat
         /\ fin_received => fin_seq \in Nat /\ fin_seq <= CountsFrom + total_packets + 1
         /\ r_pc = "closed" =>
              /\ w_pc = "connected" /\ fin_received
              /\ written /\ file = [k \in 1 .. total_packets |-> k]
<1>1. /\ TP!TypeOK /\ TP!WindowInv /\ TP!PlaceInv /\ TP!FinInv
      /\ written => file = [k \in 1 .. total_packets |-> k]
  BY TP!WrittenIsWhole, SeqModAssumption, UnitAssumption, InitialSeqsAssumption,
     FileSizesAssumption, GarbageBasesAssumption
     DEF TP!IndInv, TP!CoreInv, TP!FileIntact, TP!Seq32, Seq32
<1>2. /\ total_packets \in Nat /\ base \in Nat /\ s_seq_base \in Nat
      /\ NextExpected \in Nat /\ CountsFrom \in Nat
  BY <1>1, FileSizesAssumption, SessionNumbers
     DEF TP!TypeOK, TP!SenderTypeOK, TP!ReceiverTypeOK, TP!Seq32, Seq32
<1>3. Acked \in Nat /\ Acked <= NextExpected - CountsFrom - 1
  BY <1>1, <1>2 DEF TP!WindowInv, TP!Acked, TP!Received, Acked
<1>4. /\ s_pc \in {"closed", "unclosed"} => Acked = total_packets
      /\ fin_received => /\ Acked = total_packets
                         /\ fin_seq \in Nat
                         /\ fin_seq <= CountsFrom + total_packets + 1
  BY <1>1 DEF TP!TypeOK, TP!ReceiverTypeOK, TP!WindowInv, TP!FinInv, TP!Acked, Acked,
              SenderPlace, SessionInv, SenderWaits
<1>5. r_pc = "closed" => /\ w_pc = "connected" /\ fin_received
                         /\ written /\ file = [k \in 1 .. total_packets |-> k]
  BY <1>1 DEF TP!PlaceInv, ReceiverPlace, SessionInv, ReceiverWaits
<1> QED
  BY <1>2, <1>3, <1>4, <1>5

\* Nothing is expected of a receiver that is not connected but the first packet.
LEMMA NothingReceived ==
  ASSUME SessionInv, TP!IndInv, w_pc # "connected"
  PROVE  Acked = 0
<1>1. NextExpected = CountsFrom + 1
  BY DEF NextExpected
<1> QED
  BY <1>1, WhatTheTransferSays

\* A FIN that is recorded while wait_connect still waits ends nothing.
THEOREM EarlyFinIsHarmless == SessionSpec => []EarlyFinEndsNothing
<1>1. SessionInv /\ TP!IndInv => EarlyFinEndsNothing
  <2> SUFFICES ASSUME SessionInv, TP!IndInv, fin_received, w_pc # "connected"
               PROVE  total_packets = 0 /\ fin_seq <= r_seq_num + 1
    BY DEF EarlyFinEndsNothing
  <2>1. total_packets = 0 /\ fin_seq <= CountsFrom + 1 /\ CountsFrom \in Nat
    BY WhatTheTransferSays, NothingReceived
  <2>2. CountsFrom = r_seq_num
    BY DEF SessionInv, ReceiverWaits, CountsFrom
  <2> QED
    BY <2>1, <2>2
<1> QED
  BY <1>1, SessionInvariance, TransferInvariance, PTL

\* A sender with a file does not succeed beside a receiver that never connected.
THEOREM HalfOpenNoticed == SessionSpec => []HalfOpenIsNoticed
<1>1. SessionInv /\ TP!IndInv => HalfOpenIsNoticed
  BY WhatTheTransferSays, NothingReceived DEF HalfOpenIsNoticed
<1> QED
  BY <1>1, SessionInvariance, TransferInvariance, PTL

\* Exit status 0 of the receiver: both were connected and the file is whole.
THEOREM ReceiverSuccess == SessionSpec => []ReceiverSuccessMeansFile
<1>1. SessionInv /\ TP!IndInv => ReceiverSuccessMeansFile
  <2> SUFFICES ASSUME SessionInv, TP!IndInv, r_pc = "closed"
               PROVE  /\ c_pc = "connected" /\ Acked = total_packets
                      /\ written /\ file = [k \in 1 .. total_packets |-> k]
    BY DEF ReceiverSuccessMeansFile
  <2>1. /\ fin_received /\ Acked = total_packets
        /\ written /\ file = [k \in 1 .. total_packets |-> k]
    BY WhatTheTransferSays
  <2>2. c_pc = "connected"
    BY <2>1 DEF SessionInv, SenderWaits
  <2> QED
    BY <2>1, <2>2
<1> QED
  BY <1>1, SessionInvariance, TransferInvariance, PTL

\* All members, locals and datagrams keep to their types in both phases.
THEOREM SessionTypeCorrect == SessionSpec => []SessionTypeOK
<1>1. SessionInv /\ TP!IndInv => SessionTypeOK
  <2> SUFFICES ASSUME SessionInv, TP!IndInv
               PROVE  SessionTypeOK
    OBVIOUS
  <2>1. /\ TP!SenderTypeOK /\ TP!ReceiverTypeOK
        /\ s2r \subseteq TP!ToReceiver /\ r2s \subseteq TP!ToSender
    BY DEF TP!IndInv, TP!CoreInv, TP!TypeOK
  <2>2. SenderTypeOK
    <3>1. s_pc \in SenderPcs
      BY <2>1 DEF TP!SenderTypeOK, TP!SenderPcs, SenderPcs, SenderPlace, SessionInv,
                  SenderWaits
    <3> QED
      BY <2>1, <3>1 DEF TP!SenderTypeOK, SenderTypeOK, TP!Seq32, Seq32, TP!CcState,
                        CcState
  <2>3. r_seq_num \in Nat
    BY <2>1 DEF TP!ReceiverTypeOK, ReceiverSeqNum, SessionInv, ReceiverWaits
  <2>4. ReceiverTypeOK
    <3>1. r_pc \in ReceiverPcs
      BY <2>1 DEF TP!ReceiverTypeOK, TP!ReceiverPcs, ReceiverPcs, ReceiverPlace,
                  SessionInv, ReceiverWaits
    <3>2. r_seq_base \in Nat
      BY DEF SessionInv, HandshakeTypes
    <3>3. recv_base \in Nat
      BY <2>1 DEF TP!ReceiverTypeOK, NextExpected, SessionInv, ReceiverWaits
    <3> QED
      BY <2>1, <2>3, <3>1, <3>2, <3>3 DEF TP!ReceiverTypeOK, ReceiverTypeOK
  <2>5. TypeOK
    BY <2>1, <2>2, <2>4
       DEF TypeOK, TP!ToReceiver, ToReceiver, TP!ToSender, ToSender, TP!Seq32, Seq32
  <2>6. Handshake!TypeOK
    BY <2>3 DEF Handshake!TypeOK, SessionInv, HandshakeTypes
  <2> QED
    BY <2>5, <2>6 DEF SessionTypeOK
<1> QED
  BY <1>1, SessionInvariance, TransferInvariance, PTL

-----------------------------------------------------------------------------
(* The handshake within the session.                                       *)

\* The theorems on RtpHandshake, of the handshake within the session.
GP == INSTANCE RtpHandshakeProofs WITH
  x          <- s_seq_base,
  drawn      <- {s_seq_base},
  w_seq_base <- r_seq_base,
  w_seq_num  <- RecordedSeqNum

\* Sequence-number arithmetic is the same in the handshake of every mapping.
LEMMA SameArithmetic ==
  /\ \A n, b : GP!Seq32to64(n, b) = Handshake!Seq32to64(n, b)
  /\ \A n : GP!Seq64to32(n) = Handshake!Seq64to32(n)
  /\ \A n : GP!IncSeq32(n) = Handshake!IncSeq32(n)
  /\ \A f, n : GP!Header(f, n) = Handshake!Header(f, n)
BY DEF GP!Seq32to64, Handshake!Seq32to64, GP!Seq64to32, Handshake!Seq64to32,
       GP!IncSeq32, Handshake!IncSeq32, GP!Header, Handshake!Header

\* What is recorded rests with seq_base once a SYN has been accepted, whatever the
\* transfer makes of seq_num.
LEMMA RecordRests ==
  ASSUME SessionInv, UNCHANGED <<peer, r_seq_base>>,
         peer = "none" => r_seq_num' = r_seq_num
  PROVE  UNCHANGED RecordedSeqNum
BY DEF RecordedSeqNum

\* While the handshake lasts, it is seq_num itself.
LEMMA RecordIsSeqNum ==
  ASSUME SessionInv, w_pc # "connected"
  PROVE  RecordedSeqNum = r_seq_num
BY DEF RecordedSeqNum, SessionInv, ReceiverWaits

LEMMA SessionGreets ==
  ASSUME SessionInit
  PROVE  GP!Init
BY SameArithmetic DEF SessionInit, Handshake!Init, GP!Init, RecordedSeqNum

\* connect takes the steps of RtpHandshake.
LEMMA ConnectGreets ==
  ASSUME SessionInv,
         \/ Connecting(Handshake!SynTimeout)
         \/ \E m \in w2c : Connecting(Handshake!RecvSynAck(m))
         \/ Connecting(Handshake!ConnectReturns)
         \/ Connecting(Handshake!ConnectFails)
  PROVE  GP!Sender
<1>1. UNCHANGED <<s_seq_base, w_pc, peer, r_seq_base, r_seq_num>>
  BY DEF Connecting, Handshake!SynTimeout, Handshake!RecvSynAck,
         Handshake!ConnectReturns, Handshake!ConnectFails, Handshake!receiverVars
<1>2. UNCHANGED RecordedSeqNum
  BY <1>1, RecordRests
<1>3. UNCHANGED GP!receiverVars
  BY <1>1, <1>2 DEF GP!receiverVars
<1>4. CASE Connecting(Handshake!SynTimeout)
  BY <1>1, <1>3, <1>4, SameArithmetic
     DEF Connecting, Handshake!SynTimeout, GP!SynTimeout, GP!Sender
<1>5. ASSUME NEW m \in w2c, Connecting(Handshake!RecvSynAck(m))
      PROVE  GP!Sender
  <2>1. GP!RecvSynAck(m)
    BY <1>1, <1>3, <1>5, SameArithmetic
       DEF Connecting, Handshake!RecvSynAck, GP!RecvSynAck
  <2> QED
    BY <2>1 DEF GP!Sender
<1>6. CASE Connecting(Handshake!ConnectReturns)
  BY <1>1, <1>3, <1>6
     DEF Connecting, Handshake!ConnectReturns, GP!ConnectReturns, GP!Sender
<1>7. CASE Connecting(Handshake!ConnectFails)
  BY <1>1, <1>3, <1>7
     DEF Connecting, Handshake!ConnectFails, Handshake!SenderReturned,
         GP!ConnectFails, GP!SenderReturned, GP!Sender
<1> QED
  BY <1>4, <1>5, <1>6, <1>7

\* wait_connect takes the steps of RtpHandshake. The first SYN makes seq_base and
\* seq_num the same number.
LEMMA WaitConnectGreets ==
  ASSUME SessionInv,
         \/ \E m \in c2w : Connecting(Handshake!RecvSyn(m)) \/ Accept(m)
         \/ Connecting(Handshake!SynAckTimeout)
         \/ Connecting(Handshake!WaitConnectFails)
  PROVE  GP!Receiver
<1>1. w_pc # "connected" /\ RecordedSeqNum = r_seq_num
  BY RecordIsSeqNum
     DEF Connecting, Accept, Handshake!RecvSyn, Handshake!RecvAck,
         Handshake!SynAckTimeout, Handshake!WaitConnectFails,
         Handshake!ReceiverReturned
<1>2. UNCHANGED <<s_seq_base, c_pc, retry>> /\ UNCHANGED GP!senderVars
  BY DEF Connecting, Accept, Handshake!RecvSyn, Handshake!RecvAck,
         Handshake!SynAckTimeout, Handshake!WaitConnectFails,
         Handshake!senderVars, GP!senderVars
<1>3. ASSUME NEW m \in c2w, Connecting(Handshake!RecvSyn(m))
      PROVE  GP!Receiver
  <2>1. m.seq = s_seq_base /\ s_seq_base \in Seq32 /\ r_seq_base \in Nat
    BY <1>3, SessionNumbers
       DEF Connecting, Handshake!RecvSyn, SessionInv, HandshakeTypes
  <2>2. r_seq_num' = r_seq_base' /\ peer' # "none"
    BY <1>3, <2>1, SameNumbers, ConvertedTwice DEF Connecting, Handshake!RecvSyn
  <2>3. RecordedSeqNum' = r_seq_num'
    BY <2>2 DEF RecordedSeqNum
  <2>4. GP!RecvSyn(m)
    BY <1>2, <1>3, <2>3, SameArithmetic
       DEF Connecting, Handshake!RecvSyn, GP!RecvSyn, Handshake!SendSynAck,
           GP!SendSynAck
  <2> QED
    BY <2>4 DEF GP!Receiver
<1>4. ASSUME NEW m \in c2w, Accept(m)
      PROVE  GP!Receiver
  <2>1. UNCHANGED <<peer, r_seq_base, r_seq_num>>
    BY <1>4 DEF Accept, Handshake!RecvAck
  <2>2. UNCHANGED RecordedSeqNum
    BY <2>1, RecordRests
  <2>3. GP!RecvAck(m)
    BY <1>1, <1>2, <1>4, <2>2, SameArithmetic
       DEF Accept, Handshake!RecvAck, GP!RecvAck, Handshake!Accepted, GP!Accepted
  <2> QED
    BY <2>3 DEF GP!Receiver
<1>5. CASE Connecting(Handshake!SynAckTimeout)
  <2>1. UNCHANGED <<w_pc, peer, r_seq_base, r_seq_num>>
    BY <1>5 DEF Connecting, Handshake!SynAckTimeout, Handshake!receiverVars
  <2>2. UNCHANGED GP!receiverVars
    BY <2>1, RecordRests DEF GP!receiverVars
  <2>3. GP!SynAckTimeout
    BY <1>1, <1>2, <1>5, <2>2, SameArithmetic
       DEF Connecting, Handshake!SynAckTimeout, GP!SynAckTimeout,
           Handshake!SendSynAck, GP!SendSynAck, Handshake!Accepted, GP!Accepted
  <2> QED
    BY <2>3 DEF GP!Receiver
<1>6. CASE Connecting(Handshake!WaitConnectFails)
  <2>1. UNCHANGED <<peer, r_seq_base, r_seq_num>>
    BY <1>6 DEF Connecting, Handshake!WaitConnectFails
  <2>2. UNCHANGED RecordedSeqNum
    BY <2>1, RecordRests
  <2>3. GP!WaitConnectFails
    BY <1>2, <1>6, <2>2
       DEF Connecting, Handshake!WaitConnectFails, Handshake!ReceiverReturned,
           GP!WaitConnectFails, GP!ReceiverReturned
  <2> QED
    BY <2>3 DEF GP!Receiver
<1> QED
  BY <1>3, <1>4, <1>5, <1>6

\* Whatever is sent, received or lost in the transfer, the handshake rests.
LEMMA TransferGreets ==
  ASSUME SessionInv,
         \/ BySender(Sender)
         \/ ByReceiver(Receiver)
         \/ \E m \in s2r : EarlyFin(m)
         \/ Connecting(Handshake!Lose)
         \/ Lose /\ UNCHANGED handshakeVars
         \/ UNCHANGED sessionVars
  PROVE  GP!Lose \/ UNCHANGED GP!vars
<1>1. UNCHANGED <<c_pc, retry, w_pc, peer, s_seq_base, r_seq_base>>
  BY DEF BySender, ByReceiver, EarlyFin, Connecting, Handshake!Lose,
         Handshake!senderVars, Handshake!receiverVars, handshakeVars, sessionVars,
         Sender, SendNext, RetransmitWindow, SendTimesOut, NewAck, DuplicateAck,
         RecvFinAck, SendFin, ResendFin, CloseFails, SenderDies, Receiver, RecvDat,
         RecvFin, AllReceived, RecvTimesOut, WriteFile, WaitClose, ReceiverDies,
         Lose, vars, senderVars, receiverVars
<1>2. peer = "none" => r_seq_num' = r_seq_num
  BY DEF SessionInv, ReceiverWaits, BySender, ByReceiver, EarlyFin, Connecting,
         Handshake!Lose, Handshake!receiverVars, sessionVars,
         Sender, SendNext, RetransmitWindow, SendTimesOut, NewAck, DuplicateAck,
         RecvFinAck, SendFin, ResendFin, CloseFails, SenderDies,
         RecvFin, Lose, vars, receiverVars
<1>3. UNCHANGED <<GP!senderVars, GP!receiverVars>>
  BY <1>1, <1>2, RecordRests DEF GP!senderVars, GP!receiverVars
<1>4. CASE Connecting(Handshake!Lose)
  BY <1>3, <1>4 DEF Connecting, Handshake!Lose, GP!Lose
<1>5. CASE UNCHANGED <<c2w, w2c>>
  BY <1>3, <1>5 DEF GP!vars
<1>6. Connecting(Handshake!Lose) \/ UNCHANGED <<c2w, w2c>>
  BY DEF BySender, ByReceiver, EarlyFin, handshakeVars, sessionVars
<1> QED
  BY <1>4, <1>5, <1>6

\* Every run of the two programs is a handshake.
LEMMA SessionShakesHands == SessionSpec => GP!Spec
<1>1. SessionInit => GP!Init
  BY SessionGreets
<1>2. SessionInv /\ [SessionNext]_sessionVars => [GP!Next]_(GP!vars)
  BY ConnectGreets, WaitConnectGreets, TransferGreets
     DEF SessionNext, SessionTerminated, GP!Next
<1> QED
  BY <1>1, <1>2, SessionInvariance, PTL DEF SessionSpec, GP!Spec

\* RtpHandshakeProofs speaks of the same handshake as RtpSession.
LEMMA SameHandshake ==
  /\ GP!Init <=> Greeting!Init
  /\ UNCHANGED GP!vars <=> UNCHANGED Greeting!vars
  /\ GP!Next <=> Greeting!Next
<1> USE DEF GP!Seq32to64, Greeting!Seq32to64, GP!Seq64to32, Greeting!Seq64to32,
            GP!IncSeq32, Greeting!IncSeq32, GP!Header, Greeting!Header,
            GP!senderVars, Greeting!senderVars, GP!receiverVars,
            Greeting!receiverVars, GP!vars, Greeting!vars, GP!SenderReturned,
            Greeting!SenderReturned, GP!ReceiverReturned,
            Greeting!ReceiverReturned, GP!Accepted, Greeting!Accepted,
            GP!SendSynAck, Greeting!SendSynAck
<1>1. GP!Init <=> Greeting!Init
  BY DEF GP!Init, Greeting!Init
<1>2. UNCHANGED GP!vars <=> UNCHANGED Greeting!vars
  OBVIOUS
<1>3. GP!Sender <=> Greeting!Sender
  BY DEF GP!Sender, Greeting!Sender, GP!SynTimeout, Greeting!SynTimeout,
         GP!ConnectReturns, Greeting!ConnectReturns, GP!ConnectFails,
         Greeting!ConnectFails, GP!SenderStartsAgain, Greeting!SenderStartsAgain,
         GP!RecvSynAck, Greeting!RecvSynAck, GP!RecvWrongSynAck,
         Greeting!RecvWrongSynAck
<1>4. GP!Receiver <=> Greeting!Receiver
  BY DEF GP!Receiver, Greeting!Receiver, GP!RecvSyn, Greeting!RecvSyn, GP!RecvAck,
         Greeting!RecvAck, GP!SynAckTimeout, Greeting!SynAckTimeout,
         GP!WaitConnectFails, Greeting!WaitConnectFails
<1>5. (GP!Lose <=> Greeting!Lose) /\ (GP!Terminated <=> Greeting!Terminated)
  BY <1>2 DEF GP!Lose, Greeting!Lose, GP!Terminated, Greeting!Terminated
<1> QED
  BY <1>1, <1>2, <1>3, <1>4, <1>5 DEF GP!Next, Greeting!Next

\* Data, FINs and their answers do not disturb a handshake that still goes on.
THEOREM SessionHandshakes == SessionSpec => ImplementsHandshake
<1>1. GP!Init => Greeting!Init
  BY SameHandshake
<1>2. [GP!Next]_(GP!vars) => [Greeting!Next]_(Greeting!vars)
  BY SameHandshake
<1> QED
  BY <1>1, <1>2, SessionShakesHands, PTL
     DEF GP!Spec, ImplementsHandshake, Greeting!Spec

\* The assumptions on the constants are those of RtpHandshake.
LEMMA GreetingInvariance == SessionSpec => []GP!HandshakeInv
<1>1. GP!Spec => []GP!HandshakeInv
  BY GP!HandshakeInvariance, SeqModAssumption, MaxRetryAssumption,
     InitialSeqsAssumption, GarbageBasesAssumption DEF GP!Seq32, Seq32
<1> QED
  BY <1>1, SessionShakesHands, PTL

\* In every run, at every moment: a sender that was answered counts from the number
\* the receiver has recorded, a receiver is not connected without a sender that was
\* answered, and it knows that sender's address.
THEOREM SessionAgrees ==
  SessionSpec => [](/\ Greeting!Agreement
                    /\ Greeting!ConnectedWasAnswered
                    /\ Greeting!ConnectedKnowsPeer)
<1>1. GP!HandshakeInv => /\ Greeting!Agreement
                         /\ Greeting!ConnectedWasAnswered
                         /\ Greeting!ConnectedKnowsPeer
  BY DEF GP!HandshakeInv, GP!ReceiverInv, GP!SenderInv, GP!Answered, GP!Accepted,
         GP!Seq64to32, Greeting!Agreement, Greeting!ConnectedWasAnswered,
         Greeting!ConnectedKnowsPeer, Greeting!Accepted, Greeting!Seq64to32
<1> QED
  BY <1>1, GreetingInvariance, PTL

\* Every run of the two programs is one of the abstract connection.
THEOREM SessionConnects == SessionSpec => Greeting!ImplementsConnection
<1>1. GP!Spec => GP!ImplementsConnection
  BY GP!HandshakeRefines, SeqModAssumption, MaxRetryAssumption,
     InitialSeqsAssumption, GarbageBasesAssumption DEF GP!Seq32, Seq32
<1>2. /\ GP!CallerPhase = Greeting!CallerPhase
      /\ GP!ListenerPhase = Greeting!ListenerPhase
      /\ GP!Accepted = Greeting!Accepted
      /\ GP!CallerPhase' = Greeting!CallerPhase'
      /\ GP!ListenerPhase' = Greeting!ListenerPhase'
      /\ GP!Accepted' = Greeting!Accepted'
  BY DEF GP!CallerPhase, Greeting!CallerPhase, GP!ListenerPhase,
         Greeting!ListenerPhase, GP!Accepted, Greeting!Accepted, GP!Seq64to32,
         Greeting!Seq64to32
<1>3. /\ GP!Connection!Init => Greeting!Connection!Init
      /\ [GP!Connection!Next]_(GP!Connection!vars)
           => [Greeting!Connection!Next]_(Greeting!Connection!vars)
  BY <1>2
     DEF GP!Connection!Init, Greeting!Connection!Init, GP!Connection!Hear,
         Greeting!Connection!Hear, GP!Connection!Answer,
         Greeting!Connection!Answer, GP!Connection!Connect,
         Greeting!Connection!Connect, GP!Connection!GiveUp,
         Greeting!Connection!GiveUp, GP!Connection!CallAgain,
         Greeting!Connection!CallAgain, GP!Connection!Establish,
         Greeting!Connection!Establish, GP!Connection!ListenerFails,
         Greeting!Connection!ListenerFails, GP!Connection!callerVars,
         Greeting!Connection!callerVars, GP!Connection!vars,
         Greeting!Connection!vars, GP!Connection!Next, Greeting!Connection!Next
<1> QED
  BY <1>1, <1>3, SessionShakesHands, PTL
     DEF GP!ImplementsConnection, Greeting!ImplementsConnection,
         GP!Connection!Spec, Greeting!Connection!Spec

\* Every run of the two programs is one of the abstract transfer.
THEOREM SessionKeepsPromise == SessionSpec => Transfer!ImplementsPromise
<1>1. TP!Spec => TP!ImplementsPromise
  BY TP!Refinement, SeqModAssumption, UnitAssumption, InitialSeqsAssumption,
     FileSizesAssumption, GarbageBasesAssumption DEF TP!Seq32, Seq32
<1>2. /\ TP!Acked = Transfer!Acked /\ TP!Received = Transfer!Received
      /\ TP!SenderPhase = Transfer!SenderPhase
      /\ TP!ReceiverPhase = Transfer!ReceiverPhase
      /\ TP!Acked' = Transfer!Acked' /\ TP!Received' = Transfer!Received'
      /\ TP!SenderPhase' = Transfer!SenderPhase'
      /\ TP!ReceiverPhase' = Transfer!ReceiverPhase'
  BY DEF TP!Acked, Transfer!Acked, TP!Received, Transfer!Received,
         TP!SenderPhase, Transfer!SenderPhase, TP!ReceiverPhase,
         Transfer!ReceiverPhase
<1>3. /\ TP!Promise!Init => Transfer!Promise!Init
      /\ [TP!Promise!Next]_(TP!Promise!vars)
           => [Transfer!Promise!Next]_(Transfer!Promise!vars)
  BY <1>2
     DEF TP!Promise!Init, Transfer!Promise!Init, TP!Promise!SenderWith,
         Transfer!Promise!SenderWith, TP!Promise!Deliver,
         Transfer!Promise!Deliver, TP!Promise!Confirm, Transfer!Promise!Confirm,
         TP!Promise!Store, Transfer!Promise!Store, TP!Promise!ReceiverCloses,
         Transfer!Promise!ReceiverCloses, TP!Promise!SenderCloses,
         Transfer!Promise!SenderCloses, TP!Promise!SenderStops,
         Transfer!Promise!SenderStops, TP!Promise!ReceiverStops,
         Transfer!Promise!ReceiverStops, TP!Promise!vars, Transfer!Promise!vars,
         TP!Promise!Next, Transfer!Promise!Next
<1> QED
  BY <1>1, <1>3, SessionTransfers, PTL
     DEF TP!ImplementsPromise, Transfer!ImplementsPromise,
         TP!Promise!Spec, Transfer!Promise!Spec

=============================================================================
