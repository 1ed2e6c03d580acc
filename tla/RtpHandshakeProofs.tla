-------------------------- MODULE RtpHandshakeProofs --------------------------
(***************************************************************************)
(* The handshake of connect and wait_connect for every set of numbers the  *)
(* senders draw, every number of retries and every garbage seq_base.       *)
(***************************************************************************)
EXTENDS RtpHandshake, SeqNumProofs

\* What the constants say of the numbers.
LEMMA Numbers ==
  /\ SeqMod \in Nat /\ SeqMod > 1 /\ MaxRetry \in Nat
  /\ Seq32 \subseteq Nat /\ InitialSeqs \subseteq Seq32
BY SeqModAssumption, MaxRetryAssumption, InitialSeqsAssumption DEF Seq32

\* Different numbers have different successors, across the wrap too.
LEMMA NextNumber ==
  ASSUME NEW m \in Seq32, NEW n \in Seq32
  PROVE  /\ IncSeq32(m) \in Seq32
         /\ IncSeq32(m) = IncSeq32(n) => m = n
<1>1. /\ SeqMod \in Nat /\ SeqMod > 1
      /\ m \in Nat /\ m < SeqMod /\ n \in Nat /\ n < SeqMod
  BY SeqModAssumption DEF Seq32
<1>2. IncSeq32(m) = Seq64to32(m + 1) /\ IncSeq32(n) = Seq64to32(n + 1)
  BY DEF IncSeq32, Seq64to32
<1>3. /\ Seq64to32(m + 1) = IF m + 1 < SeqMod THEN m + 1 ELSE 0
      /\ Seq64to32(n + 1) = IF n + 1 < SeqMod THEN n + 1 ELSE 0
  BY <1>1, HeaderNumber
<1> QED
  BY <1>1, <1>2, <1>3 DEF Seq32

\* Whatever seq_base was, wait_connect stands for the number of the SYN.
LEMMA AcceptsItsSyn ==
  ASSUME NEW garbage \in Nat, NEW seq \in Seq32
  PROVE  /\ Seq32to64(garbage, seq) \in Nat
         /\ Seq64to32(Seq32to64(garbage, seq)) = seq
<1>1. SeqMod \in Nat /\ SeqMod > 1 /\ seq \in Nat /\ seq < SeqMod
  BY SeqModAssumption DEF Seq32
<1>2. /\ Seq64to32(seq) = seq
      /\ Seq64to32(seq + SeqMod) = seq
  BY <1>1, HeaderNumber
<1> QED
  BY <1>1, <1>2 DEF Seq32to64

-----------------------------------------------------------------------------
\* The handshake begins within the invariant.
LEMMA InitEstablishes == Init => HandshakeInv
<1> SUFFICES ASSUME Init
             PROVE  HandshakeInv
  OBVIOUS
<1>1. c2w \subseteq ToReceiver
  BY Numbers DEF Init, Header, ToReceiver
<1>2. TypeOK
  BY <1>1, Numbers, GarbageBasesAssumption
     DEF Init, TypeOK, SenderPcs, ReceiverPcs
<1>3. ReceiverInv /\ SenderInv
  BY Numbers DEF Init, ReceiverInv, SenderInv
<1>4. DatagramInv
  BY DEF Init, DatagramInv, Header
<1> QED
  BY <1>2, <1>3, <1>4 DEF HandshakeInv

\* A SYN is sent again, or connect() gives up.
LEMMA SynTimeoutKeeps ==
  ASSUME HandshakeInv, SynTimeout
  PROVE  HandshakeInv'
<1> USE DEF HandshakeInv
<1>1. Header("SYN", x) \in ToReceiver
  BY Numbers DEF TypeOK, Header, ToReceiver
<1>2. retry' \in 0 .. MaxRetry + 1 /\ c_pc' \in {"calling", "refused"}
  BY Numbers DEF SynTimeout, SenderInv, TypeOK
<1>3. TypeOK'
  BY <1>1, <1>2 DEF SynTimeout, TypeOK, SenderPcs, receiverVars
<1>4. ReceiverInv'
  BY DEF SynTimeout, ReceiverInv, receiverVars, Accepted
<1>5. (c_pc' = "calling" => retry' <= MaxRetry) /\ x' \in drawn'
  BY Numbers, <1>2 DEF SynTimeout, SenderInv, TypeOK
<1>6. Answered => Answered'
  BY DEF SynTimeout, Answered, Accepted, receiverVars
<1>7. SenderInv'
  BY <1>2, <1>5, <1>6 DEF SynTimeout, SenderInv, receiverVars
<1>8. DatagramInv'
  BY <1>6 DEF SynTimeout, DatagramInv, SenderInv, receiverVars, Accepted, Header
<1> QED
  BY <1>3, <1>4, <1>7, <1>8

\* A SYN&ACK with the right number comes from the receiver that accepted x.
LEMMA RecvSynAckKeeps ==
  ASSUME HandshakeInv, NEW m \in w2c, RecvSynAck(m)
  PROVE  HandshakeInv'
<1> USE DEF HandshakeInv
<1>1. peer = "sender" /\ Accepted \in Seq32 /\ x \in Seq32
  BY Numbers DEF DatagramInv, ReceiverInv, TypeOK
<1>2. Accepted = x
  BY <1>1, NextNumber DEF RecvSynAck, DatagramInv
<1>3. Header("ACK", IncSeq32(x)) \in ToReceiver
  BY <1>1, NextNumber DEF Header, ToReceiver
<1>4. TypeOK'
  BY <1>3 DEF RecvSynAck, TypeOK, SenderPcs, receiverVars
<1>5. ReceiverInv'
  BY DEF RecvSynAck, ReceiverInv, receiverVars, Accepted
<1>6. Answered' /\ peer' = "sender" /\ Accepted' = x'
  BY <1>1, <1>2 DEF RecvSynAck, Answered, Accepted, receiverVars
<1>7. SenderInv'
  BY <1>6 DEF RecvSynAck, SenderInv
<1>8. DatagramInv'
  BY <1>2, <1>6 DEF RecvSynAck, DatagramInv, Header
<1> QED
  BY <1>4, <1>5, <1>7, <1>8

\* connect() returns 0 or fails.
LEMMA ConnectEndsKeeps ==
  ASSUME HandshakeInv, ConnectReturns \/ ConnectFails
  PROVE  HandshakeInv'
<1> USE DEF HandshakeInv, ConnectReturns, ConnectFails
<1>1. TypeOK'
  BY DEF TypeOK, SenderPcs, receiverVars
<1>2. ReceiverInv'
  BY DEF ReceiverInv, receiverVars, Accepted
<1>3. Answered => Answered'
  BY DEF Answered, Accepted, receiverVars
<1>4. SenderInv'
  BY <1>3 DEF SenderInv, receiverVars, Accepted
<1>5. DatagramInv'
  BY <1>3 DEF DatagramInv, receiverVars, Accepted
<1> QED
  BY <1>1, <1>2, <1>4, <1>5

\* A new sender draws a number nobody has accepted.
LEMMA SenderStartsAgainKeeps ==
  ASSUME HandshakeInv, SenderStartsAgain
  PROVE  HandshakeInv'
<1> USE DEF HandshakeInv
<1> PICK y \in InitialSeqs \ drawn :
       x' = y /\ drawn' = drawn \union {y} /\ c2w' = c2w \union {Header("SYN", y)}
  BY DEF SenderStartsAgain
<1>1. Header("SYN", y) \in ToReceiver
  BY Numbers DEF Header, ToReceiver
<1>2. TypeOK'
  BY <1>1, Numbers DEF SenderStartsAgain, TypeOK, SenderPcs, receiverVars
<1>3. ReceiverInv'
  BY DEF SenderStartsAgain, ReceiverInv, receiverVars, Accepted
<1>4. peer # "none" => Answered'
  BY DEF SenderStartsAgain, ReceiverInv, Answered, receiverVars, Accepted
<1>5. SenderInv'
  BY <1>3, <1>4, Numbers
     DEF SenderStartsAgain, SenderInv, ReceiverInv, receiverVars
<1>6. DatagramInv'
  BY <1>4 DEF SenderStartsAgain, DatagramInv, receiverVars, Accepted, Header
<1> QED
  BY <1>2, <1>3, <1>5, <1>6

\* The first SYN: nothing has been answered before.
LEMMA RecvSynKeeps ==
  ASSUME HandshakeInv, NEW m \in c2w, RecvSyn(m)
  PROVE  HandshakeInv'
<1> USE DEF HandshakeInv
<1>1. m.seq \in Seq32 /\ m.seq \in drawn /\ w_seq_base \in Nat /\ peer = "none"
  BY DEF RecvSyn, TypeOK, ToReceiver, DatagramInv, ReceiverInv
<1>2. w_seq_base' \in Nat
  BY <1>1, AcceptsItsSyn DEF RecvSyn
<1>3. w_seq_num' \in Nat /\ Accepted' = m.seq
  BY <1>1, <1>2, AcceptsItsSyn DEF RecvSyn, Accepted
<1>4. w2c = {} /\ \A d \in c2w : d.flags # "ACK"
  BY <1>1 DEF DatagramInv
<1>5. Header("SYN|ACK", IncSeq32(m.seq)) \in ToSender
  BY <1>1, NextNumber DEF Header, ToSender
<1>6. /\ w2c' \subseteq ToSender
      /\ \A d \in w2c' : peer' = "sender" /\ d.seq = IncSeq32(Accepted')
  BY <1>3, <1>4, <1>5 DEF RecvSyn, SendSynAck, Header
<1>7. TypeOK'
  BY <1>2, <1>3, <1>6 DEF RecvSyn, TypeOK, ReceiverPcs, senderVars
<1>8. ReceiverInv'
  BY <1>1, <1>3 DEF RecvSyn, ReceiverInv, senderVars
<1>9. SenderInv'
  BY <1>1 DEF RecvSyn, SenderInv, senderVars
<1>10. DatagramInv'
  BY <1>4, <1>6 DEF RecvSyn, DatagramInv, senderVars
<1> QED
  BY <1>7, <1>8, <1>9, <1>10

\* The SYN&ACK is sent again.
LEMMA SynAckTimeoutKeeps ==
  ASSUME HandshakeInv, SynAckTimeout
  PROVE  HandshakeInv'
<1> USE DEF HandshakeInv
<1>1. Accepted \in Seq32 /\ Accepted' = Accepted
  BY Numbers DEF SynAckTimeout, ReceiverInv, TypeOK, receiverVars, Accepted
<1>2. Header("SYN|ACK", IncSeq32(Accepted)) \in ToSender
  BY <1>1, NextNumber DEF Header, ToSender
<1>3. /\ w2c' \subseteq ToSender
      /\ \A d \in w2c' : peer = "sender" /\ d.seq = IncSeq32(Accepted)
  BY <1>2 DEF SynAckTimeout, SendSynAck, TypeOK, DatagramInv, Header
<1>4. TypeOK'
  BY <1>3 DEF SynAckTimeout, TypeOK, senderVars, receiverVars
<1>5. ReceiverInv' /\ SenderInv' /\ (Answered => Answered')
  BY <1>1 DEF SynAckTimeout, ReceiverInv, SenderInv, Answered, senderVars,
              receiverVars
<1>6. DatagramInv'
  BY <1>1, <1>3, <1>5 DEF SynAckTimeout, DatagramInv, senderVars, receiverVars
<1> QED
  BY <1>4, <1>5, <1>6

\* wait_connect returns 0: the ACK tells that its sender was answered.
LEMMA RecvAckKeeps ==
  ASSUME HandshakeInv, NEW m \in c2w, RecvAck(m)
  PROVE  HandshakeInv'
<1> USE DEF HandshakeInv
<1>1. peer = "sender" /\ Answered
  BY DEF RecvAck, DatagramInv
<1>2. TypeOK'
  BY DEF RecvAck, TypeOK, ReceiverPcs, senderVars
<1>3. ReceiverInv'
  BY <1>1 DEF RecvAck, ReceiverInv, senderVars, Accepted
<1>4. SenderInv'
  BY <1>1 DEF RecvAck, SenderInv, Answered, senderVars, Accepted
<1>5. DatagramInv'
  BY DEF RecvAck, DatagramInv, Answered, senderVars, Accepted
<1> QED
  BY <1>2, <1>3, <1>4, <1>5

\* wait_connect fails.
LEMMA WaitConnectFailsKeeps ==
  ASSUME HandshakeInv, WaitConnectFails
  PROVE  HandshakeInv'
<1> USE DEF HandshakeInv
<1>1. TypeOK'
  BY DEF WaitConnectFails, TypeOK, ReceiverPcs, senderVars
<1>2. ReceiverInv'
  BY DEF WaitConnectFails, ReceiverInv, senderVars, Accepted
<1>3. SenderInv'
  BY DEF WaitConnectFails, SenderInv, Answered, senderVars, Accepted
<1>4. DatagramInv'
  BY DEF WaitConnectFails, DatagramInv, Answered, senderVars, Accepted
<1> QED
  BY <1>1, <1>2, <1>3, <1>4

\* A datagram is lost or ignored, or nothing happens.
LEMMA OthersKeep ==
  ASSUME HandshakeInv,
         Lose \/ (\E m \in w2c : RecvWrongSynAck(m)) \/ UNCHANGED vars
  PROVE  HandshakeInv'
<1> USE DEF HandshakeInv
<1>1. /\ UNCHANGED <<c_pc, x, retry, drawn, w_pc, peer, w_seq_base, w_seq_num>>
      /\ c2w' \subseteq c2w /\ w2c' \subseteq w2c
  BY DEF Lose, RecvWrongSynAck, vars, senderVars, receiverVars
<1>2. TypeOK'
  BY <1>1 DEF TypeOK
<1>3. ReceiverInv' /\ SenderInv'
  BY <1>1 DEF ReceiverInv, SenderInv, Answered, Accepted
<1>4. DatagramInv'
  BY <1>1 DEF DatagramInv, Answered, Accepted
<1> QED
  BY <1>2, <1>3, <1>4

\* Every step keeps the invariant.
LEMMA NextKeeps ==
  ASSUME HandshakeInv, [Next]_vars
  PROVE  HandshakeInv'
BY SynTimeoutKeeps, RecvSynAckKeeps, ConnectEndsKeeps, SenderStartsAgainKeeps,
   RecvSynKeeps, SynAckTimeoutKeeps, RecvAckKeeps, WaitConnectFailsKeeps,
   OthersKeep
   DEF Next, Sender, Receiver, Terminated

-----------------------------------------------------------------------------
(* The theorems.                                                           *)

\* The invariant holds whatever the network does and however often senders are
\* started.
THEOREM HandshakeInvariance == Spec => []HandshakeInv
<1>1. Init => HandshakeInv
  BY InitEstablishes
<1>2. HandshakeInv /\ [Next]_vars => HandshakeInv'
  BY NextKeeps
<1> QED
  BY <1>1, <1>2, PTL DEF Spec

\* All members and header numbers keep to their types, the retry counter to its
\* bound.
THEOREM HandshakeTypeCorrect == Spec => []TypeOK
<1>1. HandshakeInv => TypeOK
  BY DEF HandshakeInv
<1> QED
  BY <1>1, HandshakeInvariance, PTL

\* A sender that has seen its SYN&ACK and the receiver count from the same x.
THEOREM SidesAgree == Spec => []Agreement
<1>1. HandshakeInv => Agreement
  BY DEF HandshakeInv, SenderInv, Agreement
<1> QED
  BY <1>1, HandshakeInvariance, PTL

\* wait_connect returns 0 only to a sender that has been answered.
THEOREM ThirdMessageTells == Spec => []ConnectedWasAnswered
<1>1. HandshakeInv => ConnectedWasAnswered
  BY DEF HandshakeInv, SenderInv, Answered, ConnectedWasAnswered
<1> QED
  BY <1>1, HandshakeInvariance, PTL

\* A receiver that is connected has recorded the address of its sender.
THEOREM PeerRecorded == Spec => []ConnectedKnowsPeer
<1>1. HandshakeInv => ConnectedKnowsPeer
  BY DEF HandshakeInv, ReceiverInv, ConnectedKnowsPeer
<1> QED
  BY <1>1, HandshakeInvariance, PTL

-----------------------------------------------------------------------------
(* The refinement. A step maps to the step of the abstract connection that *)
(* its name suggests, or changes nothing there.                            *)

LEMMA InitConnects == Init => Connection!Init
BY DEF Init, Connection!Init, CallerPhase, ListenerPhase

\* connect() is answered only if its number was accepted; it is refused only
\* while it calls.
LEMMA SenderConnects ==
  ASSUME HandshakeInv, Sender
  PROVE  [Connection!Next]_(Connection!vars)
<1> USE DEF HandshakeInv
<1>1. UNCHANGED <<w_pc, peer, w_seq_base, w_seq_num>>
  BY DEF Sender, SynTimeout, ConnectReturns, ConnectFails, SenderStartsAgain,
         RecvSynAck, RecvWrongSynAck, receiverVars
<1>2. ListenerPhase' = ListenerPhase /\ Accepted' = Accepted
  BY <1>1 DEF ListenerPhase, Accepted
<1>3. CASE SynTimeout
  <2>1. CASE c_pc' = "refused"
    BY <1>1, <1>2, <1>3, <2>1
       DEF SynTimeout, CallerPhase, Connection!Next, Connection!GiveUp
  <2>2. CASE c_pc' = "calling"
    BY <1>1, <1>2, <1>3, <2>2 DEF SynTimeout, CallerPhase, Connection!vars
  <2> QED
    BY <1>3, <2>1, <2>2 DEF SynTimeout
<1>4. CASE ConnectReturns
  BY <1>1, <1>2, <1>4
     DEF ConnectReturns, CallerPhase, Connection!Next, Connection!Connect
<1>5. CASE ConnectFails
  BY <1>1, <1>2, <1>5
     DEF ConnectFails, SenderReturned, TypeOK, SenderPcs, CallerPhase,
         Connection!Next, Connection!GiveUp
<1>6. CASE SenderStartsAgain
  BY <1>1, <1>2, <1>6
     DEF SenderStartsAgain, SenderReturned, CallerPhase, Connection!Next,
         Connection!CallAgain
<1>7. ASSUME NEW m \in w2c, RecvSynAck(m)
      PROVE  [Connection!Next]_(Connection!vars)
  <2>1. peer = "sender" /\ Accepted \in Seq32 /\ x \in Seq32
    BY Numbers DEF DatagramInv, ReceiverInv, TypeOK
  <2>2. Accepted = x
    BY <1>7, <2>1, NextNumber DEF RecvSynAck, DatagramInv
  <2>3. CASE c_pc = "calling"
    BY <1>1, <1>2, <1>7, <2>1, <2>2, <2>3
       DEF RecvSynAck, CallerPhase, Connection!Next, Connection!Answer
  <2>4. CASE c_pc = "lingering"
    BY <1>1, <1>2, <1>7, <2>4 DEF RecvSynAck, CallerPhase, Connection!vars
  <2> QED
    BY <1>7, <2>3, <2>4 DEF RecvSynAck
<1>8. ASSUME NEW m \in w2c, RecvWrongSynAck(m)
      PROVE  UNCHANGED Connection!vars
  BY <1>1, <1>2, <1>8
     DEF RecvWrongSynAck, senderVars, CallerPhase, Connection!vars
<1> QED
  BY <1>3, <1>4, <1>5, <1>6, <1>7, <1>8 DEF Sender

\* wait_connect accepts a number that was drawn, and returns 0 to a sender that
\* was answered.
LEMMA ReceiverConnects ==
  ASSUME HandshakeInv, Receiver
  PROVE  [Connection!Next]_(Connection!vars)
<1> USE DEF HandshakeInv
<1>1. UNCHANGED <<c_pc, x, retry, drawn>> /\ CallerPhase' = CallerPhase
  BY DEF Receiver, RecvSyn, RecvAck, SynAckTimeout, WaitConnectFails, senderVars,
         CallerPhase
<1>2. ASSUME NEW m \in c2w, RecvSyn(m)
      PROVE  Connection!Hear
  <2>1. m.seq \in Seq32 /\ m.seq \in drawn /\ w_seq_base \in Nat /\ peer = "none"
    BY <1>2 DEF RecvSyn, TypeOK, ToReceiver, DatagramInv, ReceiverInv
  <2>2. w_seq_base' \in Nat
    BY <1>2, <2>1, AcceptsItsSyn DEF RecvSyn
  <2>3. Accepted' = m.seq
    BY <1>2, <2>1, <2>2, AcceptsItsSyn DEF RecvSyn, Accepted
  <2> QED
    BY <1>1, <1>2, <2>1, <2>3
       DEF RecvSyn, ListenerPhase, Connection!Hear, Connection!callerVars
<1>3. ASSUME NEW m \in c2w, RecvAck(m)
      PROVE  Connection!Establish
  <2>1. peer = "sender" /\ Answered
    BY <1>3 DEF RecvAck, DatagramInv
  <2> QED
    BY <1>1, <1>3, <2>1
       DEF RecvAck, Answered, Accepted, ListenerPhase, CallerPhase,
           Connection!Establish, Connection!callerVars
<1>4. CASE SynAckTimeout
  BY <1>1, <1>4 DEF SynAckTimeout, receiverVars, Accepted, ListenerPhase,
                    Connection!vars
<1>5. CASE WaitConnectFails
  <2>1. w_pc \in {"listening", "answering"} /\ w_pc' = "failed"
    BY <1>5 DEF WaitConnectFails, ReceiverReturned, TypeOK, ReceiverPcs
  <2>2. Connection!ListenerFails
    BY <1>1, <1>5, <2>1
       DEF WaitConnectFails, Accepted, ListenerPhase, Connection!ListenerFails,
           Connection!callerVars
  <2> QED
    BY <2>2 DEF Connection!Next
<1> QED
  BY <1>2, <1>3, <1>4, <1>5 DEF Receiver, Connection!Next

LEMMA OthersConnectNothing ==
  ASSUME Lose \/ UNCHANGED vars
  PROVE  UNCHANGED Connection!vars
BY DEF Lose, vars, senderVars, receiverVars, Connection!vars, CallerPhase,
       ListenerPhase, Accepted

\* Every handshake is one of the abstract connection.
THEOREM HandshakeRefines == Spec => ImplementsConnection
<1>1. HandshakeInv /\ [Next]_vars => [Connection!Next]_(Connection!vars)
  BY SenderConnects, ReceiverConnects, OthersConnectNothing DEF Next, Terminated
<1> QED
  BY <1>1, InitConnects, HandshakeInvariance, PTL
     DEF Spec, ImplementsConnection, Connection!Spec
=============================================================================
