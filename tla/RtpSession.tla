------------------------------ MODULE RtpSession ------------------------------
(***************************************************************************)
(* One run of the two programs from the first SYN to their exit: the       *)
(* handshake of RtpHandshake and the transfer of RtpTransfer on one pair   *)
(* of Rtp objects (src/sender.cpp:26-44, src/receiver.cpp:36-53).          *)
(*                                                                         *)
(* Neither side knows where the other one stands. The sender may send data *)
(* and its FIN while the receiver still waits for the ACK of the handshake *)
(* and the receiver may wait for data from a sender that lingers in        *)
(* connect(). Each object has one sequence base and one network port: what *)
(* the handshake records is what the transfer counts from.                 *)
(***************************************************************************)
EXTENDS RtpTransfer

CONSTANT MaxRetry   \* timeouts connect() survives, 50 in the code

ASSUME MaxRetryAssumption == MaxRetry \in Nat

VARIABLES
  c_pc, retry,   \* the sender's connect()
  w_pc, peer,    \* the receiver's wait_connect() and its dest_addr
  c2w, w2c       \* the datagrams of the handshake, in both directions

handshakeVars == <<c_pc, retry, w_pc, peer, c2w, w2c>>
sessionVars   == <<vars, handshakeVars>>

\* What the handshake leaves alone: all but the numbers it agrees on.
transferVars  == <<s_pc, total_packets, s_seq_num, base, next_seq_num, cc,
                   r_pc, data_map, fin_received, fin_seq, written, file,
                   s2r, r2s>>

\* The handshake of a single sender works on the objects of the transfer.
Handshake == INSTANCE RtpHandshake WITH
  x          <- s_seq_base,
  drawn      <- {s_seq_base},
  w_seq_base <- r_seq_base,
  w_seq_num  <- r_seq_num

\* connect() has sent its first SYN. What send_file will start from is known,
\* the receiver's numbers are those of an object that has seen nothing.
SessionInit ==
  /\ Handshake!Init
  /\ total_packets \in FileSizes
  /\ s_seq_num = Seq32to64(s_seq_base, s_seq_base)
  /\ base = s_seq_num + 1
  /\ next_seq_num = s_seq_num + 1
  /\ cc = InitialCc
  /\ s_pc = LoopPc(base, next_seq_num, cc)
  /\ r_pc = "recv"
  /\ recv_base = 0
  /\ data_map = [seq \in {} |-> 0]
  /\ fin_received = FALSE
  /\ fin_seq = 0
  /\ written = FALSE
  /\ file = <<>>
  /\ s2r = {}
  /\ r2s = {}

-----------------------------------------------------------------------------
(* The steps.                                                              *)

\* A step of connect or wait_connect that does not end the handshake. The number
\* x has been drawn before. With a single sender no SYN&ACK has a wrong number, so
\* that RecvWrongSynAck has no place here and SynTimeout alone ends a wait.
Connecting(A) == UNCHANGED s_seq_base /\ A /\ UNCHANGED <<transferVars, recv_base>>

\* Mutant of Accept: recv_file begins with x itself.
AcceptFromX(m) ==
  /\ Handshake!RecvAck(m)
  /\ recv_base' = r_seq_num
  /\ UNCHANGED transferVars

\* Mutant of Accept: a repeated SYN is taken for the ACK.
AcceptAnything(m) ==
  /\ w_pc = "answering"
  /\ w_pc' = "connected"
  /\ recv_base' = r_seq_num + 1
  /\ UNCHANGED <<transferVars, c_pc, retry, s_seq_base, peer, r_seq_base, r_seq_num,
                 c2w, w2c>>

\* wait_connect returns 0 and recv_file begins with the packet after x.
Accept(m) ==
  /\ Handshake!RecvAck(m)
  /\ recv_base' = r_seq_num + 1
  /\ UNCHANGED transferVars

\* Mutant of BySender: sender_routine does not look at what connect returns.
BySenderAtOnce(A) == A /\ UNCHANGED handshakeVars

\* A step of send_file or close, which sender_routine calls after connect.
BySender(A) == c_pc = "connected" /\ A /\ UNCHANGED handshakeVars

\* A step of recv_file or wait_close, which receiver_routine calls after
\* wait_connect.
ByReceiver(A) == w_pc = "connected" /\ A /\ UNCHANGED handshakeVars

\* recv_packet records a FIN while wait_connect still waits for the ACK: only the
\* address of the peer has to be known. A DAT packet that comes then is lost.
EarlyFin(m) ==
  /\ w_pc = "answering"
  /\ RecvFin(m)
  /\ UNCHANGED handshakeVars

\* Both processes have exited: LOG_FATAL after a failed connect or wait_connect,
\* otherwise as in RtpTransfer.
SenderExited   == c_pc \in {"refused", "failed"} \/ SenderDone
ReceiverExited == w_pc = "failed" \/ ReceiverDone

SessionTerminated == SenderExited /\ ReceiverExited /\ UNCHANGED sessionVars

SessionNext ==
  \/ Connecting(Handshake!SynTimeout)
  \/ \E m \in w2c : Connecting(Handshake!RecvSynAck(m))
  \/ Connecting(Handshake!ConnectReturns)
  \/ Connecting(Handshake!ConnectFails)
  \/ \E m \in c2w : Connecting(Handshake!RecvSyn(m)) \/ Accept(m)
  \/ Connecting(Handshake!SynAckTimeout)
  \/ Connecting(Handshake!WaitConnectFails)
  \/ Connecting(Handshake!Lose)
  \/ BySender(Sender)
  \/ ByReceiver(Receiver)
  \/ \E m \in s2r : EarlyFin(m)
  \/ Lose /\ UNCHANGED handshakeVars
  \/ SessionTerminated

SessionSpec == SessionInit /\ [][SessionNext]_sessionVars

-----------------------------------------------------------------------------
(* Fairness: that of the two parts, each while its calls are running. The  *)
(* long timeouts expire for certain only when the other process is gone.   *)

SessionFairness ==
  /\ WF_sessionVars(Connecting(Handshake!CallGoesOn))
  /\ WF_sessionVars(Connecting(Handshake!ConnectReturns))
  /\ WF_sessionVars(Connecting(Handshake!WaitConnectFails))
  /\ WF_sessionVars(BySender(SendNext))
  /\ WF_sessionVars(BySender(SendFin))
  /\ WF_sessionVars(BySender(ResendFin))
  /\ WF_sessionVars(ByReceiver(AllReceived))
  /\ WF_sessionVars(ByReceiver(WriteFile))
  /\ WF_sessionVars(ByReceiver(WaitClose))
  /\ SF_sessionVars(BySender(Retransmission))
  /\ SF_sessionVars(ByReceiver(\E m \in s2r :
                      m.data = base - s_seq_base /\ RecvDat(m)))
  /\ SF_sessionVars(ByReceiver(\E m \in s2r : RecvFin(m)))
  /\ SF_sessionVars(BySender(\E m \in r2s : NewAck(m)))
  /\ SF_sessionVars(BySender(\E m \in r2s : RecvFinAck(m)))
  /\ WF_sessionVars(BySender(CloseFails))
  /\ WF_sessionVars(ReceiverExited /\ BySender(SendTimesOut))
  /\ WF_sessionVars(SenderExited /\ ByReceiver(RecvTimesOut))

FairSession == SessionSpec /\ SessionFairness

-----------------------------------------------------------------------------
(* Properties.                                                             *)

\* Type correctness of both parts.
SessionTypeOK == Handshake!TypeOK /\ TypeOK

\* A FIN that overtakes the ACK of the handshake belongs to an empty file, and
\* its number does not lie beyond the one recv_file will begin with, so that it
\* returns at once: recording it in wait_connect cannot cut off data that is still
\* to come, nor keep recv_file waiting for data that is not.
EarlyFinEndsNothing ==
  fin_received /\ w_pc # "connected" =>
    total_packets = 0 /\ fin_seq <= r_seq_num + 1

\* A sender whose receiver did not get past wait_connect, because the ACK and
\* its repetitions were lost, does not exit with status 0 unless its file is
\* empty: no data is acknowledged before the receiver is connected.
HalfOpenIsNoticed ==
  w_pc # "connected" /\ total_packets > 0 => s_pc \notin {"closed", "unclosed"}

\* The exit status of the receiver alone says that the run was good: the sender
\* was connected, all its packets are acknowledged and the file is whole. This holds
\* of datagrams of one run; a FIN of an earlier run breaks it (RtpLateFin).
ReceiverSuccessMeansFile ==
  r_pc = "closed" => /\ c_pc = "connected"
                     /\ Acked = total_packets
                     /\ written /\ file = [k \in 1 .. total_packets |-> k]

\* Both programs exit, wherever the handshake or the transfer gets stuck.
SessionTermination == <>(SenderExited /\ ReceiverExited)

\* What the numbers of the receiver are going to be: the first SYN turns a
\* seq_base that nothing has set into a number congruent to x.
CountsFrom ==
  IF peer = "none" THEN Seq32to64(r_seq_base, s_seq_base) ELSE r_seq_base

\* The transfer within the session. A process that ends while it connects is one
\* that was killed before its first step, and wait_connect only takes its time.
SenderPlace    == IF c_pc \in {"refused", "failed"} THEN "killed" ELSE s_pc
ReceiverPlace  == IF w_pc = "failed" THEN "killed" ELSE r_pc
ReceiverSeqNum == IF peer = "none" THEN CountsFrom ELSE r_seq_num
NextExpected   == IF w_pc = "connected" THEN recv_base ELSE CountsFrom + 1

Transfer == INSTANCE RtpTransfer WITH
  s_pc       <- SenderPlace,
  r_pc       <- ReceiverPlace,
  r_seq_base <- CountsFrom,
  r_seq_num  <- ReceiverSeqNum,
  recv_base  <- NextExpected

\* Every session is a behaviour of RtpTransfer, which starts where both calls
\* have returned: what holds of the transfer holds of the two programs.
ImplementsTransfer == Transfer!Spec

\* The handshake within the session. The number it has recorded stays in seq_base
\* when recv_file and wait_close count seq_num up.
RecordedSeqNum == IF peer = "none" THEN r_seq_num ELSE r_seq_base

Greeting == INSTANCE RtpHandshake WITH
  x          <- s_seq_base,
  drawn      <- {s_seq_base},
  w_seq_base <- r_seq_base,
  w_seq_num  <- RecordedSeqNum

\* Every session is a behaviour of RtpHandshake as well, from its first SYN on: a
\* process whose first call has returned does nothing that its handshake would not
\* do, and what wait_connect has recorded can be told from the members of the
\* receiver as long as the other call lasts. (That data and FINs do not pass for
\* SYNs and ACKs is the work of the flags waitfor is asked for, not of this.)
ImplementsHandshake == Greeting!Spec

-----------------------------------------------------------------------------
(* The inductive invariant.                                                *)

\* The types of the handshake. Of seq_num only while it is in use there.
HandshakeTypes ==
  /\ c_pc \in Handshake!SenderPcs /\ w_pc \in Handshake!ReceiverPcs
  /\ s_seq_base \in InitialSeqs /\ r_seq_base \in Nat
  /\ retry \in 0 .. MaxRetry + 1
  /\ c_pc = "calling" => retry <= MaxRetry
  /\ peer \in {"none", "sender", "unknown"}
  /\ c2w \subseteq Handshake!ToReceiver /\ w2c \subseteq Handshake!ToSender

\* Nothing of the sender's transfer has happened before it is connected.
SenderWaits ==
  c_pc # "connected" =>
    s_pc \in {"fill", "wait", "sent"} /\ s2r = {} /\ ~fin_received

\* The receiver knows a peer and its number from the first SYN on, and does
\* nothing but record a FIN before it is connected.
ReceiverWaits ==
  /\ w_pc = "listening" => peer = "none"
  /\ w_pc \in {"answering", "connected"} => peer # "none"
  /\ w_pc # "connected" => /\ r_pc = "recv" /\ recv_base = 0 /\ r_seq_num \in Nat
                           /\ peer # "none" => r_seq_num = r_seq_base
  /\ fin_received => peer # "none"

SessionInv ==
  /\ HandshakeTypes
  /\ SenderWaits
  /\ ReceiverWaits
  /\ \A m \in c2w : m.flags = "SYN" => m.seq = s_seq_base
=============================================================================
