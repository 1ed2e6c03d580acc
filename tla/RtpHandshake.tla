----------------------------- MODULE RtpHandshake -----------------------------
(***************************************************************************)
(* The three-way handshake of connect and wait_connect                     *)
(* (src/rtp.cpp:271-493) over a network that loses, duplicates and         *)
(* reorders datagrams.                                                     *)
(*                                                                         *)
(* The receiver is one process. The sender may be started again, on the    *)
(* port of the one before, after it has given up or was killed: datagrams  *)
(* of the earlier sender are then still about, and only the number x that  *)
(* each sender draws anew tells them apart.                                *)
(***************************************************************************)
EXTENDS SeqNum

CONSTANTS
  MaxRetry,      \* timeouts connect() survives, 50 in the code
  InitialSeqs,   \* the numbers x that connect() may draw
  GarbageBases   \* what wait_connect may find in the uninitialized seq_base

ASSUME MaxRetryAssumption == MaxRetry \in Nat
ASSUME InitialSeqsAssumption == InitialSeqs \subseteq Seq32
ASSUME GarbageBasesAssumption == GarbageBases \subseteq Nat

VARIABLES
  \* The sender that runs now.
  c_pc,        \* where its connect() is
  x,           \* the number it has drawn
  retry,       \* timeouts so far
  drawn,       \* all numbers drawn, by this sender and the ones before
  \* The receiver.
  w_pc,        \* where its wait_connect() is
  peer,        \* dest_addr and addrlen
  w_seq_base,  \* seq_base
  w_seq_num,   \* seq_num
  \* The network.
  c2w,         \* datagrams on their way to the receiver
  w2c          \* datagrams on their way to the port of the sender

senderVars   == <<c_pc, x, retry, drawn>>
receiverVars == <<w_pc, peer, w_seq_base, w_seq_num>>
vars         == <<senderVars, receiverVars, c2w, w2c>>

\* "lingering" is the wait for repeated SYN&ACKs after the ACK has been sent,
\* "refused" the end after too many timeouts.
SenderPcs   == {"calling", "lingering", "connected", "refused", "failed"}
ReceiverPcs == {"listening", "answering", "connected", "failed"}

SenderReturned   == c_pc \in {"connected", "refused", "failed"}
ReceiverReturned == w_pc \in {"connected", "failed"}

Header(flags, seq) == [flags |-> flags, seq |-> seq]

\* connect() has drawn x and sent its first SYN.
Init ==
  /\ c_pc = "calling"
  /\ x \in InitialSeqs
  /\ retry = 0
  /\ drawn = {x}
  /\ w_pc = "listening"
  /\ peer = "none"
  /\ w_seq_base \in GarbageBases
  /\ w_seq_num = 0
  /\ c2w = {Header("SYN", x)}
  /\ w2c = {}

-----------------------------------------------------------------------------
(* connect                                                                 *)

\* Mutant of SynTimeout: the timeout is not counted.
SynTimeoutUncounted ==
  /\ c_pc = "calling"
  /\ c2w' = c2w \union {Header("SYN", x)}
  /\ UNCHANGED <<c_pc, x, retry, drawn, receiverVars, w2c>>

\* 100 ms without a SYN&ACK. The SYN is sent again even by the timeout that
\* makes the loop give up.
SynTimeout ==
  /\ c_pc = "calling"
  /\ c2w' = c2w \union {Header("SYN", x)}
  /\ retry' = retry + 1
  /\ c_pc' = IF retry' > MaxRetry THEN "refused" ELSE "calling"
  /\ UNCHANGED <<x, drawn, receiverVars, w2c>>

\* Mutant of RecvSynAck: any SYN&ACK will do.
RecvAnySynAck(m) ==
  /\ c_pc \in {"calling", "lingering"}
  /\ m.flags = "SYN|ACK"
  /\ c_pc' = "lingering"
  /\ c2w' = c2w \union {Header("ACK", IncSeq32(x))}
  /\ UNCHANGED <<x, retry, drawn, receiverVars, w2c>>

\* A SYN&ACK with the right number is acknowledged, and so are its
\* repetitions.
RecvSynAck(m) ==
  /\ c_pc \in {"calling", "lingering"}
  /\ m.flags = "SYN|ACK"
  /\ m.seq = IncSeq32(x)
  /\ c_pc' = "lingering"
  /\ c2w' = c2w \union {Header("ACK", IncSeq32(x))}
  /\ UNCHANGED <<x, retry, drawn, receiverVars, w2c>>

\* A SYN&ACK with another number ends the wait of 100 ms, and the next one begins
\* without a SYN and without counting. The step is the reading of its last copy; to
\* read one of the copies before changes nothing here.
RecvWrongSynAck(m) ==
  /\ c_pc = "calling"
  /\ m.flags = "SYN|ACK"
  /\ m.seq # IncSeq32(x)
  /\ w2c' = w2c \ {m}
  /\ UNCHANGED <<senderVars, receiverVars, c2w>>

\* 2 seconds after the first ACK connect() returns 0.
ConnectReturns ==
  /\ c_pc = "lingering"
  /\ c_pc' = "connected"
  /\ UNCHANGED <<x, retry, drawn, receiverVars, c2w, w2c>>

\* A system call fails (recvfrom does when the addrlen it is passed, which is
\* uninitialized, is negative) or the process is killed.
ConnectFails ==
  /\ ~SenderReturned
  /\ c_pc' = "failed"
  /\ UNCHANGED <<x, retry, drawn, receiverVars, c2w, w2c>>

\* Another sender is started and draws a number that none before it has drawn.
SenderStartsAgain ==
  /\ SenderReturned
  /\ \E y \in InitialSeqs \ drawn :
       /\ x' = y
       /\ drawn' = drawn \union {y}
       /\ c2w' = c2w \union {Header("SYN", y)}
  /\ retry' = 0
  /\ c_pc' = "calling"
  /\ UNCHANGED <<receiverVars, w2c>>

-----------------------------------------------------------------------------
(* wait_connect                                                            *)

\* The number of the SYN that wait_connect has accepted.
Accepted == Seq64to32(w_seq_num)

\* The SYN&ACK reaches the sender only if its address has been recorded.
SendSynAck(to, seq) ==
  w2c' = IF to = "sender" THEN w2c \union {Header("SYN|ACK", IncSeq32(seq))}
                          ELSE w2c

\* Mutant of RecvSyn: the SYN alone makes the connection.
RecvSynConnects(m) ==
  /\ w_pc = "listening"
  /\ m.flags = "SYN"
  /\ peer' \in {"sender", "unknown"}
  /\ w_seq_base' = Seq32to64(w_seq_base, m.seq)
  /\ w_seq_num' = Seq32to64(w_seq_base', m.seq)
  /\ SendSynAck(peer', m.seq)
  /\ w_pc' = "connected"
  /\ UNCHANGED <<senderVars, c2w>>

\* The first SYN: recv_packet records where it comes from, or whatever is on
\* the stack if recvfrom has not filled in the address because the addrlen it
\* was passed is too small; wait_connect records the number and sends the SYN&ACK.
RecvSyn(m) ==
  /\ w_pc = "listening"
  /\ m.flags = "SYN"
  /\ peer' \in {"sender", "unknown"}
  /\ w_seq_base' = Seq32to64(w_seq_base, m.seq)
  /\ w_seq_num' = Seq32to64(w_seq_base', m.seq)
  /\ SendSynAck(peer', m.seq)
  /\ w_pc' = "answering"
  /\ UNCHANGED <<senderVars, c2w>>

\* 100 ms without the ACK.
SynAckTimeout ==
  /\ w_pc = "answering"
  /\ SendSynAck(peer, Accepted)
  /\ UNCHANGED <<senderVars, receiverVars, c2w>>

\* The ACK with the right number; others, and SYNs, are ignored. If the recorded
\* address is garbage, whether it matches that of a later datagram is open.
RecvAck(m) ==
  /\ w_pc = "answering"
  /\ m.flags = "ACK"
  /\ m.seq = IncSeq32(Accepted)
  /\ w_pc' = "connected"
  /\ UNCHANGED <<senderVars, peer, w_seq_base, w_seq_num, c2w, w2c>>

\* 5 seconds without a SYN, or without the ACK, a failing system call, or the
\* end of the process.
WaitConnectFails ==
  /\ ~ReceiverReturned
  /\ w_pc' = "failed"
  /\ UNCHANGED <<senderVars, peer, w_seq_base, w_seq_num, c2w, w2c>>

-----------------------------------------------------------------------------
\* The network keeps a datagram until it drops it. A datagram recv_packet
\* throws away is a dropped one.
Lose ==
  /\ \/ \E m \in c2w : c2w' = c2w \ {m} /\ w2c' = w2c
     \/ \E m \in w2c : w2c' = w2c \ {m} /\ c2w' = c2w
  /\ UNCHANGED <<senderVars, receiverVars>>

\* Both calls have returned and nobody starts another sender.
Terminated == SenderReturned /\ ReceiverReturned /\ UNCHANGED vars

Sender ==
  \/ SynTimeout \/ ConnectReturns \/ ConnectFails \/ SenderStartsAgain
  \/ \E m \in w2c : RecvSynAck(m) \/ RecvWrongSynAck(m)

Receiver ==
  \/ \E m \in c2w : RecvSyn(m) \/ RecvAck(m)
  \/ SynAckTimeout \/ WaitConnectFails

Next == Sender \/ Receiver \/ Lose \/ Terminated

Spec == Init /\ [][Next]_vars

\* How a wait of connect() for a SYN&ACK ends that does not end the loop.
CallGoesOn == SynTimeout \/ \E m \in w2c : RecvWrongSynAck(m)

\* Each wait of connect() for a SYN&ACK ends within 100 ms, but not always by the
\* timeout that counts: as long as SYN&ACKs for an earlier sender come more often
\* than that, none has to expire. Such a datagram is read a finite number of times;
\* how long they keep coming is up to wait_connect, whose 5 seconds for the SYN and
\* for the ACK run whatever arrives, as do the 2 seconds of connect().
FairSpec ==
  Spec /\ WF_vars(CallGoesOn) /\ WF_vars(ConnectReturns)
       /\ WF_vars(WaitConnectFails)

-----------------------------------------------------------------------------
(* Properties                                                              *)

ToReceiver == [flags : {"SYN", "ACK"}, seq : Seq32]
ToSender   == [flags : {"SYN|ACK"}, seq : Seq32]

\* Type correctness.
TypeOK ==
  /\ c_pc \in SenderPcs
  /\ x \in InitialSeqs
  /\ retry \in 0 .. MaxRetry + 1
  /\ drawn \subseteq InitialSeqs
  /\ w_pc \in ReceiverPcs
  /\ peer \in {"none", "sender", "unknown"}
  /\ w_seq_base \in Nat /\ w_seq_num \in Nat
  /\ c2w \subseteq ToReceiver
  /\ w2c \subseteq ToSender

\* A sender whose connect() has seen its SYN&ACK talks to a receiver that counts
\* from the same header number, even if earlier senders have left SYNs and ACKs
\* behind and the receiver has read a garbage seq_base: no other SYN was accepted.
\* A receiver whose 64-bit numbers are SeqMod higher agrees in this sense, too.
Agreement ==
  c_pc \in {"lingering", "connected"} => Accepted = x

\* wait_connect returns 0 only when the sender that drew its number has been
\* answered: a sender that gave up, or still calls, has no peer behind its back.
ConnectedWasAnswered ==
  w_pc = "connected" /\ Accepted = x => c_pc \notin {"calling", "refused"}

\* recv_packet has recorded the address of the sender whenever wait_connect
\* returns 0, although it may record a garbage one: the third message is the
\* proof that the second has arrived.
ConnectedKnowsPeer == w_pc = "connected" => peer = "sender"

\* Both calls return, however often the sender is started: a wait_connect that
\* answers an earlier sender keeps the present one from its timeouts, which alone
\* count, but not beyond its own deadline.
Termination == <>[](SenderReturned /\ ReceiverReturned)

\* "No SYN&ACK within 2 seconds means that the ACK has arrived"
\* (src/rtp.cpp:354): once connect() has returned 0, a wait_connect that still
\* waits for the ACK at least has one coming.
SilenceMeansArrived ==
  c_pc = "connected" /\ w_pc = "answering" => Header("ACK", IncSeq32(x)) \in c2w

\* The connection the two calls agree on.
CallerPhase   == IF c_pc = "lingering" THEN "answered" ELSE c_pc
ListenerPhase == IF w_pc = "answering" THEN "heard" ELSE w_pc

Connection == INSTANCE AgreedConnection WITH
  Callers  <- InitialSeqs,
  caller   <- CallerPhase,
  number   <- x,
  called   <- drawn,
  listener <- ListenerPhase,
  accepted <- IF peer = "none" THEN {} ELSE {Accepted}

\* Every handshake is one of the abstract connection: the SYN that is accepted is
\* final, only its sender is ever answered, and none that was answered is refused.
ImplementsConnection == Connection!Spec

-----------------------------------------------------------------------------
(* The inductive invariant. A receiver without a peer has seen no SYN.     *)

\* Where wait_connect is and what it has recorded.
ReceiverInv ==
  /\ w_pc = "listening" => peer = "none"
  /\ w_pc = "answering" => peer # "none"
  /\ w_pc = "connected" => peer = "sender"
  /\ peer # "none" => Accepted \in drawn

\* Once the sender that drew the accepted number has been answered, its call
\* no longer waits and cannot run out of retries.
Answered == Accepted = x => c_pc \notin {"calling", "refused"}

SenderInv ==
  /\ x \in drawn
  /\ c_pc = "calling" => retry <= MaxRetry
  /\ c_pc \in {"lingering", "connected"} => peer = "sender" /\ Accepted = x
  /\ w_pc = "connected" => Answered

\* What the datagrams tell: of senders that were started, of the one SYN that was
\* accepted, and of the sender that was answered.
DatagramInv ==
  /\ \A m \in c2w : m.flags = "SYN" => m.seq \in drawn
  /\ \A m \in w2c : peer = "sender" /\ m.seq = IncSeq32(Accepted)
  /\ \A m \in c2w : m.flags = "ACK" =>
       peer = "sender" /\ m.seq = IncSeq32(Accepted) /\ Answered

HandshakeInv == TypeOK /\ ReceiverInv /\ SenderInv /\ DatagramInv
=============================================================================
