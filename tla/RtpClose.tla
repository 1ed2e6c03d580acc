------------------------------- MODULE RtpClose -------------------------------
(***************************************************************************)
(* The end of a connection: close() and both ways through wait_close()     *)
(* (src/rtp.cpp:496-665), with time. RtpTransfer contains the way that     *)
(* receiver_routine takes, without time and with any reordering; here the  *)
(* receiver may call wait_close before it has seen a FIN, and the subject  *)
(* is what the deadlines are good for.                                     *)
(*                                                                         *)
(* Time passes in rounds, the 100 ms between two FINs. A datagram that is  *)
(* not lost arrives within the round it is sent in. Datagrams of an        *)
(* earlier run of the programs on the same two ports may arrive at any     *)
(* time; only their numbers give them away.                                *)
(***************************************************************************)
EXTENDS SeqNum

CONSTANTS
  CloseRounds,    \* 5 s of close(), 50 in the code
  WaitRounds,     \* 5 s of wait_close() without a FIN, 50 in the code
  LingerRounds,   \* 2 s after its FIN&ACK, 20 in the code
  SeqNums,        \* seq_num of both objects when the last packet is through
  LateNumbers,    \* header numbers of datagrams of an earlier run
  MaxLosses       \* bound on the datagrams the network loses

ASSUME RoundsAssumption ==
  /\ CloseRounds \in Nat \ {0}
  /\ WaitRounds \in Nat \ {0}
  /\ LingerRounds \in Nat \ {0}
ASSUME SeqNumsAssumption == SeqNums \subseteq Nat
ASSUME MaxLossesAssumption == MaxLosses \in Nat
\* Two runs draw their numbers independently out of 2^30.
ASSUME LateNumbersAssumption ==
  \A n \in SeqNums : Seq64to32(n + 1) \notin LateNumbers

VARIABLES
  c_pc,          \* where the sender is
  c_seq_num,     \* its seq_num
  c_addrlen,     \* whether its dest_addr is set: addrlen # 0
  c_left,        \* rounds left of close()
  c_anew,        \* its wait of 100 ms has begun anew in this round
  r_pc,          \* where the receiver is
  r_seq_num, r_addrlen,
  fin_received,  \* recv_packet has seen a FIN
  r_left,        \* rounds left of the present wait of wait_close()
  c2r, r2c,      \* numbers of the FINs and of the FIN&ACKs on their way
  losses,        \* datagrams lost
  skipped,       \* rounds of close() that have ended without a FIN
  owed           \* history: the rounds in which the receiver is going to
                 \* answer while close() still waits, as of its first answer

closeVars     == <<c_pc, c_seq_num, c_addrlen, c_left, c_anew>>
waitCloseVars == <<r_pc, r_seq_num, r_addrlen, fin_received, r_left>>
vars          == <<closeVars, waitCloseVars, c2r, r2c, losses, skipped, owed>>

\* "timedout" is the return of -1 after the deadline, "failed" any other one.
CloserPcs == {"open", "closing", "closed", "timedout", "failed"}
WaiterPcs == {"connected", "waiting", "lingering", "closed", "timedout", "failed"}

CloseReturned     == c_pc \in {"closed", "timedout", "failed"}
WaitCloseReturned == r_pc \in {"closed", "timedout", "failed"}

\* The receiver's seq_num may be higher by SeqMod, see SkewedRoundTrip.
Init ==
  /\ c_pc = "open"
  /\ c_seq_num \in SeqNums
  /\ c_addrlen = TRUE
  /\ c_left = 0
  /\ c_anew = FALSE
  /\ r_pc = "connected"
  /\ r_seq_num \in {c_seq_num, c_seq_num + SeqMod}
  /\ r_addrlen = TRUE
  /\ fin_received = FALSE
  /\ r_left = 0
  /\ c2r = {}
  /\ r2c = {}
  /\ losses = 0
  /\ skipped = 0
  /\ owed = 0

-----------------------------------------------------------------------------
(* close                                                                   *)

FinNumber    == Seq64to32(c_seq_num)
FinAckNumber == Seq64to32(r_seq_num)

\* The first FIN.
CallClose ==
  /\ c_pc = "open"
  /\ c_pc' = "closing"
  /\ c_seq_num' = c_seq_num + 1
  /\ c_left' = CloseRounds
  /\ c2r' = c2r \union {Seq64to32(c_seq_num')}
  /\ UNCHANGED <<c_addrlen, c_anew, waitCloseVars, r2c, losses, skipped, owed>>

\* Mutant of RecvFinAck: the number is not looked at.
RecvAnyFinAck(n) ==
  /\ c_pc = "closing"
  /\ c_pc' = "closed"
  /\ c_addrlen' = FALSE
  /\ c_left' = 0
  /\ c_anew' = FALSE
  /\ r2c' = r2c \ {n}
  /\ UNCHANGED <<c_seq_num, waitCloseVars, c2r, losses, skipped, owed>>

\* The FIN&ACK with the right number.
RecvFinAck(n) ==
  /\ c_pc = "closing"
  /\ n = FinNumber
  /\ c_pc' = "closed"
  /\ c_addrlen' = FALSE
  /\ c_left' = 0
  /\ c_anew' = FALSE
  /\ r2c' = r2c \ {n}
  /\ UNCHANGED <<c_seq_num, waitCloseVars, c2r, losses, skipped, owed>>

\* A FIN&ACK with another number ends the wait of 100 ms and the next one begins
\* without a FIN. Here it is one that comes so late in its round that no FIN is
\* sent at the end of it; the deadline stays where it is.
RecvWrongFinAck(n) ==
  /\ c_pc = "closing"
  /\ n # FinNumber
  /\ c_anew' = TRUE
  /\ r2c' = r2c \ {n}
  /\ UNCHANGED <<c_pc, c_seq_num, c_addrlen, c_left, waitCloseVars, c2r, losses,
                 skipped, owed>>

\* send_packet or waitfor fails, or the process is killed. The number is counted
\* before the first FIN is sent.
CloseFails ==
  /\ ~CloseReturned
  /\ c_pc' = "failed"
  /\ c_seq_num' = IF c_pc = "open" THEN c_seq_num + 1 ELSE c_seq_num
  /\ c_left' = 0
  /\ c_anew' = FALSE
  /\ UNCHANGED <<c_addrlen, waitCloseVars, c2r, r2c, losses, skipped, owed>>

-----------------------------------------------------------------------------
(* wait_close                                                              *)

Least(m, n) == IF m <= n THEN m ELSE n

\* recv_packet records a FIN of the peer for the loops of recv_file.
EarlyFin(n) ==
  /\ r_pc = "connected"
  /\ r_addrlen
  /\ fin_received' = TRUE
  /\ c2r' = c2r \ {n}
  /\ UNCHANGED <<closeVars, r_pc, r_seq_num, r_addrlen, r_left, r2c, losses,
                 skipped, owed>>

\* The short way: the FIN is there. One FIN&ACK, and addrlen stays as it is.
AnswerAtOnce ==
  /\ r_pc = "connected"
  /\ fin_received
  /\ r_pc' = "closed"
  /\ r_seq_num' = r_seq_num + 1
  /\ r2c' = r2c \union {Seq64to32(r_seq_num')}
  /\ owed' = Least(1, c_left)
  /\ UNCHANGED <<closeVars, r_addrlen, fin_received, r_left, c2r, losses,
                 skipped>>

\* The long way: wait 5 s for a FIN.
WaitForFin ==
  /\ r_pc = "connected"
  /\ ~fin_received
  /\ r_pc' = "waiting"
  /\ r_seq_num' = r_seq_num + 1
  /\ r_left' = WaitRounds
  /\ UNCHANGED <<closeVars, r_addrlen, fin_received, c2r, r2c, losses, skipped,
                 owed>>

\* Mutant of RecvFin: the number is not looked at.
RecvAnyFin(n) ==
  /\ r_pc = "waiting"
  /\ fin_received' = TRUE
  /\ r_pc' = "lingering"
  /\ r_left' = LingerRounds
  /\ c2r' = c2r \ {n}
  /\ r2c' = r2c \union {FinAckNumber}
  /\ owed' = Least(LingerRounds, c_left)
  /\ UNCHANGED <<closeVars, r_seq_num, r_addrlen, losses, skipped>>

\* The FIN with the right number is answered, and 2 s begin.
RecvFin(n) ==
  /\ r_pc = "waiting"
  /\ n = FinAckNumber
  /\ fin_received' = TRUE
  /\ r_pc' = "lingering"
  /\ r_left' = LingerRounds
  /\ c2r' = c2r \ {n}
  /\ r2c' = r2c \union {FinAckNumber}
  /\ owed' = Least(LingerRounds, c_left)
  /\ UNCHANGED <<closeVars, r_seq_num, r_addrlen, losses, skipped>>

\* Mutant of RecvFinAgain: the 2 s begin anew with every FIN.
RestartLinger(n) ==
  /\ r_pc = "lingering"
  /\ n = FinAckNumber
  /\ r_left' = LingerRounds
  /\ c2r' = c2r \ {n}
  /\ r2c' = r2c \union {FinAckNumber}
  /\ UNCHANGED <<closeVars, r_pc, r_seq_num, r_addrlen, fin_received, losses,
                 skipped, owed>>

\* A repeated FIN says that the FIN&ACK was lost: it is answered again, and the
\* 2 s go on.
RecvFinAgain(n) ==
  /\ r_pc = "lingering"
  /\ n = FinAckNumber
  /\ c2r' = c2r \ {n}
  /\ r2c' = r2c \union {FinAckNumber}
  /\ UNCHANGED <<closeVars, waitCloseVars, losses, skipped, owed>>

\* A FIN with a wrong number is ignored by wait_close, but not by recv_packet.
RecvWrongFin(n) ==
  /\ r_pc \in {"waiting", "lingering"}
  /\ n # FinAckNumber
  /\ fin_received' = TRUE
  /\ c2r' = c2r \ {n}
  /\ UNCHANGED <<closeVars, r_pc, r_seq_num, r_addrlen, r_left, r2c, losses,
                 skipped, owed>>

\* 5 s without the FIN.
WaitTimesOut ==
  /\ r_pc = "waiting"
  /\ r_left = 0
  /\ r_pc' = "timedout"
  /\ UNCHANGED <<closeVars, r_seq_num, r_addrlen, fin_received, r_left, c2r, r2c,
                 losses, skipped, owed>>

\* The 2 s are over: wait_close returns 0 and forgets the peer.
LingerEnds ==
  /\ r_pc = "lingering"
  /\ r_left = 0
  /\ r_pc' = "closed"
  /\ r_addrlen' = FALSE
  /\ UNCHANGED <<closeVars, r_seq_num, fin_received, r_left, c2r, r2c, losses,
                 skipped, owed>>

\* send_packet or waitfor fails, or the process is killed.
WaitCloseFails ==
  /\ ~WaitCloseReturned
  /\ r_pc' = "failed"
  /\ r_seq_num' = IF r_pc = "connected" THEN r_seq_num + 1 ELSE r_seq_num
  /\ UNCHANGED <<closeVars, r_addrlen, fin_received, r_left, c2r, r2c, losses,
                 skipped, owed>>

-----------------------------------------------------------------------------
(* The network and the time.                                               *)

\* The network drops a datagram.
Lose ==
  /\ losses < MaxLosses
  /\ losses' = losses + 1
  /\ \/ \E n \in c2r : c2r' = c2r \ {n} /\ r2c' = r2c
     \/ \E n \in r2c : r2c' = r2c \ {n} /\ c2r' = c2r
  /\ UNCHANGED <<closeVars, waitCloseVars, skipped, owed>>

\* Whoever waits has read what was sent in this round, and no wait of the receiver
\* ends in it.
RoundIsOver ==
  /\ c_pc = "closing" => r2c = {}
  /\ r_pc \in {"waiting", "lingering"} => c2r = {} /\ r_left > 0

\* What is still unread at the end of the round: a receiver that has not called
\* wait_close yet may be busy with its file. Others have thrown it away.
UnreadFins == IF r_pc = "connected" THEN c2r ELSE {}

\* Mutant of NextRound: close() does not get nearer to its deadline.
NextRoundForever ==
  /\ RoundIsOver
  /\ c2r' = IF c_pc = "closing" THEN UnreadFins \union {FinNumber} ELSE UnreadFins
  /\ r2c' = {}
  /\ r_left' = IF r_pc \in {"waiting", "lingering"} THEN r_left - 1 ELSE r_left
  /\ UNCHANGED <<closeVars, r_pc, r_seq_num, r_addrlen, fin_received, losses,
                 skipped, owed>>

\* Mutant of NextRound: after a FIN&ACK with a wrong number close() waits in
\* silence until its deadline.
NextRoundSilent ==
  /\ RoundIsOver
  /\ IF c_pc = "closing"
     THEN /\ c_left' = c_left - 1
          /\ c_pc' = IF c_left' = 0 THEN "timedout" ELSE "closing"
          /\ skipped' = IF c_anew /\ skipped = 0 THEN 1 ELSE skipped
          /\ c2r' = IF c_anew THEN UnreadFins ELSE UnreadFins \union {FinNumber}
     ELSE c2r' = UnreadFins /\ UNCHANGED <<c_pc, c_left, skipped>>
  /\ r2c' = {}
  /\ r_left' = IF r_pc \in {"waiting", "lingering"} THEN r_left - 1 ELSE r_left
  /\ UNCHANGED <<c_seq_num, c_addrlen, c_anew, r_pc, r_seq_num, r_addrlen,
                 fin_received, losses, owed>>

\* 100 ms later: close() repeats its FIN, even when that was its last wait, unless
\* a wrong FIN&ACK has made the wait begin anew.
NextRound ==
  /\ RoundIsOver
  /\ IF c_pc = "closing"
     THEN /\ c_left' = c_left - 1
          /\ c_pc' = IF c_left' = 0 THEN "timedout" ELSE "closing"
          /\ c_anew' = FALSE
          /\ skipped' = IF c_anew THEN skipped + 1 ELSE skipped
          /\ c2r' = IF c_anew THEN UnreadFins ELSE UnreadFins \union {FinNumber}
     ELSE c2r' = UnreadFins /\ UNCHANGED <<c_pc, c_left, c_anew, skipped>>
  /\ r2c' = {}
  /\ r_left' = IF r_pc \in {"waiting", "lingering"} THEN r_left - 1 ELSE r_left
  /\ UNCHANGED <<c_seq_num, c_addrlen, r_pc, r_seq_num, r_addrlen, fin_received,
                 losses, owed>>

Closer ==
  \/ CallClose \/ CloseFails
  \/ \E n \in r2c \union LateNumbers : RecvFinAck(n) \/ RecvWrongFinAck(n)

Waiter ==
  \/ \E n \in c2r \union LateNumbers :
       EarlyFin(n) \/ RecvFin(n) \/ RecvFinAgain(n) \/ RecvWrongFin(n)
  \/ AnswerAtOnce \/ WaitForFin \/ WaitTimesOut \/ LingerEnds \/ WaitCloseFails

Next == Closer \/ Waiter \/ Lose \/ NextRound

Spec == Init /\ [][Next]_vars

\* The programs call close and wait_close, datagrams arrive or are lost, and time
\* goes on. Nothing is assumed of what a failing call or the network does.
FairSpec ==
  /\ Spec
  /\ WF_vars(CallClose) /\ WF_vars(AnswerAtOnce \/ WaitForFin)
  /\ WF_vars(\E n \in r2c : RecvFinAck(n))
  /\ WF_vars(\E n \in c2r : RecvFin(n) \/ RecvFinAgain(n))
  /\ WF_vars(WaitTimesOut) /\ WF_vars(LingerEnds)
  /\ WF_vars(NextRound)

-----------------------------------------------------------------------------
(* Properties                                                              *)

\* Type correctness.
TypeOK ==
  /\ c_pc \in CloserPcs /\ r_pc \in WaiterPcs
  /\ c_seq_num \in Nat /\ r_seq_num \in Nat
  /\ c_addrlen \in BOOLEAN /\ r_addrlen \in BOOLEAN
  /\ fin_received \in BOOLEAN
  /\ c_left \in 0 .. CloseRounds
  /\ r_left \in 0 .. WaitRounds \/ r_left \in 0 .. LingerRounds
  /\ c2r \subseteq Seq32 /\ r2c \subseteq Seq32
  /\ c_anew \in BOOLEAN
  /\ losses \in 0 .. MaxLosses
  /\ skipped \in Nat
  /\ owed \in Nat

\* wait_close has sent a FIN&ACK to a close() that was waiting for it or was still
\* to come, before it failed, if it has failed.
Answered == r_pc \in {"lingering", "closed"} \/ (r_pc = "failed" /\ owed > 0)

\* close() returns 0 only if the wait_close of this connection has answered; no
\* FIN&ACK of an earlier run is taken for the answer.
CloseIsHeard == c_pc = "closed" => Answered

\* On its long way wait_close believes no FIN but that of close(): what it
\* answers and forgets is a connection the sender wants to end, although a FIN
\* of an earlier run comes from the right address, too.
ForgetsOnlyWhenAsked ==
  r_pc = "lingering" \/ ~r_addrlen => c_pc # "open"

\* "No FIN within two seconds means that the FIN&ACK has arrived"
\* (src/rtp.cpp:627), as far as it is true: close() runs into its deadline after a
\* successful wait_close only if every round in which wait_close still answers has
\* cost a datagram that the network has lost, or the FIN that close() has not sent
\* because a FIN&ACK of an earlier run had begun its 100 ms anew. On the long way
\* these rounds are the 2 s or what is left of the 5 s of close(), on the short way
\* a single one.
LossesExplainTimeout ==
  c_pc = "timedout" /\ r_pc = "closed" => losses + skipped >= owed

\* The rounds that either call can still last.
CloseTimeLeft ==
  IF c_pc = "open" THEN CloseRounds ELSE IF c_pc = "closing" THEN c_left ELSE 0

WaitTimeLeft ==
  IF r_pc = "connected" THEN WaitRounds + LingerRounds
  ELSE IF r_pc = "waiting" THEN r_left + LingerRounds
  ELSE IF r_pc = "lingering" THEN r_left ELSE 0

\* Neither call lasts longer for anything the other side or the network does: no
\* FIN or FIN&ACK, repeated or out of an earlier run, gives a deadline time back,
\* and every 100 ms take their part of it. close() returns within 5 s and
\* wait_close within 5 s and 2 s.
TimeRunsOut ==
  [][/\ CloseTimeLeft' <= CloseTimeLeft
     /\ WaitTimeLeft' <= WaitTimeLeft
     /\ NextRound =>
          /\ c_pc = "closing" => CloseTimeLeft' < CloseTimeLeft
          /\ r_pc \in {"waiting", "lingering"} => WaitTimeLeft' < WaitTimeLeft]_vars

\* Both calls return: neither repeated FINs nor repeated answers prolong them.
Termination == <>(CloseReturned /\ WaitCloseReturned)

\* "Remember to clear addrlen when the connection is closed" (src/rtp.h:56): an
\* object whose closing call has returned 0 has forgotten its peer and can accept
\* another one.
ClosedForgetsPeer ==
  /\ c_pc = "closed" => ~c_addrlen
  /\ r_pc = "closed" => ~r_addrlen

-----------------------------------------------------------------------------
(* The inductive invariant.                                                *)

\* The number of the FIN and of the FIN&ACK, sent or still to be sent.
ClosingNumber ==
  Seq64to32(IF c_pc = "open" THEN c_seq_num + 1 ELSE c_seq_num)

\* Both sides name the same number, which no earlier run has used.
NumberInv ==
  /\ ClosingNumber =
       Seq64to32(IF r_pc = "connected" THEN r_seq_num + 1 ELSE r_seq_num)
  /\ ClosingNumber \notin LateNumbers
  /\ c2r \subseteq {ClosingNumber}
  /\ r2c \subseteq {ClosingNumber}

\* What a place of one side, or a datagram, tells of the other side.
PlaceInv ==
  /\ c2r # {} => c_pc # "open"
  /\ c_pc = "closed" \/ (c_pc \in {"open", "closing"} /\ r2c # {}) => Answered
  /\ c_pc \in {"closing", "closed"} /\ r_pc = "lingering" => owed > 0
  /\ r_pc = "lingering" \/ ~r_addrlen => c_pc # "open"
  /\ c_pc = "closing" <=> c_left > 0
  /\ r_pc = "lingering" => r_left <= LingerRounds

\* Rounds that have passed since the first answer on the long way.
Answering == LingerRounds - r_left

\* Every round in which wait_close answers and close() still waits at the end has
\* cost a datagram or a FIN.
LossInv ==
  /\ c_pc = "open" => owed = 0
  /\ r_pc = "lingering" /\ c_pc = "closing" =>
       /\ owed = Least(LingerRounds, c_left + Answering)
       /\ losses + skipped >= Answering
       /\ c2r = {} /\ r2c = {} => losses + skipped > Answering
  /\ r_pc = "lingering" /\ c_pc = "timedout" => losses + skipped >= owed
  /\ r_pc = "closed" /\ c_pc = "closing" =>
       losses + skipped >= owed \/ (owed = 1 /\ r2c # {})
  /\ r_pc = "closed" /\ c_pc = "timedout" => losses + skipped >= owed

CloseInv == TypeOK /\ NumberInv /\ PlaceInv /\ LossInv
=============================================================================
