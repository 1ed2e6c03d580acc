---------------------------- MODULE RtpCloseProofs ----------------------------
(***************************************************************************)
(* close and wait_close for every number of rounds, every number of lost   *)
(* datagrams and every datagram of an earlier run that does not carry the  *)
(* number of this FIN. The argument is LossInv: while both sides are at    *)
(* it, every round that passes has cost a datagram, or the FIN that a      *)
(* FIN&ACK of an earlier run has kept close() from sending.                *)
(***************************************************************************)
EXTENDS RtpClose, SeqNumProofs

\* What the constants say of the numbers.
LEMMA Constants ==
  /\ SeqMod \in Nat /\ SeqMod > 1
  /\ CloseRounds \in Nat /\ CloseRounds > 0
  /\ WaitRounds \in Nat /\ WaitRounds > 0
  /\ LingerRounds \in Nat /\ LingerRounds > 0
  /\ MaxLosses \in Nat /\ SeqNums \subseteq Nat
BY SeqModAssumption, RoundsAssumption, MaxLossesAssumption, SeqNumsAssumption

\* What the invariant says of the members.
LEMMA Members ==
  ASSUME TypeOK
  PROVE  /\ c_seq_num \in Nat /\ r_seq_num \in Nat
         /\ c_left \in Nat /\ r_left \in Nat /\ losses \in Nat
         /\ skipped \in Nat /\ owed \in Nat
         /\ ClosingNumber \in Seq32
         /\ Seq64to32(c_seq_num + 1) \in Seq32
         /\ Seq64to32(r_seq_num + 1) \in Seq32
         /\ FinNumber \in Seq32 /\ FinAckNumber \in Seq32
<1>1. /\ c_seq_num \in Nat /\ r_seq_num \in Nat
      /\ c_left \in Nat /\ r_left \in Nat /\ losses \in Nat
      /\ skipped \in Nat /\ owed \in Nat
  BY Constants DEF TypeOK
<1>2. \A n \in Nat : Seq64to32(n) \in Seq32
  BY HeaderNumberFits
<1> QED
  BY <1>1, <1>2 DEF ClosingNumber, FinNumber, FinAckNumber

\* Before its first FIN the sender is not in anyone's way: a receiver that does
\* not know its number believes no FIN.
LEMMA OpenIsQuiet ==
  ASSUME CloseInv, c_pc = "open"
  PROVE  /\ c2r = {} /\ r_pc # "lingering" /\ r_addrlen /\ owed = 0 /\ c_left = 0
         /\ r_pc # "connected" => FinAckNumber \notin c2r \union LateNumbers
<1>1. c2r = {} /\ r_pc # "lingering" /\ r_addrlen /\ owed = 0 /\ c_left = 0
  BY Members DEF CloseInv, PlaceInv, LossInv
<1> QED
  BY <1>1 DEF CloseInv, NumberInv, FinAckNumber

-----------------------------------------------------------------------------
\* Both sides begin with the same number, or SeqMod apart.
LEMMA InitEstablishes == Init => CloseInv
<1> SUFFICES ASSUME Init
             PROVE  CloseInv
  OBVIOUS
<1>1. c_seq_num \in SeqNums /\ c_seq_num \in Nat
      /\ r_seq_num \in {c_seq_num, c_seq_num + SeqMod}
  BY Constants DEF Init
<1>2. TypeOK
  <2>1. r_seq_num \in Nat
    BY <1>1, Constants
  <2>2. c_left = 0 /\ r_left = 0 /\ losses = 0 /\ skipped = 0 /\ owed = 0
    BY DEF Init
  <2>3. c_left \in 0 .. CloseRounds /\ r_left \in 0 .. WaitRounds
        /\ losses \in 0 .. MaxLosses /\ skipped \in Nat /\ owed \in Nat
    BY <2>2, Constants
  <2> QED
    BY <1>1, <2>1, <2>3 DEF Init, TypeOK, CloserPcs, WaiterPcs
<1>3. Seq64to32(r_seq_num + 1) = Seq64to32(c_seq_num + 1)
  <2>1. CASE r_seq_num = c_seq_num
    BY <2>1
  <2>2. CASE r_seq_num = c_seq_num + SeqMod
    <3>1. r_seq_num + 1 = (c_seq_num + 1) + SeqMod
      BY <1>1, <2>2, Constants
    <3>2. Seq64to32((c_seq_num + 1) + SeqMod) = Seq64to32(c_seq_num + 1)
      BY <1>1, HeaderNumberRepeats
    <3> QED
      BY <3>1, <3>2, Zenon
  <2> QED
    BY <1>1, <2>1, <2>2
<1>4. NumberInv
  BY <1>1, <1>3, LateNumbersAssumption DEF Init, NumberInv, ClosingNumber
<1>5. PlaceInv /\ LossInv
  BY Constants DEF Init, PlaceInv, LossInv
<1> QED
  BY <1>2, <1>4, <1>5 DEF CloseInv

-----------------------------------------------------------------------------
\* The first FIN finds nobody lingering.
LEMMA CallCloseKeeps ==
  ASSUME CloseInv, CallClose
  PROVE  CloseInv'
<1> USE DEF CloseInv, closeVars, waitCloseVars
<1>1. TypeOK'
  BY Constants, Members, OpenIsQuiet DEF CallClose, TypeOK, CloserPcs, WaiterPcs
<1>2. NumberInv'
  BY Constants, Members, OpenIsQuiet DEF CallClose, NumberInv, ClosingNumber
<1>3. PlaceInv'
  BY Constants, Members, OpenIsQuiet DEF CallClose, PlaceInv, TypeOK, Answered
<1>4. LossInv'
  BY Constants, Members, OpenIsQuiet
     DEF CallClose, LossInv, PlaceInv, NumberInv, Answering, Least, Answered
<1> QED
  BY <1>1, <1>2, <1>3, <1>4

\* A FIN&ACK with the right number was sent by the receiver.
LEMMA RecvFinAckKeeps ==
  ASSUME CloseInv, NEW n \in r2c \union LateNumbers, RecvFinAck(n)
  PROVE  CloseInv'
<1> USE DEF CloseInv, closeVars, waitCloseVars
<1>0. r2c # {}
  BY DEF RecvFinAck, NumberInv, ClosingNumber, FinNumber
<1>1. TypeOK'
  <2>1. c_left' \in 0 .. CloseRounds /\ r2c' \subseteq Seq32
    BY Constants DEF RecvFinAck, TypeOK
  <2> QED
    BY <2>1 DEF RecvFinAck, TypeOK, CloserPcs
<1>2. NumberInv'
  BY Constants, Members, <1>0 DEF RecvFinAck, NumberInv, ClosingNumber
<1>3. PlaceInv'
  BY Constants, Members, <1>0 DEF RecvFinAck, PlaceInv, TypeOK, Answered
<1>4. LossInv'
  BY Constants, Members, <1>0
     DEF RecvFinAck, LossInv, PlaceInv, NumberInv, Answering, Least, Answered
<1> QED
  BY <1>1, <1>2, <1>3, <1>4

\* A FIN&ACK of an earlier run takes no datagram of this connection with it.
LEMMA RecvWrongFinAckKeeps ==
  ASSUME CloseInv, NEW n \in r2c \union LateNumbers, RecvWrongFinAck(n)
  PROVE  CloseInv'
<1> USE DEF CloseInv, closeVars, waitCloseVars
<1>1. r2c \ {n} = r2c
  BY DEF RecvWrongFinAck, NumberInv, PlaceInv, ClosingNumber, FinNumber
<1>2. /\ UNCHANGED <<c_pc, c_seq_num, c_addrlen, c_left, waitCloseVars>>
      /\ UNCHANGED <<c2r, r2c, losses, skipped, owed>>
      /\ c_anew' = TRUE
  BY <1>1 DEF RecvWrongFinAck
<1>3. TypeOK'
  BY <1>2 DEF TypeOK
<1>4. NumberInv'
  BY <1>2 DEF NumberInv, ClosingNumber
<1>5. PlaceInv'
  BY <1>2 DEF PlaceInv, Answered
<1>6. LossInv'
  BY <1>2 DEF LossInv, Answering
<1> QED
  BY <1>3, <1>4, <1>5, <1>6

\* close() fails.
LEMMA CloserFailsKeeps ==
  ASSUME CloseInv, CloseFails
  PROVE  CloseInv'
<1> USE DEF CloseInv, closeVars, waitCloseVars
<1>1. TypeOK'
  <2>1. c_pc' \in CloserPcs /\ c_seq_num' \in Nat /\ c_left' \in 0 .. CloseRounds
    BY Constants, Members DEF CloseFails, CloserPcs
  <2>2. c_anew' \in BOOLEAN
    BY DEF CloseFails
  <2> QED
    BY <2>1, <2>2 DEF CloseFails, TypeOK
<1>2. NumberInv'
  BY Constants, Members, OpenIsQuiet DEF CloseFails, CloseReturned, NumberInv, ClosingNumber
<1>3. PlaceInv'
  BY Constants, Members, OpenIsQuiet
     DEF CloseFails, CloseReturned, PlaceInv, TypeOK, Answered
<1>4. LossInv'
  BY Constants, Members, OpenIsQuiet
     DEF CloseFails, CloseReturned, LossInv, PlaceInv, NumberInv, Answering, Least, Answered
<1> QED
  BY <1>1, <1>2, <1>3, <1>4

\* A FIN recv_file has seen, whoever sent it.
LEMMA EarlyFinKeeps ==
  ASSUME CloseInv, NEW n \in c2r \union LateNumbers, EarlyFin(n)
  PROVE  CloseInv'
<1> USE DEF CloseInv, closeVars, waitCloseVars
<1>1. TypeOK'
  BY Constants, Members DEF EarlyFin, TypeOK, CloserPcs, WaiterPcs
<1>2. NumberInv'
  BY Constants, Members DEF EarlyFin, NumberInv, ClosingNumber
<1>3. PlaceInv'
  BY Constants, Members DEF EarlyFin, PlaceInv, TypeOK, Answered
<1>4. LossInv'
  BY Constants, Members
     DEF EarlyFin, LossInv, PlaceInv, NumberInv, Answering, Least, Answered
<1> QED
  BY <1>1, <1>2, <1>3, <1>4

\* The short way of wait_close: its only FIN&ACK is on its way.
LEMMA AnswerAtOnceKeeps ==
  ASSUME CloseInv, AnswerAtOnce
  PROVE  CloseInv'
<1> USE DEF CloseInv, closeVars, waitCloseVars
<1>1. TypeOK'
  BY Members DEF AnswerAtOnce, TypeOK, WaiterPcs, Least
<1>2. NumberInv'
  BY Constants, Members DEF AnswerAtOnce, NumberInv, ClosingNumber
<1>3. PlaceInv'
  BY Constants, Members DEF AnswerAtOnce, PlaceInv, TypeOK, Answered
<1>4. LossInv'
  BY Constants, Members
     DEF AnswerAtOnce, LossInv, PlaceInv, NumberInv, Answering, Least, Answered
<1> QED
  BY <1>1, <1>2, <1>3, <1>4

\* The long way of wait_close begins.
LEMMA WaitForFinKeeps ==
  ASSUME CloseInv, WaitForFin
  PROVE  CloseInv'
<1> USE DEF CloseInv, closeVars, waitCloseVars
<1>1. TypeOK'
  BY Constants, Members DEF WaitForFin, TypeOK, CloserPcs, WaiterPcs
<1>2. NumberInv'
  BY Constants, Members DEF WaitForFin, NumberInv, ClosingNumber
<1>3. PlaceInv'
  BY Constants, Members DEF WaitForFin, PlaceInv, TypeOK, Answered
<1>4. LossInv'
  BY Constants, Members
     DEF WaitForFin, LossInv, PlaceInv, NumberInv, Answering, Least, Answered
<1> QED
  BY <1>1, <1>2, <1>3, <1>4

\* The FIN wait_close believes was sent by the sender. No round has passed yet.
LEMMA RecvFinKeeps ==
  ASSUME CloseInv, NEW n \in c2r \union LateNumbers, RecvFin(n)
  PROVE  CloseInv'
<1> USE DEF CloseInv, closeVars, waitCloseVars
<1>1. TypeOK'
  BY Constants, Members DEF RecvFin, TypeOK, WaiterPcs, Least
<1>2. NumberInv'
  BY Constants, Members, OpenIsQuiet DEF RecvFin, NumberInv, ClosingNumber, FinAckNumber
<1>3. PlaceInv'
  BY Constants, Members, OpenIsQuiet
     DEF RecvFin, PlaceInv, TypeOK, Answered, FinAckNumber, Least
<1>4. LossInv'
  BY Constants, Members, OpenIsQuiet
     DEF RecvFin, LossInv, PlaceInv, NumberInv, Answering, Least, Answered, FinAckNumber
<1> QED
  BY <1>1, <1>2, <1>3, <1>4

\* A repeated FIN is answered: the round has its datagram again.
LEMMA RecvFinAgainKeeps ==
  ASSUME CloseInv, NEW n \in c2r \union LateNumbers, RecvFinAgain(n)
  PROVE  CloseInv'
<1> USE DEF CloseInv, closeVars, waitCloseVars
<1>1. TypeOK'
  BY Constants, Members DEF RecvFinAgain, TypeOK, CloserPcs, WaiterPcs, FinAckNumber
<1>2. NumberInv'
  BY Constants, Members DEF RecvFinAgain, NumberInv, ClosingNumber, FinAckNumber
<1>3. PlaceInv'
  BY Constants, Members DEF RecvFinAgain, PlaceInv, TypeOK, Answered, FinAckNumber
<1>4. LossInv'
  BY Constants, Members
     DEF RecvFinAgain, LossInv, PlaceInv, NumberInv, Answering, Least, Answered,
         FinAckNumber
<1> QED
  BY <1>1, <1>2, <1>3, <1>4

\* A FIN of an earlier run takes no datagram of this connection with it.
LEMMA RecvWrongFinKeeps ==
  ASSUME CloseInv, NEW n \in c2r \union LateNumbers, RecvWrongFin(n)
  PROVE  CloseInv'
<1> USE DEF CloseInv, closeVars, waitCloseVars
<1>0. c2r \ {n} = c2r
  BY DEF RecvWrongFin, NumberInv, FinAckNumber
<1>1. TypeOK'
  BY Constants, Members, <1>0 DEF RecvWrongFin, TypeOK, CloserPcs, WaiterPcs
<1>2. NumberInv'
  BY Constants, Members, <1>0 DEF RecvWrongFin, NumberInv, ClosingNumber
<1>3. PlaceInv'
  BY Constants, Members, <1>0 DEF RecvWrongFin, PlaceInv, TypeOK, Answered
<1>4. LossInv'
  BY Constants, Members, <1>0
     DEF RecvWrongFin, LossInv, PlaceInv, NumberInv, Answering, Least, Answered
<1> QED
  BY <1>1, <1>2, <1>3, <1>4

\* wait_close fails.
LEMMA WaitEndsKeeps ==
  ASSUME CloseInv, WaitTimesOut \/ WaitCloseFails
  PROVE  CloseInv'
<1> USE DEF CloseInv, closeVars, waitCloseVars
<1>1. TypeOK'
  BY Constants, Members
     DEF WaitTimesOut, WaitCloseFails, WaitCloseReturned, TypeOK, CloserPcs, WaiterPcs
<1>2. NumberInv'
  BY Constants, Members
     DEF WaitTimesOut, WaitCloseFails, WaitCloseReturned, NumberInv, ClosingNumber
<1>3. PlaceInv'
  BY Constants, Members
     DEF WaitTimesOut, WaitCloseFails, WaitCloseReturned, PlaceInv, TypeOK, Answered
<1>4. LossInv'
  BY Constants, Members
     DEF WaitTimesOut, WaitCloseFails, WaitCloseReturned, LossInv, PlaceInv, NumberInv,
         Answering, Least, Answered
<1> QED
  BY <1>1, <1>2, <1>3, <1>4

\* The 2 s are over: each of its rounds has cost a datagram.
LEMMA LingerEndsKeeps ==
  ASSUME CloseInv, LingerEnds
  PROVE  CloseInv'
<1> USE DEF CloseInv, closeVars, waitCloseVars
<1>1. TypeOK'
  BY Constants, Members, OpenIsQuiet DEF LingerEnds, TypeOK, CloserPcs, WaiterPcs
<1>2. NumberInv'
  BY Constants, Members, OpenIsQuiet DEF LingerEnds, NumberInv, ClosingNumber
<1>3. PlaceInv'
  BY Constants, Members, OpenIsQuiet DEF LingerEnds, PlaceInv, TypeOK, Answered
<1>4. LossInv'
  BY Constants, Members, OpenIsQuiet
     DEF LingerEnds, LossInv, PlaceInv, NumberInv, Answering, Least, Answered
<1> QED
  BY <1>1, <1>2, <1>3, <1>4

\* A lost datagram counts.
LEMMA LoseKeeps ==
  ASSUME CloseInv, Lose
  PROVE  CloseInv'
<1> USE DEF CloseInv, closeVars, waitCloseVars
<1>1. TypeOK'
  BY Constants, Members DEF Lose, TypeOK, CloserPcs, WaiterPcs
<1>2. NumberInv'
  BY Constants, Members DEF Lose, NumberInv, ClosingNumber
<1>3. PlaceInv'
  BY Constants, Members DEF Lose, PlaceInv, TypeOK, Answered
<1>4. LossInv'
  BY Constants, Members
     DEF Lose, LossInv, PlaceInv, NumberInv, Answering, Least, Answered
<1> QED
  BY <1>1, <1>2, <1>3, <1>4

\* A round in which both wait has lost a datagram or its FIN.
LEMMA NextRoundKeeps ==
  ASSUME CloseInv, NextRound
  PROVE  CloseInv'
<1> USE DEF CloseInv, closeVars, waitCloseVars
<1>1. TypeOK'
  <2>1. c_pc' \in CloserPcs /\ c_left' \in 0 .. CloseRounds
    BY Constants DEF NextRound, TypeOK, CloserPcs, PlaceInv
  <2>2. r_left' \in 0 .. WaitRounds \/ r_left' \in 0 .. LingerRounds
    BY Constants DEF NextRound, RoundIsOver, TypeOK
  <2>3. c2r' \subseteq Seq32 /\ r2c' \subseteq Seq32
    BY Members DEF NextRound, UnreadFins, TypeOK
  <2>4. skipped' \in Nat
    BY Members DEF NextRound
  <2>5. c_anew' \in BOOLEAN
    BY DEF NextRound, TypeOK
  <2> QED
    BY <2>1, <2>2, <2>3, <2>4, <2>5 DEF NextRound, TypeOK
<1>2. NumberInv'
  BY Constants, Members
     DEF NextRound, RoundIsOver, UnreadFins, FinNumber, NumberInv, ClosingNumber
<1>3. PlaceInv'
  BY Constants, Members
     DEF NextRound, RoundIsOver, UnreadFins, FinNumber, PlaceInv, TypeOK, Answered
<1>4. LossInv'
  BY Constants, Members
     DEF NextRound, RoundIsOver, UnreadFins, FinNumber, LossInv, PlaceInv, NumberInv,
         Answering, Least, Answered
<1> QED
  BY <1>1, <1>2, <1>3, <1>4

LEMMA StutterKeeps ==
  ASSUME CloseInv, UNCHANGED vars
  PROVE  CloseInv'
<1> USE DEF CloseInv, closeVars, waitCloseVars
<1>1. TypeOK'
  BY Constants, Members DEF vars, TypeOK, CloserPcs, WaiterPcs
<1>2. NumberInv'
  BY Constants, Members DEF vars, NumberInv, ClosingNumber
<1>3. PlaceInv'
  BY Constants, Members DEF vars, PlaceInv, TypeOK, Answered
<1>4. LossInv'
  BY Constants, Members
     DEF vars, LossInv, PlaceInv, NumberInv, Answering, Least, Answered
<1> QED
  BY <1>1, <1>2, <1>3, <1>4

LEMMA NextKeeps ==
  ASSUME CloseInv, [Next]_vars
  PROVE  CloseInv'
BY CallCloseKeeps, RecvFinAckKeeps, RecvWrongFinAckKeeps, CloserFailsKeeps, EarlyFinKeeps,
   AnswerAtOnceKeeps, WaitForFinKeeps, RecvFinKeeps, RecvFinAgainKeeps,
   RecvWrongFinKeeps, WaitEndsKeeps, LingerEndsKeeps, LoseKeeps,
   NextRoundKeeps, StutterKeeps
   DEF Next, Closer, Waiter

-----------------------------------------------------------------------------
(* The theorems.                                                           *)

\* The invariant holds whatever the network loses and whoever fails.
THEOREM CloseInvariance == Spec => []CloseInv
<1>1. Init => CloseInv
  BY InitEstablishes
<1>2. CloseInv /\ [Next]_vars => CloseInv'
  BY NextKeeps
<1> QED
  BY <1>1, <1>2, PTL DEF Spec

\* Members, counters and datagrams keep to their types.
THEOREM CloseTypeCorrect == Spec => []TypeOK
<1>1. CloseInv => TypeOK
  BY DEF CloseInv
<1> QED
  BY <1>1, CloseInvariance, PTL

\* close() returns 0 only after this connection's wait_close has answered.
THEOREM CloseHeard == Spec => []CloseIsHeard
<1>1. CloseInv => CloseIsHeard
  BY DEF CloseInv, PlaceInv, Answered, CloseIsHeard
<1> QED
  BY <1>1, CloseInvariance, PTL

\* wait_close forgets its peer only if the sender has begun to close.
THEOREM NeverForgottenUnasked == Spec => []ForgetsOnlyWhenAsked
<1>1. CloseInv => ForgetsOnlyWhenAsked
  BY DEF CloseInv, PlaceInv, ForgetsOnlyWhenAsked
<1> QED
  BY <1>1, CloseInvariance, PTL

\* A close() that times out beside a wait_close that has succeeded has lost a
\* datagram in every round in which it was going to be answered, or has sent no FIN
\* in it because of a late FIN&ACK: 20 of them on the long way, if it had 2 s left.
THEOREM TimeoutIsExplained == Spec => []LossesExplainTimeout
<1>1. CloseInv => LossesExplainTimeout
  BY DEF CloseInv, LossInv, LossesExplainTimeout
<1> QED
  BY <1>1, CloseInvariance, PTL

-----------------------------------------------------------------------------
(* The time that is left.                                                  *)

\* The time left, place by place.
LEMMA ClosePlaces ==
  /\ c_pc = "open" => CloseTimeLeft = CloseRounds
  /\ c_pc = "closing" => CloseTimeLeft = c_left
  /\ c_pc \notin {"open", "closing"} => CloseTimeLeft = 0
  /\ c_pc' = "closing" => CloseTimeLeft' = c_left'
  /\ c_pc' \notin {"open", "closing"} => CloseTimeLeft' = 0
  /\ UNCHANGED <<c_pc, c_left>> => CloseTimeLeft' = CloseTimeLeft
BY DEF CloseTimeLeft

LEMMA WaitPlaces ==
  /\ r_pc = "connected" => WaitTimeLeft = WaitRounds + LingerRounds
  /\ r_pc = "waiting" => WaitTimeLeft = r_left + LingerRounds
  /\ r_pc = "lingering" => WaitTimeLeft = r_left
  /\ r_pc \notin {"connected", "waiting", "lingering"} => WaitTimeLeft = 0
  /\ r_pc' = "waiting" => WaitTimeLeft' = r_left' + LingerRounds
  /\ r_pc' = "lingering" => WaitTimeLeft' = r_left'
  /\ r_pc' \notin {"connected", "waiting", "lingering"} => WaitTimeLeft' = 0
  /\ UNCHANGED <<r_pc, r_left>> => WaitTimeLeft' = WaitTimeLeft
BY DEF WaitTimeLeft

LEMMA TimesAreNumbers ==
  ASSUME CloseInv
  PROVE  /\ CloseTimeLeft \in Nat /\ WaitTimeLeft \in Nat
         /\ c_left \in Nat /\ r_left \in Nat
<1>1. c_left \in Nat /\ r_left \in Nat
  BY Members DEF CloseInv
<1>2. WaitRounds + LingerRounds \in Nat /\ r_left + LingerRounds \in Nat
  BY <1>1, Constants
<1>3. CloseTimeLeft \in Nat
  BY <1>1, Constants, ClosePlaces
<1>4. WaitTimeLeft \in Nat
  BY <1>1, <1>2, WaitPlaces
<1> QED
  BY <1>1, <1>3, <1>4

\* A step of close() or its failure: the closer's time runs, the waiter's stands.
LEMMA CloserKeepsTime ==
  ASSUME CloseInv, Closer
  PROVE  CloseTimeLeft' <= CloseTimeLeft /\ WaitTimeLeft' = WaitTimeLeft
<1>1. UNCHANGED <<r_pc, r_left>>
  BY DEF Closer, CallClose, CloseFails, RecvFinAck, RecvWrongFinAck,
         waitCloseVars
<1>2. WaitTimeLeft' = WaitTimeLeft
  BY <1>1, WaitPlaces
<1>3. \/ c_pc = "open" /\ c_pc' = "closing" /\ c_left' = CloseRounds
      \/ c_pc' \notin {"open", "closing"}
      \/ UNCHANGED <<c_pc, c_left>>
  BY DEF Closer, CallClose, CloseFails, RecvFinAck, RecvWrongFinAck
<1>4. CloseTimeLeft' <= CloseTimeLeft
  BY <1>3, Constants, ClosePlaces, TimesAreNumbers
<1> QED
  BY <1>2, <1>4

\* Whatever wait_close receives or sends, its next wait was part of its time.
LEMMA WaiterKeepsTime ==
  ASSUME CloseInv, Waiter
  PROVE  WaitTimeLeft' <= WaitTimeLeft /\ CloseTimeLeft' = CloseTimeLeft
<1>1. UNCHANGED <<c_pc, c_left>>
  BY DEF Waiter, EarlyFin, RecvFin, RecvFinAgain, RecvWrongFin, AnswerAtOnce,
         WaitForFin, WaitTimesOut, LingerEnds, WaitCloseFails, closeVars,
         waitCloseVars
<1>2. \/ UNCHANGED <<r_pc, r_left>>
      \/ r_pc = "connected" /\ r_pc' = "waiting" /\ r_left' = WaitRounds
      \/ r_pc = "waiting" /\ r_pc' = "lingering" /\ r_left' = LingerRounds
      \/ r_pc' \notin {"connected", "waiting", "lingering"}
  BY DEF Waiter, EarlyFin, RecvFin, RecvFinAgain, RecvWrongFin, AnswerAtOnce,
         WaitForFin, WaitTimesOut, LingerEnds, WaitCloseFails, waitCloseVars
<1>3. WaitTimeLeft' <= WaitTimeLeft
  BY <1>2, Constants, WaitPlaces, TimesAreNumbers
<1> QED
  BY <1>1, <1>3, ClosePlaces

\* 100 ms take their part of the time of everyone who waits.
LEMMA RoundTakesTime ==
  ASSUME CloseInv, NextRound
  PROVE  /\ CloseTimeLeft' <= CloseTimeLeft
         /\ WaitTimeLeft' <= WaitTimeLeft
         /\ c_pc = "closing" => CloseTimeLeft' < CloseTimeLeft
         /\ r_pc \in {"waiting", "lingering"} => WaitTimeLeft' < WaitTimeLeft
<1>1. \/ /\ c_pc = "closing" /\ c_left > 0 /\ c_left' = c_left - 1
         /\ c_pc' = IF c_left' = 0 THEN "timedout" ELSE "closing"
      \/ c_pc # "closing" /\ UNCHANGED <<c_pc, c_left>>
  BY DEF NextRound, CloseInv, PlaceInv
<1>2. /\ c_pc = "closing" => CloseTimeLeft' < CloseTimeLeft
      /\ CloseTimeLeft' <= CloseTimeLeft
  BY <1>1, ClosePlaces, TimesAreNumbers
<1>3. /\ r_pc' = r_pc
      /\ IF r_pc \in {"waiting", "lingering"} THEN r_left' = r_left - 1
                                              ELSE r_left' = r_left
  BY DEF NextRound
<1>4. /\ r_pc \in {"waiting", "lingering"} => WaitTimeLeft' < WaitTimeLeft
      /\ WaitTimeLeft' <= WaitTimeLeft
  BY <1>3, Constants, WaitPlaces, TimesAreNumbers
<1> QED
  BY <1>2, <1>4

\* No step gives either call time back: what remains of Termination is that time
\* goes on and a call returns when its time is over.
THEOREM TimeRuns == Spec => TimeRunsOut
<1> DEFINE Runs == /\ CloseTimeLeft' <= CloseTimeLeft
                   /\ WaitTimeLeft' <= WaitTimeLeft
                   /\ NextRound =>
                        /\ c_pc = "closing" => CloseTimeLeft' < CloseTimeLeft
                        /\ r_pc \in {"waiting", "lingering"} =>
                             WaitTimeLeft' < WaitTimeLeft
<1>1. ASSUME CloseInv, Next
      PROVE  Runs
  <2>1. CASE Lose
    <3>1. UNCHANGED <<c_pc, c_left, r_pc, r_left>>
      BY <2>1 DEF Lose, closeVars, waitCloseVars
    <3>2. CloseTimeLeft' <= CloseTimeLeft /\ WaitTimeLeft' <= WaitTimeLeft
      BY <1>1, <3>1, ClosePlaces, WaitPlaces, TimesAreNumbers
    <3> QED
      BY <1>1, <3>2, RoundTakesTime
  <2>2. CASE Closer
    BY <1>1, <2>2, CloserKeepsTime, RoundTakesTime, TimesAreNumbers
  <2>3. CASE Waiter
    BY <1>1, <2>3, WaiterKeepsTime, RoundTakesTime, TimesAreNumbers
  <2>4. CASE NextRound
    BY <1>1, <2>4, RoundTakesTime
  <2> QED
    BY <1>1, <2>1, <2>2, <2>3, <2>4 DEF Next
<1>2. CloseInv /\ [Next]_vars => [Runs]_vars
  BY <1>1
<1> QED
  BY <1>2, CloseInvariance, PTL DEF Spec, TimeRunsOut
=============================================================================
