-------------------------- MODULE CongestionControl --------------------------
(***************************************************************************)
(* The congestion control of send_file_gbn (src/rtp.cpp:852-959): slow     *)
(* start, congestion avoidance, fast retransmit and fast recovery over the *)
(* members cwnd, ssthresh, dup_ack_count and in_fast_recovery, which this  *)
(* module keeps in one record and updates once per event.                  *)
(*                                                                         *)
(* cwnd and ssthresh are doubles counted in packets. Here they are fixed   *)
(* point: Unit stands for 1.0, and the quotients cwnd / 2.0 and 1.0 / cwnd *)
(* are rounded down to a multiple of 1 / Unit.                             *)
(***************************************************************************)
EXTENDS Integers

CONSTANT Unit   \* the fixed-point 1.0

ASSUME UnitAssumption == Unit \in Nat \ {0}

CcState == [cwnd : Nat, ssthresh : Nat,
            dup_ack_count : Nat, in_fast_recovery : BOOLEAN]

\* What the members keep to: cwnd never falls below one packet nor ssthresh below
\* two, fast recovery lasts as long as the count of duplicates stays at 3, and its
\* end does not widen the window.
CcSane(cc) ==
  /\ cc.cwnd >= Unit
  /\ cc.ssthresh >= 2 * Unit
  /\ cc.dup_ack_count \in 0 .. 3
  /\ cc.in_fast_recovery <=> cc.dup_ack_count = 3
  /\ cc.in_fast_recovery => cc.ssthresh <= cc.cwnd

\* The constructor's values.
InitialCc == [cwnd |-> Unit, ssthresh |-> 65536 * Unit,
              dup_ack_count |-> 0, in_fast_recovery |-> FALSE]

\* Mutant of WindowAdmits: the packet about to be sent is counted as well.
WindowAdmitsTooFew(cc, n) == (n + 1) * Unit < cc.cwnd

\* Whether a sender with n packets outstanding may send another one:
\* next_seq_num < base + cwnd.
WindowAdmits(cc, n) == n * Unit < cc.cwnd

\* max(cwnd / 2.0, 2.0), the threshold after a loss.
HalvedWindow(cc) ==
  LET half == cc.cwnd \div 2
  IN  IF half > 2 * Unit THEN half ELSE 2 * Unit

\* Mutant of OnTimeout: fast recovery survives the timeout.
OnTimeoutInRecovery(cc) ==
  [cwnd |-> Unit, ssthresh |-> HalvedWindow(cc),
   dup_ack_count |-> 0, in_fast_recovery |-> cc.in_fast_recovery]

\* The retransmission timer of the window's first packet has expired.
OnTimeout(cc) ==
  [cwnd |-> Unit, ssthresh |-> HalvedWindow(cc),
   dup_ack_count |-> 0, in_fast_recovery |-> FALSE]

\* What an acknowledgement of new data makes of cwnd outside fast recovery.
GrownWindow(cc) ==
  IF cc.cwnd < cc.ssthresh THEN cc.cwnd + Unit
                           ELSE cc.cwnd + (Unit * Unit) \div cc.cwnd

\* An acknowledgement of new data.
OnNewAck(cc) ==
  [cwnd |-> IF cc.in_fast_recovery THEN cc.ssthresh ELSE GrownWindow(cc),
   ssthresh |-> cc.ssthresh, dup_ack_count |-> 0, in_fast_recovery |-> FALSE]

\* Duplicates counted once another one has arrived: recovery stops the count.
DuplicateCount(cc) ==
  IF cc.in_fast_recovery THEN cc.dup_ack_count ELSE cc.dup_ack_count + 1

\* Whether a duplicate acknowledgement makes the sender retransmit base.
FastRetransmits(cc) == DuplicateCount(cc) = 3

\* Mutant of OnDuplicateAck: the window is not halved when a packet is lost.
OnDuplicateAckUnhalved(cc) ==
  IF FastRetransmits(cc)
  THEN [cwnd |-> cc.cwnd + 3 * Unit, ssthresh |-> HalvedWindow(cc),
        dup_ack_count |-> 3, in_fast_recovery |-> TRUE]
  ELSE [cc EXCEPT !.dup_ack_count = DuplicateCount(cc)]

\* A duplicate acknowledgement. The test for three duplicates comes first, so
\* the branch that inflates the window is reached only with another count.
OnDuplicateAck(cc) ==
  IF FastRetransmits(cc)
  THEN [cwnd |-> HalvedWindow(cc) + 3 * Unit, ssthresh |-> HalvedWindow(cc),
        dup_ack_count |-> 3, in_fast_recovery |-> TRUE]
  ELSE [cwnd |-> IF cc.in_fast_recovery THEN cc.cwnd + Unit ELSE cc.cwnd,
        ssthresh |-> cc.ssthresh, dup_ack_count |-> DuplicateCount(cc),
        in_fast_recovery |-> cc.in_fast_recovery]
=============================================================================
