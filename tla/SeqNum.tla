------------------------------- MODULE SeqNum -------------------------------
(***************************************************************************)
(* Sequence-number arithmetic of class Rtp (src/rtp.cpp:17-39).            *)
(*                                                                         *)
(* A header carries a number modulo 2^30; both endpoints count in 64 bits  *)
(* from the number x of the SYN and never fall below it, so that a header  *)
(* number below the member seq_base must have wrapped around exactly once. *)
(* SeqMod stands for 1 << 30.                                              *)
(***************************************************************************)
EXTENDS Integers

CONSTANT SeqMod   \* 1 << 30: header numbers are 0 .. SeqMod - 1

ASSUME SeqModAssumption == SeqMod \in Nat /\ SeqMod > 1

Seq32 == 0 .. SeqMod - 1

\* The 64-bit number meant by header number seq, given the member seq_base.
Seq32to64(seq_base, seq) == IF seq < seq_base THEN seq + SeqMod ELSE seq

\* Mutant of Seq64to32: the number does not wrap.
Seq64to32Unwrapped(seq) == seq

\* The header number of a 64-bit number.
Seq64to32(seq) == seq % SeqMod

\* Mutant of IncSeq32: the number does not wrap.
IncSeq32Unwrapped(seq) == seq + 1

\* The header number after seq.
IncSeq32(seq) == (seq + 1) % SeqMod
=============================================================================
