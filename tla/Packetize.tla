------------------------------- MODULE Packetize -------------------------------
(***************************************************************************)
(* How send_file cuts a file into packets (src/rtp.cpp:691-719). It keeps  *)
(* the size of the file, the number of packets and the offsets in uint32_t *)
(* variables: SizeMod stands for 2^32.                                     *)
(***************************************************************************)
EXTENDS Integers

CONSTANTS
  PayloadMax,   \* PAYLOAD_MAX, the bytes a packet can hold
  SizeMod,      \* 2^32
  Sizes         \* the sizes of files considered

ASSUME PayloadMaxAssumption == PayloadMax \in Nat \ {0}
ASSUME SizeModAssumption == SizeMod \in Nat /\ SizeMod > PayloadMax
ASSUME SizesAssumption == Sizes \subseteq Nat

VARIABLES
  bytes,    \* size of the file
  i,        \* packets made so far
  packed    \* bytes they hold

vars == <<bytes, i, packed>>

\* file_size
FileSize == bytes % SizeMod

\* Mutant of TotalPackets: rounded down.
TotalPacketsDown == FileSize \div PayloadMax

\* total_packets, the quotient rounded up.
TotalPackets == ((FileSize + PayloadMax - 1) % SizeMod) \div PayloadMax

\* Mutant of Length: the last packet is never full.
LengthOfRest(k) ==
  IF k = TotalPackets - 1 THEN FileSize % PayloadMax ELSE PayloadMax

\* Bytes in packet k, counted from 0.
Length(k) ==
  IF k = TotalPackets - 1 /\ FileSize % PayloadMax # 0
  THEN FileSize % PayloadMax
  ELSE PayloadMax

\* Where they begin in the buffer.
Offset(k) == (k * PayloadMax) % SizeMod

Init == bytes \in Sizes /\ i = 0 /\ packed = 0

\* Mutant of Pack: one round too many.
PackOneMore ==
  /\ i <= TotalPackets
  /\ i' = i + 1
  /\ packed' = packed + Length(i)
  /\ UNCHANGED bytes

\* One round of the loop.
Pack ==
  /\ i < TotalPackets
  /\ i' = i + 1
  /\ packed' = packed + Length(i)
  /\ UNCHANGED bytes

\* The loop has ended.
Packed == i = TotalPackets /\ UNCHANGED vars

Next == Pack \/ Packed

Spec == Init /\ [][Next]_vars

-----------------------------------------------------------------------------
(* Properties                                                              *)

\* Type correctness: the loop never makes more packets than it has counted.
TypeOK == bytes \in Sizes /\ i \in 0 .. TotalPackets /\ packed \in Nat

\* Every packet begins where the one before it ends, holds at least one byte and
\* stays within the file_size bytes of the buffer.
Seamless ==
  i < TotalPackets => /\ Offset(i) = packed
                      /\ Length(i) \in 1 .. PayloadMax
                      /\ Offset(i) + Length(i) <= FileSize

\* The packets together hold the file ("the number of packets of the file",
\* src/rtp.cpp:710): what send_file sends is all of it.
WholeFile == i = TotalPackets => packed = bytes

\* Files small enough for the rounding not to wrap around.
SizesFit == \A b \in Sizes : b + PayloadMax <= SizeMod

\* The inductive invariant: all packets but the last one are full.
PackInv == TypeOK /\ packed = IF i < TotalPackets THEN i * PayloadMax ELSE bytes
=============================================================================
