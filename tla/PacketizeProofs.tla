---------------------------- MODULE PacketizeProofs ----------------------------
(***************************************************************************)
(* send_file cuts a file into packets that follow each other without gap   *)
(* and hold all of it, for every payload size and every width of the       *)
(* integers, as long as rounding up does not wrap around (SizesFit).       *)
(***************************************************************************)
EXTENDS Packetize, TLAPS

-----------------------------------------------------------------------------
(* Quotients and remainders.                                               *)

\* What they are.
LEMMA Division ==
  ASSUME NEW a \in Nat, NEW d \in Nat \ {0}
  PROVE  /\ a \div d \in Nat /\ a % d \in 0 .. d - 1
         /\ a = d * (a \div d) + (a % d)
OBVIOUS

\* There is only one quotient.
LEMMA OneQuotient ==
  ASSUME NEW d \in Nat \ {0}, NEW p \in Nat, NEW q \in Nat,
         NEW r \in 0 .. d - 1, NEW s \in 0 .. d - 1,
         d * p + r = d * q + s
  PROVE  p = q
<1>1. ASSUME NEW m \in Nat, NEW n \in Nat, m < n
      PROVE  d * m + d <= d * n
  <2>1. d * (n - m) >= d
    BY <1>1
  <2>2. d * (n - m) = d * n - d * m
    OBVIOUS
  <2> QED
    BY <2>1, <2>2
<1>2. CASE p < q
  BY <1>1, <1>2
<1>3. CASE q < p
  BY <1>1, <1>3
<1> QED
  BY <1>2, <1>3

\* The quotient rounded up, and what is left for the last packet.
LEMMA RoundingUp ==
  ASSUME NEW n \in Nat, NEW d \in Nat \ {0},
         NEW t, t = (n + d - 1) \div d
  PROVE  /\ t \in Nat
         /\ n % d = 0 => d * t = n
         /\ n % d # 0 => t > 0 /\ d * (t - 1) + (n % d) = n
         /\ n % d \in 0 .. d - 1
<1> DEFINE q == n \div d
           s == n % d
<1>1. q \in Nat /\ s \in 0 .. d - 1 /\ n = d * q + s
  BY Division
<1>2. /\ t \in Nat /\ (n + d - 1) % d \in 0 .. d - 1
      /\ n + d - 1 = d * t + ((n + d - 1) % d)
  <2>1. n + d - 1 \in Nat
    OBVIOUS
  <2> QED
    BY <2>1, Division
<1> HIDE DEF q, s
<1>3. CASE s = 0
  <2>1. n + d - 1 = d * q + (d - 1) /\ d - 1 \in 0 .. d - 1
    BY <1>1, <1>3
  <2>2. t = q
    BY <1>1, <1>2, <2>1, OneQuotient
  <2> QED
    BY <1>1, <1>3, <2>2 DEF s
<1>4. CASE s # 0
  <2>1. d * (q + 1) = d * q + d
    BY <1>1
  <2>2. n + d - 1 = d * (q + 1) + (s - 1) /\ s - 1 \in 0 .. d - 1
    BY <1>1, <1>4, <2>1
  <2>3. t = q + 1
    BY <1>1, <1>2, <2>2, OneQuotient
  <2>4. t > 0 /\ t - 1 = q
    BY <1>1, <2>3
  <2> QED
    BY <1>1, <1>2, <1>4, <2>4 DEF s
<1> QED
  BY <1>3, <1>4

-----------------------------------------------------------------------------
(* The packets of a file.                                                  *)

\* Its bytes are counted without wrapping.
LEMMA Counted ==
  ASSUME SizesFit, bytes \in Sizes
  PROVE  /\ bytes \in Nat /\ PayloadMax \in Nat \ {0}
         /\ SizeMod \in Nat /\ bytes + PayloadMax <= SizeMod
         /\ FileSize = bytes
         /\ TotalPackets = (bytes + PayloadMax - 1) \div PayloadMax
<1>1. /\ bytes \in Nat /\ PayloadMax \in Nat \ {0}
      /\ SizeMod \in Nat /\ bytes + PayloadMax <= SizeMod
  BY PayloadMaxAssumption, SizeModAssumption, SizesAssumption DEF SizesFit
<1>2. ASSUME NEW n \in Nat, n < SizeMod
      PROVE  n % SizeMod = n
  BY <1>1, <1>2
<1>3. FileSize = bytes
  BY <1>1, <1>2 DEF FileSize
<1>4. bytes + PayloadMax - 1 \in Nat /\ bytes + PayloadMax - 1 < SizeMod
  BY <1>1
<1>5. (bytes + PayloadMax - 1) % SizeMod = bytes + PayloadMax - 1
  BY <1>2, <1>4
<1> QED
  BY <1>1, <1>3, <1>5 DEF TotalPackets

\* Only the empty file makes no packet.
LEMMA NoPackets ==
  ASSUME SizesFit, bytes \in Sizes
  PROVE  TotalPackets \in Nat /\ (TotalPackets = 0 => bytes = 0)
<1>1. /\ bytes \in Nat /\ PayloadMax \in Nat \ {0}
      /\ TotalPackets = (bytes + PayloadMax - 1) \div PayloadMax
  BY Counted
<1>2. /\ TotalPackets \in Nat
      /\ bytes % PayloadMax = 0 => PayloadMax * TotalPackets = bytes
      /\ bytes % PayloadMax # 0 => TotalPackets > 0
  BY <1>1, RoundingUp
<1>3. PayloadMax * 0 = 0
  BY <1>1
<1> QED
  BY <1>2, <1>3

\* What the loop finds at packet k: the packets before it are full, and it fills
\* the file if it is the last one.
LEMMA PacketOf ==
  ASSUME SizesFit, bytes \in Sizes, NEW k \in Nat, k < TotalPackets
  PROVE  /\ TotalPackets \in Nat
         /\ k * PayloadMax \in Nat
         /\ Offset(k) = k * PayloadMax
         /\ Length(k) \in 1 .. PayloadMax
         /\ k * PayloadMax + Length(k) =
              IF k + 1 < TotalPackets THEN (k + 1) * PayloadMax ELSE bytes
         /\ k * PayloadMax + Length(k) <= bytes
<1> DEFINE P == PayloadMax
           T == TotalPackets
           s == bytes % P
<1>1. /\ bytes \in Nat /\ P \in Nat \ {0} /\ SizeMod \in Nat
      /\ bytes + P <= SizeMod /\ FileSize = bytes
  BY Counted
<1>2. /\ T \in Nat /\ s \in 0 .. P - 1
      /\ s = 0 => P * T = bytes
      /\ s # 0 => P * (T - 1) + s = bytes
  BY Counted, RoundingUp
<1>3. Length(k) = IF k = T - 1 /\ s # 0 THEN s ELSE P
  BY <1>1 DEF Length
<1> HIDE DEF P, T, s
<1>4. k < T /\ k * P \in Nat /\ P * (k + 1) = k * P + P /\ (k + 1) * P = k * P + P
  BY <1>1 DEF T
<1>5. Length(k) \in 1 .. P
  BY <1>1, <1>2, <1>3
<1>6. ASSUME k = T - 1
      PROVE  k * P + Length(k) = bytes /\ k + 1 = T
  <2>1. k + 1 = T
    BY <1>2, <1>6
  <2>2. P * (T - 1) = k * P /\ P * T = k * P + P
    BY <1>1, <1>4, <1>6, <2>1
  <2>3. k * P + Length(k) = bytes
    BY <1>1, <1>2, <1>3, <1>4, <1>6, <2>2
  <2> QED
    BY <2>1, <2>3
<1>7. ASSUME k # T - 1
      PROVE  /\ k * P + Length(k) = (k + 1) * P /\ k + 1 < T
             /\ k * P + Length(k) <= bytes
  <2>1. k + 1 <= T - 1 /\ k + 1 < T
    BY <1>2, <1>4, <1>7
  <2>2. P * (k + 1) <= P * (T - 1)
    BY <1>1, <1>2, <2>1
  <2>3. P * (T - 1) <= bytes
    <3>1. P * T = P * (T - 1) + P
      BY <1>1, <1>2
    <3> QED
      BY <1>1, <1>2, <3>1
  <2>4. Length(k) = P
    BY <1>3, <1>7
  <2>5. k * P + Length(k) = (k + 1) * P
    BY <1>1, <1>4, <2>4
  <2>6. (k + 1) * P <= bytes
    <3>1. (k + 1) * P \in Nat /\ P * (k + 1) = (k + 1) * P
      BY <1>1, <1>4
    <3>2. P * (T - 1) \in Nat
      BY <1>1, <1>2, <2>1
    <3> QED
      BY <1>1, <2>2, <2>3, <3>1, <3>2
  <2> QED
    BY <2>1, <2>5, <2>6
<1>8. /\ k * P + Length(k) <= bytes
      /\ k * P + Length(k) = IF k + 1 < T THEN (k + 1) * P ELSE bytes
  BY <1>1, <1>2, <1>6, <1>7
<1>9. k * P < SizeMod
  BY <1>1, <1>4, <1>5, <1>8
<1>10. Offset(k) = k * P
  BY <1>1, <1>4, <1>9 DEF Offset, P
<1> QED
  BY <1>2, <1>4, <1>5, <1>8, <1>10 DEF P, T

-----------------------------------------------------------------------------
(* The theorems.                                                           *)

\* The loop keeps its count of bytes.
THEOREM PackInvariance ==
  ASSUME SizesFit
  PROVE  Spec => []PackInv
<1>1. ASSUME Init
      PROVE  PackInv
  <2>1. bytes \in Sizes /\ bytes \in Nat /\ TotalPackets \in Nat
    BY <1>1, Counted, NoPackets DEF Init
  <2>2. CASE TotalPackets = 0
    <3>1. bytes = 0
      BY <2>1, <2>2, NoPackets
    <3> QED
      BY <1>1, <2>1, <2>2, <3>1 DEF Init, PackInv, TypeOK
  <2>3. CASE TotalPackets > 0
    BY <1>1, <2>1, <2>3, PayloadMaxAssumption DEF Init, PackInv, TypeOK
  <2> QED
    BY <2>1, <2>2, <2>3
<1>2. ASSUME PackInv, [Next]_vars
      PROVE  PackInv'
  <2>1. CASE Pack
    <3>1. /\ i \in Nat /\ i < TotalPackets /\ packed = i * PayloadMax
          /\ bytes \in Sizes /\ TotalPackets \in Nat
      BY <1>2, <2>1, NoPackets DEF Pack, PackInv, TypeOK
    <3>2. /\ bytes' = bytes /\ TotalPackets' = TotalPackets
          /\ i' = i + 1 /\ packed' = packed + Length(i)
      BY <2>1 DEF Pack, TotalPackets, FileSize
    <3>3. /\ packed' = IF i' < TotalPackets' THEN i' * PayloadMax ELSE bytes'
          /\ packed' \in Nat
      <4>1. /\ i * PayloadMax \in Nat /\ Length(i) \in 1 .. PayloadMax
            /\ i * PayloadMax + Length(i) =
                 IF i + 1 < TotalPackets THEN (i + 1) * PayloadMax ELSE bytes
        BY <3>1, PacketOf
      <4>2. PayloadMax \in Nat
        BY PayloadMaxAssumption
      <4> QED
        BY <3>1, <3>2, <4>1, <4>2
    <3> QED
      BY <3>1, <3>2, <3>3 DEF PackInv, TypeOK
  <2>2. CASE UNCHANGED vars
    BY <1>2, <2>2 DEF PackInv, TypeOK, vars, TotalPackets, FileSize
  <2> QED
    BY <1>2, <2>1, <2>2 DEF Next, Packed
<1> QED
  BY <1>1, <1>2, PTL DEF Spec

\* The counters of send_file keep to their types.
THEOREM PackTypeCorrect ==
  ASSUME SizesFit
  PROVE  Spec => []TypeOK
<1>1. PackInv => TypeOK
  BY DEF PackInv
<1> QED
  BY <1>1, PackInvariance, PTL

\* The packets follow each other without gap or overlap, within the buffer.
THEOREM PacketsAreSeamless ==
  ASSUME SizesFit
  PROVE  Spec => []Seamless
<1>1. ASSUME PackInv
      PROVE  Seamless
  <2>1. i \in Nat /\ bytes \in Sizes /\ FileSize = bytes
    BY <1>1, Counted, NoPackets DEF PackInv, TypeOK
  <2>2. CASE i < TotalPackets
    <3>1. /\ Offset(i) = i * PayloadMax /\ Length(i) \in 1 .. PayloadMax
          /\ i * PayloadMax + Length(i) <= bytes
      BY <2>1, <2>2, PacketOf
    <3> QED
      BY <1>1, <2>1, <2>2, <3>1 DEF PackInv, Seamless
  <2> QED
    BY <2>2 DEF Seamless
<1> QED
  BY <1>1, PackInvariance, PTL

\* The packets hold the whole file.
THEOREM PacketsHoldTheFile ==
  ASSUME SizesFit
  PROVE  Spec => []WholeFile
<1>1. ASSUME PackInv
      PROVE  WholeFile
  BY <1>1, NoPackets DEF PackInv, TypeOK, WholeFile
<1> QED
  BY <1>1, PackInvariance, PTL
=============================================================================
