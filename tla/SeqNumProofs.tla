----------------------------- MODULE SeqNumProofs -----------------------------
(***************************************************************************)
(* What seq64to32 and seq32to64 (src/rtp.cpp:19-26) do to a 64-bit number  *)
(* on its way through a header.                                            *)
(***************************************************************************)
EXTENDS SeqNum, TLAPS

\* The header number of a number below twice SeqMod.
LEMMA HeaderNumber ==
  ASSUME NEW n \in 0 .. 2 * SeqMod - 1
  PROVE  Seq64to32(n) = IF n < SeqMod THEN n ELSE n - SeqMod
<1>1. SeqMod \in Nat /\ SeqMod > 1
  BY SeqModAssumption
<1>2. CASE n < SeqMod
  BY <1>1, <1>2 DEF Seq64to32
<1>3. CASE n >= SeqMod
  BY <1>1, <1>3 DEF Seq64to32
<1> QED
  BY <1>1, <1>2, <1>3

\* A header number fits.
LEMMA HeaderNumberFits ==
  ASSUME NEW n \in Nat
  PROVE  Seq64to32(n) \in Seq32
BY SeqModAssumption DEF Seq64to32, Seq32

\* An endpoint that counts from x recovers every number sent to it, as long as
\* they lie less than SeqMod above x.
LEMMA RoundTrip ==
  ASSUME NEW x \in Seq32, NEW k \in 0 .. SeqMod - 1
  PROVE  Seq32to64(x, Seq64to32(x + k)) = x + k
<1>1. SeqMod \in Nat /\ x \in Nat /\ k \in Nat /\ x < SeqMod /\ k < SeqMod
  BY SeqModAssumption DEF Seq32
<1>2. Seq64to32(x + k) = IF x + k < SeqMod THEN x + k ELSE x + k - SeqMod
  BY <1>1, HeaderNumber
<1> QED
  BY <1>1, <1>2 DEF Seq32to64

\* An endpoint whose seq_base is x + SeqMod, as a garbage seq_base makes it,
\* counts SeqMod too many, as long as no number wraps around.
LEMMA SkewedRoundTrip ==
  ASSUME NEW x \in Seq32, NEW k \in Nat, x + k < SeqMod
  PROVE  Seq32to64(x + SeqMod, Seq64to32(x + k)) = x + SeqMod + k
<1>1. SeqMod \in Nat /\ x \in Nat
  BY SeqModAssumption DEF Seq32
<1>2. Seq64to32(x + k) = x + k
  BY <1>1, HeaderNumber
<1> QED
  BY <1>1, <1>2 DEF Seq32to64

\* A number that wraps around is to that endpoint the sender's own number, which
\* lies below all it expects.
LEMMA SkewedWrap ==
  ASSUME NEW x \in Seq32, NEW k \in 0 .. SeqMod - 1, x + k >= SeqMod
  PROVE  Seq32to64(x + SeqMod, Seq64to32(x + k)) = x + k
<1>1. SeqMod \in Nat /\ x \in Nat /\ x < SeqMod
  BY SeqModAssumption DEF Seq32
<1>2. Seq64to32(x + k) = x + k - SeqMod
  BY <1>1, HeaderNumber
<1> QED
  BY <1>1, <1>2 DEF Seq32to64

\* SeqMod more make no difference in a header.
LEMMA HeaderNumberRepeats ==
  ASSUME NEW n \in Nat
  PROVE  Seq64to32(n + SeqMod) = Seq64to32(n)
<1> DEFINE q == n \div SeqMod
           r == n % SeqMod
           q2 == (n + SeqMod) \div SeqMod
           r2 == (n + SeqMod) % SeqMod
           m == SeqMod
<1>1. m \in Nat /\ m > 1 /\ n \in Nat
  BY SeqModAssumption
<1>2. /\ q \in Int /\ r \in 0 .. m - 1 /\ n = m * q + r
      /\ q2 \in Int /\ r2 \in 0 .. m - 1 /\ n + m = m * q2 + r2
  BY <1>1
<1> HIDE DEF q, r, q2, r2, m
<1> DEFINE d == q2 - q - 1
<1>3. d \in Int /\ q2 = q + 1 + d
  BY <1>2
<1> HIDE DEF d
<1>4. m * q2 = m * q + m + m * d
  BY <1>1, <1>2, <1>3
<1>5. m * d = r - r2
  BY <1>1, <1>2, <1>3, <1>4
<1>6. ~ (d >= 1)
  <2> SUFFICES ASSUME d >= 1 PROVE FALSE
    OBVIOUS
  <2>1. m * d >= m
    BY <1>1, <1>3
  <2> QED
    BY <1>1, <1>2, <1>5, <2>1
<1>7. ~ (d <= -1)
  <2> SUFFICES ASSUME d <= -1 PROVE FALSE
    OBVIOUS
  <2>1. m * d <= -m
    BY <1>1, <1>3
  <2> QED
    BY <1>1, <1>2, <1>5, <2>1
<1>8. d = 0
  BY <1>3, <1>6, <1>7
<1>9. r = r2
  BY <1>1, <1>2, <1>5, <1>8
<1> QED
  BY <1>9 DEF Seq64to32, r, r2
=============================================================================
