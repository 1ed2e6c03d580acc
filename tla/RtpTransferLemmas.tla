-------------------------- MODULE RtpTransferLemmas --------------------------
(***************************************************************************)
(* Lemmas on the operators RtpTransfer is built from: the events of the    *)
(* congestion control, and what the receiver computes from its buffer.     *)
(***************************************************************************)
EXTENDS RtpTransfer, FiniteSetTheorems, WellFoundedInduction, TLAPS

-----------------------------------------------------------------------------
(* The events of the congestion control (src/rtp.cpp:852-959) keep its     *)
(* members sane, for every granularity of the fixed-point numbers.         *)

LEMMA InitialCcSane == InitialCc \in CcState /\ CcSane(InitialCc)
BY UnitAssumption DEF InitialCc, CcState, CcSane

\* A sender with nothing outstanding may always send.
LEMMA EmptyWindowAdmits ==
  ASSUME NEW cs \in CcState, CcSane(cs)
  PROVE  WindowAdmits(cs, 0)
BY UnitAssumption DEF WindowAdmits, CcState, CcSane

LEMMA HalvedWindowBounds ==
  ASSUME NEW cs \in CcState
  PROVE  HalvedWindow(cs) \in Nat /\ HalvedWindow(cs) >= 2 * Unit
<1>1. cs.cwnd \div 2 \in Nat /\ 2 * Unit \in Nat
  BY UnitAssumption DEF CcState
<1> QED
  BY <1>1 DEF HalvedWindow

\* The reaction to a timeout (src/rtp.cpp:855-858).
LEMMA OnTimeoutSane ==
  ASSUME NEW cs \in CcState
  PROVE  OnTimeout(cs) \in CcState /\ CcSane(OnTimeout(cs))
BY UnitAssumption, HalvedWindowBounds DEF OnTimeout, CcState, CcSane

\* The reaction to an ACK of new data (src/rtp.cpp:901-925).
LEMMA OnNewAckSane ==
  ASSUME NEW cs \in CcState, CcSane(cs)
  PROVE  OnNewAck(cs) \in CcState /\ CcSane(OnNewAck(cs))
<1>1. (Unit * Unit) \div cs.cwnd \in Nat
  <2>1. Unit * Unit \in Nat
    BY UnitAssumption
  <2>2. cs.cwnd \in Nat /\ cs.cwnd > 0
    BY UnitAssumption DEF CcState, CcSane
  <2> HIDE DEF CcSane
  <2> DEFINE u == Unit * Unit
  <2>3. u \in Nat
    BY <2>1
  <2> HIDE DEF u
  <2>4. u \div cs.cwnd \in Nat
    BY <2>2, <2>3
  <2> QED
    BY <2>4 DEF u
<1> DEFINE growth == (Unit * Unit) \div cs.cwnd
<1>2. growth \in Nat
  BY <1>1
<1> HIDE DEF growth
<1>3. GrownWindow(cs) = IF cs.cwnd < cs.ssthresh THEN cs.cwnd + Unit
                                                 ELSE cs.cwnd + growth
  BY DEF GrownWindow, growth
<1>4. GrownWindow(cs) \in Nat /\ GrownWindow(cs) >= Unit
  BY <1>2, <1>3, UnitAssumption DEF CcState, CcSane
<1> QED
  BY <1>4, UnitAssumption DEF OnNewAck, CcState, CcSane

\* The reaction to a duplicate ACK (src/rtp.cpp:929-958).
LEMMA OnDuplicateAckSane ==
  ASSUME NEW cs \in CcState, CcSane(cs)
  PROVE  OnDuplicateAck(cs) \in CcState /\ CcSane(OnDuplicateAck(cs))
BY UnitAssumption, HalvedWindowBounds
   DEF OnDuplicateAck, FastRetransmits, DuplicateCount, CcState, CcSane

\* A quotient of at least Unit packets adds no more than one packet.
LEMMA GrowthBound ==
  ASSUME NEW c \in Nat, c >= Unit
  PROVE  (Unit * Unit) \div c <= Unit
<1> DEFINE u == Unit
           q == (u * u) \div c
<1>1. u \in Nat /\ u > 0 /\ c > 0 /\ u * u \in Nat
  BY UnitAssumption
<1>2. q \in Nat /\ c * q <= u * u
  <2> DEFINE n == u * u
  <2>1. n \in Nat
    BY <1>1
  <2> HIDE DEF n, u
  <2>2. n \div c \in Nat /\ c * (n \div c) <= n
    BY <1>1, <2>1
  <2> QED
    BY <2>2 DEF n
<1> HIDE DEF q, u
<1>3. ASSUME q >= u + 1
      PROVE  FALSE
  <2>1. c * q >= u * q
    BY <1>1, <1>2 DEF u
  <2>2. u * q >= u * (u + 1)
    BY <1>1, <1>2, <1>3
  <2>3. u * (u + 1) = u * u + u
    BY <1>1
  <2> QED
    BY <1>1, <1>2, <2>1, <2>2, <2>3
<1>4. q <= u
  BY <1>1, <1>2, <1>3
<1> QED
  BY <1>4 DEF q, u

\* An ACK of new data widens the window by one packet at most, the end of fast
\* recovery included.
LEMMA OnNewAckGrows ==
  ASSUME NEW cs \in CcState, CcSane(cs)
  PROVE  OnNewAck(cs).cwnd <= cs.cwnd + Unit
<1> DEFINE growth == (Unit * Unit) \div cs.cwnd
<1>1. growth <= Unit
  BY GrowthBound DEF CcState, CcSane
<1>2. growth \in Int
  BY UnitAssumption DEF CcState, CcSane
<1> HIDE DEF growth
<1>3. GrownWindow(cs) = IF cs.cwnd < cs.ssthresh THEN cs.cwnd + Unit
                                                 ELSE cs.cwnd + growth
  BY DEF GrownWindow, growth
<1> QED
  BY <1>1, <1>2, <1>3, UnitAssumption DEF OnNewAck, CcState, CcSane

\* A duplicate ACK keeps the window below every bound of at least six packets.
LEMMA OnDuplicateAckBound ==
  ASSUME NEW cs \in CcState, CcSane(cs), NEW bound \in Nat, bound >= 6 * Unit,
         cs.cwnd <= bound
  PROVE  OnDuplicateAck(cs).cwnd <= bound
<1>1. 2 * (cs.cwnd \div 2) <= cs.cwnd /\ cs.cwnd \div 2 \in Nat /\ Unit \in Nat
  BY UnitAssumption DEF CcState
<1>2. HalvedWindow(cs) + 3 * Unit <= bound
  BY <1>1 DEF HalvedWindow, CcState
<1> QED
  BY <1>2 DEF OnDuplicateAck, FastRetransmits, DuplicateCount, CcState, CcSane

-----------------------------------------------------------------------------
(* What recv_file_gbn and recv_file compute from the receiver's data_map   *)
(* (src/rtp.cpp:1016-1028, 783-788): the first missing packet, and the     *)
(* file that an unbroken range of packets makes.                           *)

\* A set of natural numbers that is not empty has a least element.
LEMMA LeastNatural ==
  ASSUME NEW T, T \subseteq Nat, T # {}
  PROVE  \E n \in T : \A k \in T : n <= k
<1> DEFINE less == {p \in Nat \X Nat : p[1] < p[2]}
<1>1. less = OpToRel(<, Nat)
  BY Zenon DEF OpToRel
<1>2. IsWellFoundedOn(less, Nat)
  BY <1>1, NatLessThanWellFounded, Zenon
<1> HIDE DEF less
<1>3. PICK n \in T : \A k \in T : ~ (<<k, n>> \in less)
  BY <1>2, WFMin, Zenon
<1>4. ASSUME NEW k \in T
      PROVE  n <= k
  <2>1. k \in Nat /\ n \in Nat
    OBVIOUS
  <2>2. ~ (k < n)
    BY <1>3, <2>1 DEF less
  <2> QED
    BY <2>1, <2>2
<1> QED
  BY <1>4

\* The loop that moves recv_base stops at the first packet that is missing, if
\* one of the next total_packets + 1 is.
LEMMA FirstMissingIsFirst ==
  ASSUME NEW map, NEW from \in Nat, NEW stop \in from .. from + total_packets,
         total_packets \in Nat, stop \notin DOMAIN map
  PROVE  /\ FirstMissing(map, from) \in from .. stop
         /\ FirstMissing(map, from) \notin DOMAIN map
         /\ \A s \in from .. FirstMissing(map, from) - 1 : s \in DOMAIN map
<1> DEFINE missing == {n \in from .. stop : n \notin DOMAIN map}
           IsFirst(n) == /\ n \in from .. from + total_packets
                         /\ n \notin DOMAIN map
                         /\ \A s \in from .. n - 1 : s \in DOMAIN map
<1>1. missing \subseteq Nat /\ missing # {}
  OBVIOUS
<1>2. PICK n \in missing : \A k \in missing : n <= k
  BY <1>1, LeastNatural
<1>3. IsFirst(n)
  <2>1. n \in from .. stop /\ n \notin DOMAIN map
    BY <1>2
  <2>2. ASSUME NEW s \in from .. n - 1
        PROVE  s \in DOMAIN map
    BY <1>2, <2>1, <2>2
  <2> QED
    BY <2>1, <2>2
<1>4. IsFirst(FirstMissing(map, from))
  BY <1>3 DEF FirstMissing
<1>5. FirstMissing(map, from) <= stop
  BY <1>4
<1> QED
  BY <1>4, <1>5

\* The numbers of a range below one of its members.
LEMMA RangeBelow ==
  ASSUME NEW b \in Nat, NEW n \in Nat, NEW s \in b + 1 .. b + n
  PROVE  Cardinality({t \in b + 1 .. b + n : t < s}) = s - b - 1
<1>1. {t \in b + 1 .. b + n : t < s} = b + 1 .. s - 1
  OBVIOUS
<1>2. Cardinality(b + 1 .. s - 1) = IF b + 1 > s - 1 THEN 0 ELSE s - 1 - (b + 1) + 1
  BY FS_Interval
<1>3. Cardinality({t \in b + 1 .. b + n : t < s}) = Cardinality(b + 1 .. s - 1)
  BY <1>1, Zenon
<1> QED
  BY <1>2, <1>3

\* A buffer that holds the packets b + 1 to b + n and nothing else makes a file
\* of n chunks in order.
LEMMA FileOfRange ==
  ASSUME NEW b \in Nat, NEW n \in Nat, NEW map,
         DOMAIN map = b + 1 .. b + n,
         \A s \in DOMAIN map : map[s] = s - b
  PROVE  /\ Cardinality(DOMAIN map) = n
         /\ FileOf(map) = [k \in 1 .. n |-> k]
<1>1. Cardinality(DOMAIN map) = n
  BY FS_Interval
<1>2. ASSUME NEW k \in 1 .. n
      PROVE  map[CHOOSE s \in DOMAIN map :
                   Cardinality({t \in DOMAIN map : t < s}) = k - 1] = k
  <2> DEFINE IsKth(s) == Cardinality({t \in DOMAIN map : t < s}) = k - 1
             kth == CHOOSE s \in DOMAIN map : IsKth(s)
  <2>1. b + k \in DOMAIN map
    OBVIOUS
  <2>2. ASSUME NEW s \in DOMAIN map
        PROVE  IsKth(s) <=> s = b + k
    <3>1. s \in b + 1 .. b + n
      OBVIOUS
    <3>2. Cardinality({t \in DOMAIN map : t < s}) = s - b - 1
      BY <3>1, RangeBelow, Zenon
    <3> HIDE DEF IsKth
    <3>3. IsKth(s) <=> s - b - 1 = k - 1
      BY <3>2, Zenon DEF IsKth
    <3> QED
      BY <3>1, <3>3
  <2> HIDE DEF IsKth
  <2>3. kth = b + k
    BY <2>1, <2>2
  <2>4. map[b + k] = k
    BY <2>1
  <2> QED
    BY <2>3, <2>4, Zenon DEF IsKth
<1> QED
  BY <1>1, <1>2 DEF FileOf

\* How many members of a set of numbers are smaller than s.
RankIn(S, s) == Cardinality({t \in S : t < s})

LEMMA RankGrows ==
  ASSUME NEW S \in SUBSET Nat, IsFiniteSet(S), NEW s \in S
  PROVE  /\ RankIn(S, s) \in 0 .. Cardinality(S) - 1
         /\ \A u \in S : s < u => RankIn(S, s) < RankIn(S, u)
<1> DEFINE Below(u) == {t \in S : t < u}
<1>1. ASSUME NEW T \in SUBSET S
      PROVE  /\ IsFiniteSet(T) /\ Cardinality(T) \in Nat
             /\ \A U \in SUBSET T : U # T => Cardinality(U) < Cardinality(T)
  <2>1. IsFiniteSet(T) /\ Cardinality(T) \in Nat
    BY FS_Subset, FS_CardinalityType
  <2>2. ASSUME NEW U \in SUBSET T, U # T
        PROVE  Cardinality(U) < Cardinality(T)
    <3>1. IsFiniteSet(U) /\ Cardinality(U) \in Nat
      BY <2>1, FS_Subset, FS_CardinalityType
    <3>2. Cardinality(U) <= Cardinality(T) /\ Cardinality(U) # Cardinality(T)
      BY <2>1, <2>2, FS_Subset
    <3> QED
      BY <2>1, <3>1, <3>2
  <2> QED
    BY <2>1, <2>2
<1>2. Below(s) \in SUBSET S /\ Below(s) # S
  OBVIOUS
<1>3. ASSUME NEW u \in S, s < u
      PROVE  Below(u) \in SUBSET S /\ Below(s) \in SUBSET Below(u) /\ Below(s) # Below(u)
  <2>1. s \in Below(u) /\ s \notin Below(s)
    BY <1>3
  <2>2. ASSUME NEW t \in Below(s)
        PROVE  t \in Below(u)
    BY <1>3
  <2> QED
    BY <2>1, <2>2
<1>4. Cardinality(Below(s)) \in Nat /\ Cardinality(Below(s)) < Cardinality(S)
      /\ Cardinality(S) \in Nat
  BY <1>1, <1>2, FS_CardinalityType
<1>5. \A u \in S : s < u => Cardinality(Below(s)) < Cardinality(Below(u))
  BY <1>1, <1>3
<1> QED
  BY <1>4, <1>5 DEF RankIn

\* A finite set of numbers has a member of every rank.
LEMMA EveryRankIsTaken ==
  ASSUME NEW S \in SUBSET Nat, IsFiniteSet(S), NEW k \in 1 .. Cardinality(S)
  PROVE  \E s \in S : RankIn(S, s) = k - 1
<1> DEFINE n == Cardinality(S)
           rank == [s \in S |-> RankIn(S, s)]
<1>1. n \in Nat /\ n >= 1
  BY FS_CardinalityType
<1>2. rank \in [S -> 0 .. n - 1]
  BY RankGrows
<1>3. ASSUME NEW s \in S, NEW u \in S, rank[s] = rank[u]
      PROVE  s = u
  <2>1. rank[s] \in Int /\ rank[u] \in Int
    BY <1>2
  <2>2. ~(s < u) /\ ~(u < s)
    BY <1>3, <2>1, RankGrows
  <2>3. s \in Nat /\ u \in Nat
    OBVIOUS
  <2> QED
    BY <2>2, <2>3
<1>4. rank \in Injection(S, 0 .. n - 1)
  BY <1>2, <1>3 DEF Injection, IsInjective
<1>5. IsFiniteSet(0 .. n - 1) /\ Cardinality(0 .. n - 1) = n
  <2>1. 0 \in Int /\ n - 1 \in Int /\ ~(0 > n - 1) /\ (n - 1) - 0 + 1 = n
    BY <1>1
  <2> HIDE DEF n
  <2> QED
    BY <2>1, FS_Interval
<1>6. rank \in Surjection(S, 0 .. n - 1)
  BY <1>4, <1>5, FS_Injection
<1>7. PICK s \in S : rank[s] = k - 1
  <2>1. k - 1 \in 0 .. n - 1
    BY <1>1
  <2> QED
    BY <1>6, <2>1 DEF Surjection
<1> QED
  BY <1>7

\* A buffer that holds some of the packets b + 1 to b + n makes a file of as many
\* chunks, each once and in order.
LEMMA FileOfBuffer ==
  ASSUME NEW b \in Nat, NEW n \in Nat, NEW map,
         DOMAIN map \subseteq b + 1 .. b + n,
         \A s \in DOMAIN map : map[s] = s - b
  PROVE  /\ Cardinality(DOMAIN map) \in 0 .. n
         /\ FileOf(map) \in Seq(1 .. n)
         /\ Len(FileOf(map)) = Cardinality(DOMAIN map)
         /\ \A i, j \in 1 .. Cardinality(DOMAIN map) :
              i < j => FileOf(map)[i] < FileOf(map)[j]
<1> DEFINE S == DOMAIN map
           c == Cardinality(S)
           kth(k) == CHOOSE s \in S : RankIn(S, s) = k - 1
<1>1. S \in SUBSET Nat
  OBVIOUS
<1>2. IsFiniteSet(b + 1 .. b + n) /\ Cardinality(b + 1 .. b + n) = n
  <2>1. b + 1 \in Int /\ b + n \in Int
        /\ n = IF b + 1 > b + n THEN 0 ELSE (b + n) - (b + 1) + 1
    OBVIOUS
  <2> QED
    BY <2>1, FS_Interval
<1>3. IsFiniteSet(S) /\ c \in 0 .. n
  BY <1>2, FS_Subset, FS_CardinalityType
<1>4. FileOf(map) = [k \in 1 .. c |-> map[kth(k)]]
  BY Zenon DEF FileOf, RankIn
<1>5. ASSUME NEW k \in 1 .. c
      PROVE  kth(k) \in S /\ RankIn(S, kth(k)) = k - 1
  <2>1. \E s \in S : RankIn(S, s) = k - 1
    BY <1>1, <1>3, EveryRankIsTaken
  <2> QED
    BY <2>1
<1> HIDE DEF kth
<1>6. ASSUME NEW k \in 1 .. c
      PROVE  map[kth(k)] \in 1 .. n /\ map[kth(k)] = kth(k) - b
  BY <1>5
<1>7. ASSUME NEW i \in 1 .. c, NEW j \in 1 .. c, i < j
      PROVE  kth(i) < kth(j)
  <2>1. kth(i) \in S /\ kth(j) \in S /\ kth(i) \in Nat /\ kth(j) \in Nat
    BY <1>1, <1>5
  <2>2. RankIn(S, kth(i)) = i - 1 /\ RankIn(S, kth(j)) = j - 1 /\ i \in Nat /\ j \in Nat
    BY <1>3, <1>5
  <2>3. kth(j) < kth(i) => RankIn(S, kth(j)) < RankIn(S, kth(i))
    BY <1>1, <1>3, <2>1, RankGrows
  <2>4. kth(i) # kth(j)
    BY <1>7, <2>2
  <2> QED
    BY <1>7, <2>1, <2>2, <2>3, <2>4
<1> HIDE DEF c
<1>8. FileOf(map) \in [1 .. c -> 1 .. n]
  BY <1>4, <1>6
<1>9. FileOf(map) \in Seq(1 .. n) /\ Len(FileOf(map)) = c
  BY <1>3, <1>8
<1>10. ASSUME NEW i \in 1 .. c, NEW j \in 1 .. c, i < j
       PROVE  FileOf(map)[i] < FileOf(map)[j]
  <2>1. FileOf(map)[i] = kth(i) - b /\ FileOf(map)[j] = kth(j) - b
    BY <1>4, <1>6
  <2>2. kth(i) \in Nat /\ kth(j) \in Nat
    BY <1>1, <1>5
  <2> QED
    BY <1>7, <1>10, <2>1, <2>2
<1> QED
  BY <1>3, <1>9, <1>10 DEF c
=============================================================================
