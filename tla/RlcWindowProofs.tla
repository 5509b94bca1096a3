--------------------------- MODULE RlcWindowProofs ---------------------------
(***************************************************************************)
(* Facts about the block sequence number arithmetic of RlcWindow.          *)
(***************************************************************************)
EXTENDS RlcWindow, WellFoundedInduction, TLAPS

\* "++i % RLC_MOD_VAL" stays in range.
LEMMA IncType == ASSUME NEW i \in BSN PROVE Inc(i) \in BSN
  BY WindowAssumption DEF BSN, Inc

\* The number of increments between two indices is below RLC_MOD_VAL, and zero
\* only for equal indices.
LEMMA DistType ==
  ASSUME NEW a \in BSN, NEW b \in BSN
  PROVE  /\ Dist(a, b) \in 0 .. RLC_MOD_VAL - 1
         /\ Dist(a, b) = 0 <=> a = b
  BY WindowAssumption DEF BSN, Dist

\* BSN mod RLC_MOD_VAL of a block number is an index.
LEMMA ModType == ASSUME NEW n \in Int PROVE n % RLC_MOD_VAL \in BSN
  BY WindowAssumption, SMT DEF BSN

\* A non-empty set of naturals has a least element.
LEMMA LeastNat ==
  ASSUME NEW T \in SUBSET Nat, T # {}
  PROVE  \E x \in T : \A y \in T : x <= y
<1> DEFINE R == OpToRel(<, Nat)
<1>1. IsWellFoundedOn(R, Nat)
  BY NatLessThanWellFounded
<1>2. \A x, y \in Nat : x < y => <<x, y>> \in R
  BY DEF OpToRel
<1> HIDE DEF R
<1>3. PICK x \in T : \A y \in T : ~ (<<y, x>> \in R)
  BY <1>1, WFMin
<1>4. ASSUME NEW y \in T PROVE x <= y
  <2>1. ~ (<<y, x>> \in R) /\ y \in Nat /\ x \in Nat
    BY <1>3
  <2>2. ~ (y < x)
    BY <2>1, <1>2
  <2> QED
    BY <2>1, <2>2
<1> QED
  BY <1>4

\* A scan that starts at a meets an index of a non-empty set: the CHOOSE in
\* FirstFrom is well defined.
LEMMA FirstFromIn ==
  ASSUME NEW S \in SUBSET BSN, S # {}, NEW a \in BSN
  PROVE  /\ FirstFrom(a, S) \in S
         /\ \A j \in S : Dist(a, FirstFrom(a, S)) <= Dist(a, j)
<1> DEFINE T == {Dist(a, i) : i \in S}
<1>1. T \in SUBSET Nat /\ T # {}
  BY DistType
<1>2. \E x \in T : \A y \in T : x <= y
  BY <1>1, LeastNat
<1>3. \E i \in S : \A j \in S : Dist(a, i) <= Dist(a, j)
  BY <1>2
<1> QED
  BY <1>3 DEF FirstFrom

\* A scan from a to b visits indices only.
LEMMA SpanType == ASSUME NEW a, NEW b PROVE Span(a, b) \subseteq BSN
  BY DEF Span

\* Plus and Dist undo each other.
LEMMA PlusDist ==
  ASSUME NEW a \in BSN
  PROVE  /\ \A d \in BSN : Plus(a, d) \in BSN /\ Dist(a, Plus(a, d)) = d
         /\ \A b \in BSN : Plus(a, Dist(a, b)) = b
         /\ Dist(a, a) = 0
  BY WindowAssumption DEF BSN, Plus, Dist

\* The index d increments before another is unique,
LEMMA PlusFrom ==
  ASSUME NEW a \in BSN, NEW b \in BSN, NEW d \in BSN, Plus(a, d) = Plus(b, d)
  PROVE  a = b
  BY WindowAssumption DEF BSN, Plus

\* An index on the way from a to c splits the way.
LEMMA DistSplit ==
  ASSUME NEW a \in BSN, NEW b \in BSN, NEW c \in BSN, Dist(a, b) <= Dist(a, c)
  PROVE  Dist(b, c) = Dist(a, c) - Dist(a, b)
  BY WindowAssumption DEF BSN, Dist

\* The end of the way moves on.
LEMMA DistInc ==
  ASSUME NEW a \in BSN, NEW b \in BSN, Dist(a, b) + 1 < RLC_MOD_VAL
  PROVE  Dist(a, Inc(b)) = Dist(a, b) + 1
  BY WindowAssumption DEF BSN, Dist, Inc

\* and so is the index a given number of increments on.
LEMMA DistSame ==
  ASSUME NEW a \in BSN, NEW b \in BSN, NEW c \in BSN, Dist(a, b) = Dist(a, c)
  PROVE  b = c
  BY WindowAssumption DEF BSN, Dist

\* A scan visits nothing only when it ends where it starts.
LEMMA SpanEmpty ==
  ASSUME NEW a \in BSN, NEW b \in BSN
  PROVE  Span(a, b) = {} <=> a = b
<1>1. Dist(a, a) = 0 /\ Dist(a, b) >= 0
  BY DistType, PlusDist
<1>2. a # b => a \in Span(a, b)
  BY <1>1, DistType DEF Span
<1>3. a = b => Span(a, b) = {}
  BY <1>1, DistType DEF Span
<1> QED
  BY <1>2, <1>3

\* Division with remainder.
LEMMA DivMod ==
  ASSUME NEW n \in Nat, NEW m \in Nat \ {0}
  PROVE  \E q \in Nat, r \in 0 .. m - 1 : n = (m * q) + r /\ n % m = r
<1> DEFINE q == n \div m
<1> DEFINE r == n % m
<1>1. q \in Int
  OBVIOUS
<1>2. n = (m * q) + r /\ 0 <= r /\ r < m
  BY <1>1
<1>3. q >= 0
  BY <1>1, <1>2
<1>4. r \in Int
  OBVIOUS
<1>5. q \in Nat /\ r \in 0 .. m - 1
  BY <1>1, <1>2, <1>3, <1>4
<1>6. n % m = r
  OBVIOUS
<1> HIDE DEF q, r
<1> QED
  BY <1>2, <1>5, <1>6

\* The remainder is the one of DivMod.
LEMMA ModUnique ==
  ASSUME NEW q \in Nat, NEW r \in BSN
  PROVE  ((RLC_MOD_VAL * q) + r) % RLC_MOD_VAL = r
  BY WindowAssumption, SMT DEF BSN

\* The index d blocks on is d increments on.
LEMMA ModPlus ==
  ASSUME NEW n \in Nat, NEW d \in BSN
  PROVE  (n + d) % RLC_MOD_VAL = Plus(n % RLC_MOD_VAL, d)
<1>1. PICK q \in Nat, r \in BSN : n = (RLC_MOD_VAL * q) + r /\ n % RLC_MOD_VAL = r
  <2>1. RLC_MOD_VAL \in Nat \ {0}
    BY WindowAssumption
  <2> QED
    BY <2>1, DivMod DEF BSN
<1>2. CASE r + d < RLC_MOD_VAL
  <2>1. n + d = (RLC_MOD_VAL * q) + (r + d) /\ r + d \in BSN
    BY <1>1, <1>2, WindowAssumption DEF BSN
  <2>2. (n + d) % RLC_MOD_VAL = r + d
    BY <2>1, ModUnique
  <2>3. Plus(r, d) = r + d
    BY <1>2, WindowAssumption DEF Plus, BSN
  <2> QED
    BY <1>1, <2>2, <2>3
<1>3. CASE r + d >= RLC_MOD_VAL
  <2>1. /\ n + d = (RLC_MOD_VAL * (q + 1)) + (r + d - RLC_MOD_VAL)
        /\ r + d - RLC_MOD_VAL \in BSN /\ q + 1 \in Nat
    <3>1. RLC_MOD_VAL * (q + 1) = (RLC_MOD_VAL * q) + RLC_MOD_VAL
      BY WindowAssumption
    <3>2. RLC_MOD_VAL * q \in Int
      BY WindowAssumption
    <3> QED
      BY <1>1, <1>3, <3>1, <3>2, WindowAssumption DEF BSN
  <2>2. (n + d) % RLC_MOD_VAL = r + d - RLC_MOD_VAL
    BY <2>1, ModUnique
  <2> QED
    BY <1>1, <1>3, <2>2 DEF Plus, BSN
<1> QED
  BY <1>2, <1>3, WindowAssumption DEF BSN

\* Numbers less than RLC_MOD_VAL apart are as far apart as their indices.
LEMMA ModDist ==
  ASSUME NEW n \in Nat, NEW d \in BSN
  PROVE  Dist(n % RLC_MOD_VAL, (n + d) % RLC_MOD_VAL) = d
  BY ModType, ModPlus, PlusDist

\* The first block of a TBF has index 0,
LEMMA ModZero == 0 % RLC_MOD_VAL = 0
  BY WindowAssumption, SMT

\* and the next block has the next index.
LEMMA ModInc ==
  ASSUME NEW n \in Nat
  PROVE  (n + 1) % RLC_MOD_VAL = Inc(n % RLC_MOD_VAL)
<1>1. 1 \in BSN
  BY WindowAssumption DEF BSN
<1>2. n % RLC_MOD_VAL \in BSN
  BY ModType
<1> QED
  <2>1. \A r \in BSN : Plus(r, 1) = Inc(r)
    BY WindowAssumption DEF Plus, Inc, BSN
  <2> QED
    BY <1>1, <1>2, <2>1, ModPlus

\* A scan from a to c visits what a scan from a to b visits, then the rest.
LEMMA SpanSplit ==
  ASSUME NEW a \in BSN, NEW b \in BSN, NEW c \in BSN, Dist(a, b) <= Dist(a, c)
  PROVE  Span(b, c) = Span(a, c) \ Span(a, b)
<1>1. ASSUME NEW i \in BSN
      PROVE  Dist(b, i) < Dist(b, c) <=> Dist(a, i) < Dist(a, c) /\ ~(Dist(a, i) < Dist(a, b))
  BY WindowAssumption DEF BSN, Dist
<1> QED
  BY <1>1 DEF Span

\* A scan that does not pass the end of the array visits what lies between.
LEMMA SpanFlat ==
  ASSUME NEW a \in BSN, NEW b \in BSN, a <= b
  PROVE  \A i \in BSN : i \in Span(a, b) <=> a <= i /\ i < b
  BY WindowAssumption DEF BSN, Dist, Span

\* Such a scan that ends at a member of S stops at the least one from a on.
LEMMA FirstFlat ==
  ASSUME NEW a \in BSN, NEW b \in BSN, a <= b, NEW S \in SUBSET BSN, b \in S
  PROVE  /\ FirstFrom(a, S) \in S /\ a <= FirstFrom(a, S) /\ FirstFrom(a, S) <= b
         /\ \A i \in S : a <= i => FirstFrom(a, S) <= i
<1>1. /\ FirstFrom(a, S) \in S
      /\ \A j \in S : Dist(a, FirstFrom(a, S)) <= Dist(a, j)
  BY FirstFromIn
<1>2. ASSUME NEW f \in BSN, NEW i \in BSN, a <= i, Dist(a, f) <= Dist(a, i)
      PROVE  a <= f /\ f <= i
  BY <1>2, WindowAssumption DEF BSN, Dist
<1>3. \A i \in S : a <= i => a <= FirstFrom(a, S) /\ FirstFrom(a, S) <= i
  BY <1>1, <1>2
<1> QED
  BY <1>1, <1>3
==============================================================================
