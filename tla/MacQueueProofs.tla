--------------------------- MODULE MacQueueProofs ---------------------------
(* Proofs about the entries of a queue of the scheduler: what ranking,       *)
(* allocating, releasing and balancing do to it.                             *)
EXTENDS MacScheduler, FiniteSetTheorems, TLAPS

-----------------------------------------------------------------------------
(* Least and greatest numbers, which stand for induction.                    *)

\* A set of natural numbers that is not empty has a least member.
LEMMA NatMin ==
  ASSUME NEW T \in SUBSET Nat, T # {}
  PROVE  \E n \in T : \A m \in T : n <= m
<1> DEFINE R == OpToRel(<, Nat)
<1>1. IsWellFoundedOn(R, Nat)
  BY NatLessThanWellFounded
<1>2. \A x, y \in Nat : x < y => <<x, y>> \in R
  BY DEF OpToRel
<1> HIDE DEF R
<1>3. PICK n \in T : \A m \in T : ~ (<<m, n>> \in R)
  BY <1>1, WFMin
<1>4. ASSUME NEW m \in T PROVE n <= m
  <2>1. ~ (<<m, n>> \in R) /\ m \in Nat /\ n \in Nat
    BY <1>3
  <2>2. ~ (m < n)
    BY <2>1, <1>2
  <2> QED
    BY <2>1, <2>2
<1> QED
  BY <1>4

\* One with a bound has a greatest.
LEMMA NatMax ==
  ASSUME NEW T \in SUBSET Nat, T # {}, NEW b \in Nat, \A x \in T : x <= b
  PROVE  \E n \in T : \A m \in T : m <= n
<1> DEFINE U == {u \in Nat : b - u \in T}
<1>1. U \in SUBSET Nat
  OBVIOUS
<1>2. \A x \in T : b - x \in U
  OBVIOUS
<1>3. U # {}
  BY <1>2
<1> HIDE DEF U
<1>4. PICK u \in U : \A v \in U : u <= v
  BY <1>1, <1>3, NatMin
<1>5. b - u \in T /\ u \in Nat
  BY <1>4 DEF U
<1>6. \A m \in T : m <= b - u
  <2> TAKE m \in T
  <2>1. u <= b - m
    BY <1>2, <1>4
  <2> QED
    BY <2>1, <1>5
<1> QED
  BY <1>5, <1>6

\* Min and Max are what their names say.
LEMMA MinIs ==
  ASSUME NEW T \in SUBSET Nat, T # {}
  PROVE  Min(T) \in T /\ \A m \in T : Min(T) <= m
BY NatMin DEF Min
LEMMA MaxIs ==
  ASSUME NEW T \in SUBSET Nat, T # {}, NEW b \in Nat, \A x \in T : x <= b
  PROVE  Max(T) \in T /\ \A m \in T : Max(T) >= m
<1>1. \E n \in T : \A m \in T : n >= m
  <2>1. PICK n \in T : \A m \in T : m <= n
    BY NatMax
  <2> QED
    BY <2>1
<1> QED
  BY <1>1 DEF Max

-----------------------------------------------------------------------------
(* Ranking.                                                                  *)

Entry == {NullEntry} \cup [tbf : Tbf, prec : 1..3, nbr : Nat]
Worse(q, j, i) == Imp(q[j]) > Imp(q[i]) \/ (Imp(q[j]) = Imp(q[i]) /\ j < i)
WorseThan(q, i) == {j \in DOMAIN q : Worse(q, j, i)}

\* First entries are better than all others, and users are not null.
LEMMA EntryType ==
  ASSUME NEW e \in Entry
  PROVE  /\ Imp(e) \in Nat \ {0} /\ e.tbf \in Tbf \cup {NoTbf} /\ e.nbr \in Nat
         /\ e.tbf = NoTbf => e = NullEntry /\ Imp(e) = 9999
         /\ e.tbf # NoTbf => /\ e.tbf \in Tbf /\ e.prec \in 1..3
                             /\ Imp(e) = Importance(e.prec, e.nbr)
         /\ e.nbr = 0 /\ e.tbf # NoTbf => Imp(e) \in 1..3
         /\ Imp(e) <= 10 => e.tbf # NoTbf /\ e.nbr = 0
  BY SchedulerAssumption DEF Entry, NullEntry, Imp, NullImportance, Importance, Tbf, NoTbf

LEMMA RankDef ==
  ASSUME NEW q
  PROVE  Rank(q) = [i \in DOMAIN q |-> Cardinality(WorseThan(q, i))]
  BY DEF Rank, WorseThan, Worse

\* The ranks are numbers from 0 without a gap, in the order of importance.
LEMMA RankIs ==
  ASSUME NEW n \in Nat, NEW q \in [1..n -> Entry]
  PROVE  /\ \A i \in 1..n : Rank(q)[i] \in 0..n - 1
         /\ \A i, j \in 1..n : Rank(q)[j] < Rank(q)[i] <=> Worse(q, j, i)
         /\ \A i \in 1..n : Rank(q)[i] > 0 => \E j \in 1..n : Rank(q)[j] = Rank(q)[i] - 1
<1> DEFINE W(i) == WorseThan(q, i)
<1>1. IsFiniteSet(1..n) /\ Cardinality(1..n) = n
  BY FS_Interval
<1>2. \A i \in 1..n : Rank(q)[i] = Cardinality(W(i))
  BY RankDef
<1>3. \A i \in 1..n : Imp(q[i]) \in Nat
  BY EntryType
<1>4. \A i \in 1..n : W(i) \in SUBSET (1..n) /\ i \notin W(i) /\ IsFiniteSet(W(i)) /\ Cardinality(W(i)) \in Nat
  <2> TAKE i \in 1..n
  <2>1. W(i) \in SUBSET (1..n) /\ i \notin W(i)
    BY <1>3 DEF WorseThan, Worse
  <2> QED
    BY <2>1, <1>1, FS_Subset, FS_CardinalityType
<1>5. \A i \in 1..n : Cardinality(W(i)) \in 0..n - 1
  <2> TAKE i \in 1..n
  <2>1. Cardinality(W(i)) <= n /\ Cardinality(W(i)) # n
    BY <1>1, <1>4, FS_Subset
  <2> QED
    BY <2>1, <1>4
<1>6. \A i, j \in 1..n : j \in W(i) <=> Worse(q, j, i)
  BY DEF WorseThan
<1>7. \A i, j \in 1..n : i = j \/ Worse(q, i, j) \/ Worse(q, j, i)
  BY <1>3 DEF Worse
<1>8. \A i, j, k \in 1..n : Worse(q, k, j) /\ Worse(q, j, i) => Worse(q, k, i)
  BY <1>3 DEF Worse
<1>9. \A i, j \in 1..n : Worse(q, j, i) => ~ Worse(q, i, j) /\ i # j
  BY <1>3 DEF Worse
<1> HIDE DEF W
<1>10. ASSUME NEW i \in 1..n, NEW j \in 1..n, Worse(q, j, i)
       PROVE  Cardinality(W(j)) < Cardinality(W(i))
  <2>1. W(j) \cup {j} \subseteq W(i)
    BY <1>4, <1>6, <1>8, <1>10
  <2>2. IsFiniteSet(W(j) \cup {j}) /\ Cardinality(W(j) \cup {j}) = Cardinality(W(j)) + 1
    BY <1>4, FS_AddElement
  <2>3. Cardinality(W(j) \cup {j}) <= Cardinality(W(i))
    BY <2>1, <1>4, FS_Subset
  <2> QED
    BY <2>2, <2>3, <1>4
<1>11. \A i, j \in 1..n : Cardinality(W(j)) < Cardinality(W(i)) <=> Worse(q, j, i)
  <2> TAKE i, j \in 1..n
  <2>1. CASE Worse(q, j, i)
    BY <2>1, <1>10
  <2>2. CASE Worse(q, i, j)
    <3>1. Cardinality(W(i)) < Cardinality(W(j)) /\ ~ Worse(q, j, i)
      BY <2>2, <1>9, <1>10
    <3> QED
      BY <3>1, <1>4
  <2>3. CASE i = j
    BY <2>3, <1>4, <1>9
  <2> QED
    BY <1>7, <2>1, <2>2, <2>3
<1>12. ASSUME NEW i \in 1..n, Cardinality(W(i)) > 0
       PROVE  \E j \in 1..n : Cardinality(W(j)) = Cardinality(W(i)) - 1
  <2> DEFINE T == {Cardinality(W(j)) : j \in W(i)}
  <2>1. W(i) # {}
    BY <1>12, FS_EmptySet, <1>4
  <2>2. T \in SUBSET Nat /\ T # {} /\ \A x \in T : x <= n
    <3>1. \A j \in W(i) : Cardinality(W(j)) \in Nat /\ Cardinality(W(j)) <= n
      BY <1>4, <1>5
    <3> QED
      BY <3>1, <2>1
  <2>3. \E x \in T : \A y \in T : y <= x
    <3> HIDE DEF T
    <3> QED
      BY <2>2, NatMax
  <2>4. PICK j \in W(i) : \A k \in W(i) : Cardinality(W(k)) <= Cardinality(W(j))
    BY <2>3
  <2> HIDE DEF T
  <2>5. j \in 1..n /\ Worse(q, j, i)
    BY <1>4, <1>6
  <2>6. W(i) \subseteq W(j) \cup {j}
    <3> SUFFICES ASSUME NEW k \in W(i), k # j PROVE k \in W(j)
      OBVIOUS
    <3>1. k \in 1..n /\ ~ (Cardinality(W(j)) < Cardinality(W(k)))
      BY <1>4, <2>4, <2>5
    <3>2. ~ Worse(q, j, k)
      BY <3>1, <2>5, <1>11
    <3> QED
      BY <3>1, <3>2, <2>5, <1>6, <1>7
  <2>7. W(j) \cup {j} \subseteq W(i)
    BY <1>4, <1>6, <1>8, <2>5
  <2>8. Cardinality(W(i)) = Cardinality(W(j)) + 1
    <3>1. W(i) = W(j) \cup {j}
      BY <2>6, <2>7
    <3> QED
      BY <3>1, <2>5, <1>4, FS_AddElement
  <2> QED
    BY <2>5, <2>8, <1>4
<1> QED
  BY <1>2, <1>5, <1>11, <1>12

-----------------------------------------------------------------------------
(* Allocating entries.                                                       *)

LEMMA EntitledDef ==
  ASSUME NEW q, NEW p, NEW n
  PROVE  Entitled(q, p, n) =
           {i \in DOMAIN q : \A j \in DOMAIN q :
              Rank(q)[j] <= Rank(q)[i] => Importance(p, n + Rank(q)[j]) < Imp(q[j])}
  BY DEF Entitled, With

LEMMA AllocateDef ==
  ASSUME NEW q, NEW t, NEW p, NEW n
  PROVE  AllocateEntries(q, t, p, n) =
           [i \in DOMAIN q |-> IF i \in Entitled(q, p, n)
                               THEN [tbf |-> t, prec |-> p, nbr |-> n + Rank(q)[i]] ELSE q[i]]
  BY DEF AllocateEntries, With

\* The queue q becomes r: the entries E are better than what was there, are a
\* stretch of the ranks from the worst on, and are numbered without a gap.
Takes(len, q, r, E, t, p, n) ==
  /\ r \in [1..len -> Entry] /\ E \subseteq 1..len
  /\ \A i \in (1..len) \ E : r[i] = q[i]
  /\ \A i \in E : /\ r[i].tbf = t /\ r[i].prec = p /\ r[i].nbr \in n..n + len - 1
                  /\ Imp(r[i]) = Importance(p, r[i].nbr)
                  /\ Imp(r[i]) < Imp(q[i])
  /\ \A i \in (1..len) \ E, j \in E : Imp(q[i]) <= Imp(q[j])
  /\ \A i, j \in E : r[i].nbr <= r[j].nbr \/ Imp(q[i]) <= Imp(q[j])
  /\ \A i \in E : r[i].nbr > n => \E j \in E : r[j].nbr = r[i].nbr - 1

LEMMA AllocateIs ==
  ASSUME NEW len \in Nat, NEW q \in [1..len -> Entry],
         NEW t \in Tbf, NEW p \in 1..3, NEW n \in Nat
  PROVE  Takes(len, q, AllocateEntries(q, t, p, n), Entitled(q, p, n), t, p, n)
<1> DEFINE r == AllocateEntries(q, t, p, n)
           E == Entitled(q, p, n)
           rank == Rank(q)
<1>1. E \subseteq 1..len /\ \A i \in 1..len : i \in E <=>
        \A j \in 1..len : rank[j] <= rank[i] => Importance(p, n + rank[j]) < Imp(q[j])
  BY EntitledDef
<1>2. \A i \in 1..len : r[i] = IF i \in E THEN [tbf |-> t, prec |-> p, nbr |-> n + rank[i]] ELSE q[i]
  BY AllocateDef
<1>3. DOMAIN r = 1..len /\ r = [i \in 1..len |-> r[i]]
  BY AllocateDef
<1>4. /\ \A i \in 1..len : rank[i] \in 0..len - 1
      /\ \A i, j \in 1..len : rank[j] < rank[i] <=> Worse(q, j, i)
      /\ \A i \in 1..len : rank[i] > 0 => \E j \in 1..len : rank[j] = rank[i] - 1
  BY RankIs
<1> HIDE DEF r, E, rank
<1>5. \A i \in E : /\ r[i].tbf = t /\ r[i].prec = p /\ r[i].nbr = n + rank[i]
                   /\ r[i] \in Entry /\ Imp(r[i]) = Importance(p, r[i].nbr)
  <2> TAKE i \in E
  <2>1. r[i] = [tbf |-> t, prec |-> p, nbr |-> n + rank[i]] /\ n + rank[i] \in Nat
    BY <1>1, <1>2, <1>4
  <2>2. t # NoTbf
    BY SchedulerAssumption DEF Tbf, NoTbf
  <2> QED
    BY <2>1, <2>2 DEF Entry, Imp
<1>6. r \in [1..len -> Entry]
  <2>1. \A i \in 1..len : r[i] \in Entry
    BY <1>1, <1>2, <1>5
  <2> QED
    BY <2>1, <1>3
<1>7. \A i \in E : Imp(r[i]) < Imp(q[i])
  BY <1>1, <1>4, <1>5
<1>8. \A i \in E, j \in 1..len : rank[j] <= rank[i] => j \in E
  BY <1>1, <1>4
<1>9. \A i \in (1..len) \ E, j \in E : Imp(q[i]) <= Imp(q[j])
  <2> TAKE i \in (1..len) \ E, j \in E
  <2>1. ~ (rank[i] < rank[j])
    BY <1>1, <1>4, <1>8
  <2>2. ~ Worse(q, i, j)
    BY <2>1, <1>1, <1>4
  <2> QED
    BY <2>2, <1>1, EntryType DEF Worse
<1>10. \A i \in E : r[i].nbr > n => \E j \in E : r[j].nbr = r[i].nbr - 1
  <2> SUFFICES ASSUME NEW i \in E, r[i].nbr > n PROVE \E j \in E : r[j].nbr = r[i].nbr - 1
    OBVIOUS
  <2>1. rank[i] > 0 /\ i \in 1..len
    BY <1>1, <1>4, <1>5
  <2>2. PICK j \in 1..len : rank[j] = rank[i] - 1
    BY <2>1, <1>4
  <2>3. j \in E
    BY <2>1, <2>2, <1>4, <1>8
  <2> QED
    BY <2>1, <2>2, <2>3, <1>4, <1>5
<1>11. \A i, j \in E : r[i].nbr <= r[j].nbr \/ Imp(q[i]) <= Imp(q[j])
  <2> SUFFICES ASSUME NEW i \in E, NEW j \in E, ~ (r[i].nbr <= r[j].nbr)
               PROVE  Imp(q[i]) <= Imp(q[j])
    OBVIOUS
  <2>0. i \in 1..len /\ j \in 1..len
    BY <1>1
  <2>1. rank[j] < rank[i]
    BY <2>0, <1>4, <1>5
  <2>2. Worse(q, j, i)
    BY <2>0, <2>1, <1>4
  <2>3. Imp(q[i]) \in Nat /\ Imp(q[j]) \in Nat
    BY <2>0, EntryType
  <2> QED
    BY <2>2, <2>3 DEF Worse
<1>12. \A i \in (1..len) \ E : r[i] = q[i]
  BY <1>1, <1>2
<1>13. \A i \in E : r[i].nbr \in n..n + len - 1
  <2> TAKE i \in E
  <2>1. rank[i] \in 0..len - 1 /\ r[i].nbr = n + rank[i]
    BY <1>1, <1>4, <1>5
  <2> QED
    BY <2>1
<1>14. Takes(len, q, r, E, t, p, n)
  BY <1>1, <1>5, <1>6, <1>7, <1>9, <1>10, <1>11, <1>12, <1>13 DEF Takes
<1> QED
  BY <1>14 DEF r, E

\* The first of what is taken has the number asked for.
LEMMA TakesFirst ==
  ASSUME NEW len \in Nat, NEW q, NEW r, NEW E, E # {}, NEW t, NEW p, NEW n \in Nat,
         Takes(len, q, r, E, t, p, n)
  PROVE  \E i \in E : r[i].nbr = n
<1> DEFINE T == {r[i].nbr : i \in E}
<1>1. /\ \A i \in E : r[i].nbr \in n..n + len - 1
      /\ \A i \in E : r[i].nbr > n => \E j \in E : r[j].nbr = r[i].nbr - 1
  BY DEF Takes
<1>2. T \in SUBSET Nat /\ T # {}
  BY <1>1
<1>3. \A i \in E : r[i].nbr \in T
  OBVIOUS
<1>4. \A x \in T : \E i \in E : x = r[i].nbr
  OBVIOUS
<1> HIDE DEF T
<1>5. PICK x \in T : \A y \in T : x <= y
  BY <1>2, NatMin
<1>6. PICK i \in E : x = r[i].nbr
  BY <1>4, <1>5
<1>7. ~ (r[i].nbr > n)
  <2> SUFFICES ASSUME r[i].nbr > n PROVE FALSE
    OBVIOUS
  <2>1. PICK j \in E : r[j].nbr = r[i].nbr - 1
    BY <1>1
  <2>2. r[i].nbr <= r[j].nbr
    BY <1>3, <1>5, <1>6, <2>1
  <2> QED
    BY <2>1, <2>2, <1>1
<1>8. r[i].nbr = n
  BY <1>1, <1>7
<1> QED
  BY <1>8

\* First entries, which only a first entry can displace.
FirstIn(q) == \A u \in Users(q) : \E i \in EntriesOf(q, u) : q[i].nbr = 0

\* A new user takes first entries only where all entries are first entries.
LEMMA NewUserKeepsFirsts ==
  ASSUME NEW len \in Nat, NEW q \in [1..len -> Entry], NEW r, NEW E,
         NEW t \in Tbf, NEW p \in 1..3, Takes(len, q, r, E, t, p, 0), FirstIn(q)
  PROVE  FirstIn(r)
<1> SUFFICES ASSUME NEW u \in Users(r) PROVE \E i \in EntriesOf(r, u) : r[i].nbr = 0
  BY DEF FirstIn
<1>1. /\ r \in [1..len -> Entry] /\ E \subseteq 1..len
      /\ \A i \in (1..len) \ E : r[i] = q[i]
      /\ \A i \in E : /\ r[i].tbf = t /\ r[i].prec = p /\ r[i].nbr \in Nat
                      /\ Imp(r[i]) = Importance(p, r[i].nbr)
                      /\ Imp(r[i]) < Imp(q[i])
      /\ \A i \in (1..len) \ E, j \in E : Imp(q[i]) <= Imp(q[j])
  BY DEF Takes
<1>2. DOMAIN r = 1..len /\ DOMAIN q = 1..len
  BY <1>1
<1>3. PICK k \in 1..len : r[k].tbf = u
  BY <1>2 DEF Users
<1>4. u # NoTbf
  BY DEF Users
<1>5. CASE u = t /\ E # {}
  <2>1. PICK i \in E : r[i].nbr = 0
    BY <1>5, TakesFirst
  <2> QED
    BY <2>1, <1>1, <1>2, <1>5 DEF EntriesOf
<1>6. CASE k \notin E
  <2>1. r[k] = q[k] /\ u \in Users(q)
    BY <1>1, <1>2, <1>3, <1>4, <1>6 DEF Users
  <2>2. PICK f \in 1..len : q[f].tbf = u /\ q[f].nbr = 0
    BY <2>1, <1>2 DEF FirstIn, EntriesOf
  <2>3. CASE f \notin E
    BY <2>2, <2>3, <1>1, <1>2 DEF EntriesOf
  <2>4. CASE f \in E
    <3>1. Imp(q[f]) \in 1..3 /\ Imp(q[k]) \in Nat
      BY <2>2, <1>4, EntryType
    <3>2. Imp(q[k]) <= 10
      <4>1. Imp(q[k]) <= Imp(q[f])
        BY <2>4, <1>1, <1>6
      <4> QED
        BY <3>1, <4>1
    <3>3. q[k].nbr = 0
      BY <3>2, EntryType
    <3> QED
      BY <3>3, <2>1, <1>2, <1>3 DEF EntriesOf
  <2> QED
    BY <2>3, <2>4
<1>7. CASE k \in E
  BY <1>1, <1>3, <1>5, <1>7
<1> QED
  BY <1>6, <1>7

\* A user that has its first entry takes none.
LEMMA MoreKeepsFirsts ==
  ASSUME NEW len \in Nat, NEW q \in [1..len -> Entry], NEW r, NEW E,
         NEW t \in Tbf, NEW p \in 1..3, NEW n \in Nat \ {0}, Takes(len, q, r, E, t, p, n)
  PROVE  \A i \in 1..len : q[i].tbf # NoTbf /\ q[i].nbr = 0 => r[i] = q[i]
<1> SUFFICES ASSUME NEW i \in 1..len, q[i].tbf # NoTbf, q[i].nbr = 0, i \in E PROVE FALSE
  BY DEF Takes
<1>1. r[i].nbr \in n..n + len - 1 /\ Imp(r[i]) = Importance(p, r[i].nbr) /\ Imp(r[i]) < Imp(q[i])
  BY DEF Takes
<1>2. Imp(r[i]) \in Nat /\ Imp(r[i]) >= 11
  BY <1>1 DEF Importance
<1>3. Imp(q[i]) \in 1..3
  BY EntryType
<1> QED
  BY <1>1, <1>2, <1>3

-----------------------------------------------------------------------------
(* Balancing: one user after the other.                                      *)

\* What holds of 0 and of each successor holds of every number.
LEMMA NatInd ==
  ASSUME NEW T, 0 \in T, \A k \in Nat : k \in T => k + 1 \in T
  PROVE  Nat \subseteq T
<1> DEFINE U == {k \in Nat : k \notin T}
<1> SUFFICES ASSUME U # {} PROVE FALSE
  OBVIOUS
<1>1. PICK k \in U : \A m \in U : k <= m
  BY NatMin
<1>2. k # 0 /\ k \in Nat
  BY <1>1
<1>3. k - 1 \in Nat /\ ~ (k <= k - 1)
  BY <1>2
<1>4. k - 1 \in T
  BY <1>1, <1>3
<1>5. (k - 1) + 1 \in T
  BY <1>3, <1>4
<1> QED
  BY <1>1, <1>2, <1>5

LEMMA BalanceDef ==
  ASSUME NEW len \in Nat, NEW q \in [1..len -> Entry]
  PROVE  \E f : /\ f[0] = q /\ f[len] = BalanceEntries(q)
                /\ \A k \in 1..len : f[k] = BalanceUser(q, k, f[k - 1])
<1> DEFINE Body(f, k) == IF k = 0 THEN q ELSE With(f[k - 1], LAMBDA r : BalanceUser(q, k, r))
           T == {n \in Nat : \E f : f = [k \in 0..n |-> Body(f, k)]}
<1>1. \A f, k : Body(f, k) = IF k = 0 THEN q ELSE BalanceUser(q, k, f[k - 1])
  BY DEF With
<1>2. 0 \in T
  <2>1. [k \in 0..0 |-> q] = [k \in 0..0 |-> Body([j \in 0..0 |-> q], k)]
    BY <1>1
  <2> QED
    BY <2>1
<1> HIDE DEF Body
<1>3. ASSUME NEW n \in Nat, n \in T PROVE n + 1 \in T
  <2>1. PICK f : f = [k \in 0..n |-> Body(f, k)]
    BY <1>3
  <2> DEFINE g == [k \in 0..n + 1 |-> IF k = n + 1 THEN Body(f, k) ELSE f[k]]
  <2>2. \A k \in 0..n + 1 : k # 0 => k - 1 \in 0..n /\ g[k - 1] = f[k - 1]
    OBVIOUS
  <2>3. \A k \in 0..n + 1 : Body(g, k) = Body(f, k)
    BY <2>2, <1>1
  <2>4. \A k \in 0..n : f[k] = Body(f, k)
    BY <2>1
  <2>5. \A k \in 0..n + 1 : g[k] = Body(g, k)
    BY <2>3, <2>4
  <2>6. g = [k \in 0..n + 1 |-> g[k]]
    OBVIOUS
  <2>7. g = [k \in 0..n + 1 |-> Body(g, k)]
    BY <2>5, <2>6
  <2> HIDE DEF g
  <2> QED
    BY <2>7
<1>4. len \in T
  <2> HIDE DEF T
  <2> QED
    BY <1>2, <1>3, NatInd
<1>5. Len(q) = len
  OBVIOUS
<1> DEFINE after == CHOOSE f : f = [k \in 0..len |-> Body(f, k)]
<1>6. after = [k \in 0..len |-> Body(after, k)]
  BY <1>4
<1>7. BalanceEntries(q) = after[len]
  BY <1>5 DEF BalanceEntries, Body
<1>8. after[0] = q /\ \A k \in 1..len : after[k] = BalanceUser(q, k, after[k - 1])
  <2> HIDE DEF after
  <2>1. \A k \in 0..len : after[k] = Body(after, k)
    BY <1>6
  <2> QED
    BY <2>1, <1>1
<1> QED
  BY <1>7, <1>8

LEMMA HighestIs ==
  ASSUME NEW len \in Nat, NEW q \in [1..len -> Entry], NEW u \in Users(q)
  PROVE  /\ HighestEntry(q, u) \in Nat
         /\ \E i \in EntriesOf(q, u) : q[i].nbr = HighestEntry(q, u)
         /\ \A i \in EntriesOf(q, u) : q[i].nbr <= HighestEntry(q, u)
<1> DEFINE T == {q[i].nbr : i \in EntriesOf(q, u)}
           B == {n \in Nat : n <= len => \E b \in Nat : \A i \in 1..n : q[i].nbr <= b}
<1>1. \A i \in 1..len : q[i].nbr \in Nat
  BY EntryType
<1>2. EntriesOf(q, u) # {} /\ EntriesOf(q, u) \subseteq 1..len
  BY DEF Users, EntriesOf
<1>3. 0 \in B
  OBVIOUS
<1>4. ASSUME NEW n \in Nat, n \in B PROVE n + 1 \in B
  <2> SUFFICES ASSUME n + 1 <= len PROVE \E b \in Nat : \A i \in 1..n + 1 : q[i].nbr <= b
    OBVIOUS
  <2>1. PICK b \in Nat : \A i \in 1..n : q[i].nbr <= b
    BY <1>4
  <2>2. q[n + 1].nbr \in Nat
    BY <1>1
  <2>3. b + q[n + 1].nbr \in Nat /\ \A i \in 1..n + 1 : q[i].nbr <= b + q[n + 1].nbr
    BY <1>1, <2>1, <2>2
  <2> QED
    BY <2>3
<1>5. PICK b \in Nat : \A i \in 1..len : q[i].nbr <= b
  <2>1. len \in B
    <3> HIDE DEF B
    <3> QED
      BY <1>3, <1>4, NatInd
  <2> QED
    BY <2>1
<1>6. T \in SUBSET Nat /\ T # {} /\ \A x \in T : x <= b
  BY <1>1, <1>2, <1>5
<1>7. HighestEntry(q, u) = Max(T)
  BY DEF HighestEntry
<1>8. Max(T) \in T /\ \A m \in T : Max(T) >= m
  <2> HIDE DEF T
  <2> QED
    BY <1>6, MaxIs
<1>9. Max(T) \in Nat /\ \A i \in EntriesOf(q, u) : q[i].nbr <= Max(T)
  <2>1. \A i \in EntriesOf(q, u) : q[i].nbr \in Nat /\ q[i].nbr \in T
    BY <1>1, <1>2
  <2> HIDE DEF T
  <2> QED
    BY <1>6, <1>8, <2>1
<1>10. \E i \in EntriesOf(q, u) : q[i].nbr = Max(T)
  BY <1>8
<1> QED
  BY <1>7, <1>9, <1>10

\* Balancing keeps the users and their first entries.
LEMMA BalanceKeepsFirsts ==
  ASSUME NEW len \in Nat, NEW q \in [1..len -> Entry], FirstIn(q)
  PROVE  /\ BalanceEntries(q) \in [1..len -> Entry]
         /\ FirstIn(BalanceEntries(q)) /\ Users(BalanceEntries(q)) \subseteq Users(q)
<1> PICK f : /\ f[0] = q /\ f[len] = BalanceEntries(q)
             /\ \A k \in 1..len : f[k] = BalanceUser(q, k, f[k - 1])
  BY BalanceDef
<1> DEFINE P(r) == /\ r \in [1..len -> Entry] /\ Users(r) \subseteq Users(q)
                   /\ \A i \in 1..len : q[i].tbf # NoTbf /\ q[i].nbr = 0 => r[i] = q[i]
           T == {k \in Nat : k <= len => P(f[k])}
<1>1. P(q)
  OBVIOUS
<1>2. ASSUME NEW k \in 1..len, NEW r, P(r) PROVE P(BalanceUser(q, k, r))
  <2>1. CASE ~ Leads(q, k)
    BY <2>1, <1>2 DEF BalanceUser
  <2>2. CASE Leads(q, k)
    <3> DEFINE u == q[k].tbf
               n == HighestEntry(q, u) + 1
               E == Entitled(r, q[k].prec, n)
               s == AllocateEntries(r, u, q[k].prec, n)
    <3>1. u \in Users(q) /\ u \in Tbf /\ q[k].prec \in 1..3
      <4>1. q[k] \in Entry /\ q[k].tbf # NoTbf
        BY <2>2 DEF Leads
      <4>2. u \in Tbf /\ q[k].prec \in 1..3
        BY <4>1, EntryType
      <4> QED
        BY <4>1, <4>2 DEF Users
    <3>2. n \in Nat \ {0}
      BY <3>1, HighestIs
    <3>3. Takes(len, r, s, E, u, q[k].prec, n)
      BY <1>2, <3>1, <3>2, AllocateIs
    <3>4. BalanceUser(q, k, r) = s
      BY <2>2 DEF BalanceUser
    <3> HIDE DEF u, n, E, s
    <3>5. s \in [1..len -> Entry]
      BY <3>3 DEF Takes
    <3>6. Users(s) \subseteq Users(q)
      <4> SUFFICES ASSUME NEW i \in 1..len, s[i].tbf # NoTbf PROVE s[i].tbf \in Users(q)
        BY <3>5 DEF Users
      <4>1. CASE i \in E
        BY <4>1, <3>1, <3>3 DEF Takes
      <4>2. CASE i \notin E
        BY <4>2, <1>2, <3>3 DEF Takes, Users
      <4> QED
        BY <4>1, <4>2
    <3>7. ASSUME NEW i \in 1..len, q[i].tbf # NoTbf, q[i].nbr = 0 PROVE s[i] = q[i]
      <4>1. \A j \in 1..len : r[j].tbf # NoTbf /\ r[j].nbr = 0 => s[j] = r[j]
        BY ZenonT(30), <1>2, <3>1, <3>2, <3>3, MoreKeepsFirsts
      <4> QED
        BY <4>1, <1>2, <3>7
    <3> QED
      BY <3>4, <3>5, <3>6, <3>7
  <2> QED
    BY <2>1, <2>2
<1> HIDE DEF P
<1>3. 0 \in T
  BY <1>1
<1>4. ASSUME NEW k \in Nat, k \in T PROVE k + 1 \in T
  <2> SUFFICES ASSUME k + 1 <= len PROVE P(f[k + 1])
    OBVIOUS
  <2>1. k + 1 \in 1..len /\ (k + 1) - 1 = k /\ P(f[k])
    BY <1>4
  <2> QED
    BY <2>1, <1>2
<1>5. P(BalanceEntries(q))
  <2>1. len \in T
    <3> HIDE DEF T
    <3> QED
      BY <1>3, <1>4, NatInd
  <2> QED
    BY <2>1
<1>6. FirstIn(BalanceEntries(q))
  <2> DEFINE r == BalanceEntries(q)
  <2>1. r \in [1..len -> Entry] /\ Users(r) \subseteq Users(q)
        /\ \A i \in 1..len : q[i].tbf # NoTbf /\ q[i].nbr = 0 => r[i] = q[i]
    BY <1>5 DEF P
  <2> HIDE DEF r
  <2> SUFFICES ASSUME NEW u \in Users(r) PROVE \E i \in EntriesOf(r, u) : r[i].nbr = 0
    BY DEF FirstIn, r
  <2>2. PICK i \in 1..len : q[i].tbf = u /\ q[i].nbr = 0
    BY <2>1 DEF FirstIn, EntriesOf
  <2>3. u # NoTbf
    BY DEF Users
  <2> QED
    BY <2>1, <2>2, <2>3 DEF EntriesOf
<1> QED
  BY <1>5, <1>6 DEF P

LEMMA DeallocateDef ==
  ASSUME NEW q, NEW t
  PROVE  DeallocateEntries(q, t) =
           IF t \in Users(q) THEN BalanceEntries(DeallocateUnbalanced(q, t)) ELSE q
  BY DEF DeallocateEntries, DeallocateUnbalanced, With

\* Taking a user's entries away leaves those of the others.
LEMMA UnbalancedIs ==
  ASSUME NEW len \in Nat, NEW q \in [1..len -> Entry], NEW t \in Tbf
  PROVE  LET r == DeallocateUnbalanced(q, t)
         IN /\ r \in [1..len -> Entry] /\ Users(r) = Users(q) \ {t}
            /\ \A i \in 1..len : r[i] = IF q[i].tbf = t THEN NullEntry ELSE q[i]
<1> DEFINE r == DeallocateUnbalanced(q, t)
<1>1. r \in [1..len -> Entry] /\ \A i \in 1..len : r[i] = IF q[i].tbf = t THEN NullEntry ELSE q[i]
  BY DEF DeallocateUnbalanced, Entry
<1> HIDE DEF r
<1>2. NullEntry.tbf = NoTbf
  BY DEF NullEntry
<1>3. Users(r) = Users(q) \ {t}
  BY <1>1, <1>2 DEF Users
<1> QED
  BY <1>1, <1>3 DEF r

\* A user that leaves is gone, and the others keep their first entries.
LEMMA DeallocateKeepsFirsts ==
  ASSUME NEW len \in Nat, NEW q \in [1..len -> Entry], NEW t \in Tbf, FirstIn(q)
  PROVE  /\ DeallocateEntries(q, t) \in [1..len -> Entry]
         /\ FirstIn(DeallocateEntries(q, t))
         /\ Users(DeallocateEntries(q, t)) \subseteq Users(q) \ {t}
<1> DEFINE r == DeallocateUnbalanced(q, t)
<1>1. /\ r \in [1..len -> Entry] /\ Users(r) = Users(q) \ {t}
      /\ \A i \in 1..len : r[i] = IF q[i].tbf = t THEN NullEntry ELSE q[i]
  BY UnbalancedIs
<1> HIDE DEF r
<1>2. FirstIn(r)
  <2> SUFFICES ASSUME NEW u \in Users(r) PROVE \E i \in EntriesOf(r, u) : r[i].nbr = 0
    BY DEF FirstIn
  <2>1. u \in Users(q) /\ u # t
    BY <1>1
  <2>2. PICK i \in 1..len : q[i].tbf = u /\ q[i].nbr = 0
    BY <2>1 DEF FirstIn, EntriesOf
  <2> QED
    BY <2>1, <2>2, <1>1 DEF EntriesOf
<1>3. CASE t \notin Users(q)
  BY <1>3, DeallocateDef
<1>4. CASE t \in Users(q)
  <2>1. DeallocateEntries(q, t) = BalanceEntries(r)
    BY <1>4, DeallocateDef DEF r
  <2> QED
    BY <1>1, <1>2, <2>1, BalanceKeepsFirsts
<1> QED
  BY <1>3, <1>4

-----------------------------------------------------------------------------
(* The levels that are full or empty.                                        *)

\* A user has one precedence, and with each entry the one before.
OnePrec(q) == \A i, j \in DOMAIN q : q[i].tbf = q[j].tbf => q[i].prec = q[j].prec
NoGaps(q) ==
  \A i \in DOMAIN q : q[i].nbr > 0 =>
     \E j \in DOMAIN q : q[j].tbf = q[i].tbf /\ q[j].nbr = q[i].nbr - 1
FullIn(q) == Users(q) # {} => NoTbf \notin {q[i].tbf : i \in DOMAIN q}
Regular(q) == FirstIn(q) /\ FullIn(q) /\ OnePrec(q) /\ NoGaps(q)

\* The importance of null is out of reach of the users of such a queue.
Short(len) == len \in Nat /\ 30 + 2 * len < 9999

\* Without gaps no number exceeds the entries that there are.
LEMMA NoGapsBound ==
  ASSUME NEW len \in Nat, NEW q \in [1..len -> Entry], NoGaps(q)
  PROVE  \A i \in 1..len : q[i].nbr \in 0..len - 1
<1> SUFFICES ASSUME NEW i \in 1..len PROVE q[i].nbr < len
  BY EntryType
<1> DEFINE m == q[i].nbr
           At(j, k) == q[j].tbf = q[i].tbf /\ q[j].nbr = k
           T == {d \in Nat : d <= m => \E j \in 1..len : At(j, m - d)}
<1>1. m \in Nat
  BY EntryType
<1>2. 0 \in T
  BY <1>1
<1>3. ASSUME NEW d \in Nat, d \in T PROVE d + 1 \in T
  <2> SUFFICES ASSUME d + 1 <= m PROVE \E j \in 1..len : At(j, m - (d + 1))
    OBVIOUS
  <2>1. PICK j \in 1..len : At(j, m - d)
    BY <1>1, <1>3
  <2>2. q[j].nbr > 0
    BY <1>1, <2>1
  <2>3. PICK k \in 1..len : q[k].tbf = q[j].tbf /\ q[k].nbr = q[j].nbr - 1
    BY <2>2 DEF NoGaps
  <2>4. At(k, m - (d + 1))
    BY <1>1, <2>1, <2>3
  <2> QED
    BY <2>4
<1>4. Nat \subseteq T
  <2> HIDE DEF T
  <2> QED
    BY <1>2, <1>3, NatInd
<1>5. \A k \in 0..m : \E j \in 1..len : At(j, k)
  <2> TAKE k \in 0..m
  <2>0. m - k \in Nat /\ m - k <= m /\ m - (m - k) = k
    BY <1>1
  <2>1. m - k \in T /\ m - k <= m /\ m - (m - k) = k
    BY <2>0, <1>4
  <2> QED
    BY <2>1
<1> HIDE DEF T
<1> DEFINE g == [k \in 0..m |-> CHOOSE j \in 1..len : At(j, k)]
<1>6. \A k \in 0..m : g[k] \in 1..len /\ At(g[k], k)
  BY <1>5
<1>7. g \in Injection(0..m, 1..len)
  <2>1. g \in [0..m -> 1..len]
    BY <1>6
  <2>2. \A a, b \in 0..m : g[a] = g[b] => a = b
    BY <1>6
  <2> QED
    BY <2>1, <2>2 DEF Injection, IsInjective
<1>8. Cardinality(0..m) <= Cardinality(1..len)
  <2> HIDE DEF g, m
  <2>1. IsFiniteSet(1..len)
    BY FS_Interval
  <2> QED
    BY <1>7, <2>1, FS_Injection
<1>9. Cardinality(0..m) = m + 1 /\ Cardinality(1..len) = len
  <2> HIDE DEF m
  <2>1. Cardinality(0..m) = IF 0 > m THEN 0 ELSE m - 0 + 1
    BY <1>1, FS_Interval
  <2>2. Cardinality(1..len) = IF 1 > len THEN 0 ELSE len - 1 + 1
    BY FS_Interval
  <2> QED
    BY <1>1, <2>1, <2>2
<1> QED
  BY <1>1, <1>8, <1>9

\* Null entries are there for the taking.
LEMMA NullsTaken ==
  ASSUME NEW len, Short(len), NEW q \in [1..len -> Entry], NoGaps(q),
         NEW p \in 1..3, NEW n \in 0..len
  PROVE  \A i \in 1..len : q[i].tbf = NoTbf => i \in Entitled(q, p, n)
<1> USE DEF Short
<1> SUFFICES ASSUME NEW i \in 1..len, q[i].tbf = NoTbf, NEW j \in 1..len, Rank(q)[j] <= Rank(q)[i]
             PROVE  Importance(p, n + Rank(q)[j]) < Imp(q[j])
  BY EntitledDef
<1>1. \A k \in 1..len : Rank(q)[k] \in 0..len - 1
  BY RankIs
<1>2. ~ Worse(q, i, j)
  <2>1. ~ (Rank(q)[i] < Rank(q)[j])
    BY <1>1
  <2> QED
    BY <2>1, RankIs
<1>3. Imp(q[i]) = 9999
  BY EntryType
<1>4. Imp(q[j]) = 9999
  <2>1. Imp(q[j]) \in Nat /\ Imp(q[j]) >= 9999
    BY <1>2, <1>3, EntryType DEF Worse
  <2>2. q[j].nbr \in 0..len - 1
    BY NoGapsBound
  <2>3. CASE q[j].tbf # NoTbf
    <3>1. Imp(q[j]) = Importance(q[j].prec, q[j].nbr) /\ q[j].prec \in 1..3
      BY <2>3, EntryType
    <3>2. Imp(q[j]) < 9999
      BY <2>2, <3>1 DEF Importance
    <3> QED
      BY <2>1, <3>2
  <2>4. CASE q[j].tbf = NoTbf
    BY <2>4, EntryType
  <2> QED
    BY <2>3, <2>4
<1>5. Importance(p, n + Rank(q)[j]) < 9999
  BY <1>1 DEF Importance
<1> QED
  BY <1>4, <1>5

\* An entry that stays keeps the one before, which is better.
LEMMA StaysWithLower ==
  ASSUME NEW len \in Nat, NEW q \in [1..len -> Entry], OnePrec(q), NoGaps(q),
         NEW r, NEW E, NEW t, NEW p, NEW n, Takes(len, q, r, E, t, p, n),
         NEW i \in (1..len) \ E, q[i].nbr > 0
  PROVE  \E j \in (1..len) \ E : q[j].tbf = q[i].tbf /\ q[j].nbr = q[i].nbr - 1
<1>1. PICK j \in 1..len : q[j].tbf = q[i].tbf /\ q[j].nbr = q[i].nbr - 1
  BY DEF NoGaps
<1>2. q[i] \in Entry /\ q[j] \in Entry
  OBVIOUS
<1>3. q[i].tbf # NoTbf
  <2>1. NullEntry.nbr = 0
    BY DEF NullEntry
  <2> QED
    BY <1>2, <2>1, EntryType
<1>4. q[j].prec = q[i].prec
  BY <1>1 DEF OnePrec
<1>5. /\ Imp(q[i]) = Importance(q[i].prec, q[i].nbr) /\ q[i].prec \in 1..3 /\ q[i].nbr \in Nat
      /\ Imp(q[j]) = Importance(q[i].prec, q[i].nbr - 1)
  BY <1>1, <1>2, <1>3, <1>4, EntryType
<1>6. Imp(q[j]) < Imp(q[i]) /\ Imp(q[j]) \in Int /\ Imp(q[i]) \in Int
  BY SMTT(30), <1>5 DEF Importance
<1>7. j \notin E
  BY <1>6 DEF Takes
<1> QED
  BY <1>1, <1>7

\* A user that is new to a queue, or asks again with the same precedence.
LEMMA NewUserRegular ==
  ASSUME NEW len, Short(len), NEW q \in [1..len -> Entry], Regular(q), NEW t \in Tbf, NEW p \in 1..3,
         \A i \in 1..len : q[i].tbf = t => q[i].prec = p
  PROVE  Regular(AllocateEntries(q, t, p, 0))
<1> DEFINE r == AllocateEntries(q, t, p, 0)
           E == Entitled(q, p, 0)
<1>0. len \in Nat
  BY DEF Short
<1>1. Takes(len, q, r, E, t, p, 0)
  BY <1>0, AllocateIs
<1>2. \A i \in 1..len : q[i].tbf = NoTbf => i \in E
  BY <1>0, NullsTaken DEF Regular
<1> HIDE DEF r, E
<1>3. FirstIn(r)
  BY <1>0, <1>1, NewUserKeepsFirsts DEF Regular
<1>4. DOMAIN r = 1..len /\ DOMAIN q = 1..len /\ E \subseteq 1..len
      /\ (\A i \in (1..len) \ E : r[i] = q[i]) /\ \A i \in E : r[i].tbf = t /\ r[i].prec = p
  BY <1>1 DEF Takes
<1>5. FullIn(r)
  <2>1. t # NoTbf
    BY SchedulerAssumption DEF Tbf, NoTbf
  <2>2. \A i \in 1..len : r[i].tbf # NoTbf
    BY <2>1, <1>2, <1>4
  <2> QED
    BY <2>2, <1>4 DEF FullIn
<1>6. OnePrec(r)
  <2> SUFFICES ASSUME NEW i \in 1..len, NEW j \in 1..len, r[i].tbf = r[j].tbf
               PROVE  r[i].prec = r[j].prec
    BY <1>4 DEF OnePrec
  <2> QED
    BY <1>4 DEF Regular, OnePrec
<1>7. NoGaps(r)
  <2> SUFFICES ASSUME NEW i \in 1..len, r[i].nbr > 0
               PROVE  \E j \in 1..len : r[j].tbf = r[i].tbf /\ r[j].nbr = r[i].nbr - 1
    BY <1>4 DEF NoGaps
  <2>1. CASE i \in E
    <3>1. PICK j \in E : r[j].nbr = r[i].nbr - 1
      BY <2>1, <1>1 DEF Takes
    <3> QED
      BY <2>1, <3>1, <1>4
  <2>2. CASE i \notin E
    <3>1. r[i] = q[i]
      BY <2>2, <1>4
    <3>2. PICK j \in (1..len) \ E : q[j].tbf = q[i].tbf /\ q[j].nbr = q[i].nbr - 1
      BY <1>0, <1>1, <2>2, <3>1, StaysWithLower DEF Regular
    <3> QED
      BY <3>1, <3>2, <1>4
  <2> QED
    BY <2>1, <2>2
<1> QED
  BY <1>3, <1>5, <1>6, <1>7 DEF Regular, r

\* While users are served: one that still waits has its highest entry, or there
\* is nothing left that it could take; once one was served, all is full.
Waits(len, q, r, j) ==
  \/ \E i \in 1..len : r[i].tbf = q[j].tbf /\ r[i].nbr = HighestEntry(q, q[j].tbf)
  \/ \A i \in 1..len : Imp(r[i]) <= 10 * q[j].prec + HighestEntry(q, q[j].tbf)
Served1(len, q, r, k) ==
  /\ r \in [1..len -> Entry]
  /\ \A i, j \in 1..len : r[i].tbf # NoTbf /\ q[j].tbf = r[i].tbf => r[i].prec = q[j].prec
  /\ \A i \in 1..len : r[i].tbf # NoTbf => r[i].tbf \in Users(q)
  /\ NoGaps(r)
  /\ \A j \in k + 1..len : Leads(q, j) => Waits(len, q, r, j)
  /\ (\E j \in 1..k : Leads(q, j)) => \A i \in 1..len : r[i].tbf # NoTbf

LEMMA ServedOnePrec ==
  ASSUME NEW len \in Nat, NEW q \in [1..len -> Entry], NEW r, NEW k, Served1(len, q, r, k)
  PROVE  OnePrec(r)
<1> SUFFICES ASSUME NEW i \in 1..len, NEW j \in 1..len, r[i].tbf = r[j].tbf
             PROVE  r[i].prec = r[j].prec
  BY DEF OnePrec, Served1
<1>1. CASE r[i].tbf = NoTbf
  <2>1. r[i] \in Entry /\ r[j] \in Entry /\ r[j].tbf = NoTbf
    BY <1>1 DEF Served1
  <2>2. r[i] = NullEntry /\ r[j] = NullEntry
    BY <1>1, <2>1, EntryType
  <2> QED
    BY <2>2
<1>2. CASE r[i].tbf # NoTbf
  <2>1. PICK m \in 1..len : q[m].tbf = r[i].tbf
    BY <1>2 DEF Served1, Users
  <2> QED
    BY <1>2, <2>1 DEF Served1
<1> QED
  BY <1>1, <1>2

LEMMA ServedNext ==
  ASSUME NEW len, Short(len), NEW q \in [1..len -> Entry], OnePrec(q), NoGaps(q),
         NEW k \in 1..len, NEW r, Served1(len, q, r, k - 1)
  PROVE  Served1(len, q, BalanceUser(q, k, r), k)
<1>0. len \in Nat
  BY DEF Short
<1>1. CASE ~ Leads(q, k)
  <2>1. BalanceUser(q, k, r) = r
    BY <1>1 DEF BalanceUser
  <2>2. (\E j \in 1..k : Leads(q, j)) => \E j \in 1..k - 1 : Leads(q, j)
    <3>1. \A j \in 1..k : j # k => j \in 1..k - 1
      BY <1>0
    <3> QED
      BY <1>1, <3>1
  <2>3. \A j \in k + 1..len : j \in (k - 1) + 1..len
    BY <1>0
  <2> QED
    BY <2>1, <2>2, <2>3 DEF Served1
<1>2. CASE Leads(q, k)
  <2> DEFINE u == q[k].tbf
             p == q[k].prec
             H == HighestEntry(q, u)
             n == H + 1
             E == Entitled(r, p, n)
             s == AllocateEntries(r, u, p, n)
  <2>1. u \in Users(q) /\ u \in Tbf /\ p \in 1..3 /\ u # NoTbf
    <3>1. q[k] \in Entry /\ q[k].tbf # NoTbf
      BY <1>2 DEF Leads
    <3>2. u \in Tbf /\ p \in 1..3
      BY <3>1, EntryType
    <3> QED
      BY <3>1, <3>2 DEF Users
  <2>2. H \in 0..len - 1
    <3>1. PICK i \in EntriesOf(q, u) : q[i].nbr = H
      BY <1>0, <2>1, HighestIs
    <3>2. i \in 1..len
      BY DEF EntriesOf
    <3> QED
      BY <1>0, <3>1, <3>2, NoGapsBound
  <2>3. n \in Nat /\ n \in 0..len /\ n = H + 1
    BY <1>0, <2>2
  <2>4. r \in [1..len -> Entry] /\ NoGaps(r) /\ OnePrec(r)
    BY <1>0, ServedOnePrec DEF Served1
  <2>5. Takes(len, r, s, E, u, p, n)
    BY <1>0, <2>1, <2>3, <2>4, AllocateIs
  <2>6. \A i \in 1..len : r[i].tbf = NoTbf => i \in E
    BY <2>1, <2>3, <2>4, NullsTaken
  <2>7. BalanceUser(q, k, r) = s
    BY <1>2 DEF BalanceUser
  <2>8. H = HighestEntry(q, q[k].tbf) /\ u = q[k].tbf /\ p = q[k].prec
    OBVIOUS
  <2> HIDE DEF u, p, H, n, E, s
  <2>9. /\ s \in [1..len -> Entry] /\ E \subseteq 1..len /\ DOMAIN s = 1..len
        /\ \A i \in (1..len) \ E : s[i] = r[i]
        /\ \A i \in E : /\ s[i].tbf = u /\ s[i].prec = p /\ s[i].nbr \in Nat /\ s[i].nbr >= n
                        /\ Imp(s[i]) = Importance(p, s[i].nbr)
                        /\ Imp(s[i]) < Imp(r[i])
    BY <1>0, <2>3, <2>5 DEF Takes
  <2>10. \A i \in 1..len : Imp(s[i]) \in Nat /\ Imp(r[i]) \in Nat
    BY <2>4, <2>9, EntryType
  <2>11. ASSUME NEW i \in 1..len, NEW j \in 1..len, s[i].tbf # NoTbf, q[j].tbf = s[i].tbf
         PROVE  s[i].prec = q[j].prec
    <3>1. CASE i \in E
      BY <3>1, <2>8, <2>9, <2>11 DEF OnePrec
    <3>2. CASE i \notin E
      BY <3>2, <2>9, <2>11 DEF Served1
    <3> QED
      BY <3>1, <3>2
  <2>12. \A i \in 1..len : s[i].tbf # NoTbf
    BY <2>1, <2>6, <2>9
  <2>13. \A i \in 1..len : s[i].tbf # NoTbf => s[i].tbf \in Users(q)
    BY <2>1, <2>9 DEF Served1
  <2>14. \A i \in E : Imp(s[i]) >= 10 * p + H + 1
    <3> TAKE i \in E
    <3>1. s[i].nbr \in Nat /\ s[i].nbr >= H + 1 /\ Imp(s[i]) = Importance(p, s[i].nbr)
      BY <2>3, <2>9
    <3> QED
      BY <2>1, <2>2, <3>1 DEF Importance
  <2>15. \A i \in 1..len : r[i].tbf = u /\ r[i].nbr = H => i \notin E
    <3> SUFFICES ASSUME NEW i \in E, r[i].tbf = u, r[i].nbr = H PROVE FALSE
      OBVIOUS
    <3>1. i \in 1..len /\ r[i].prec = p
      BY <2>1, <2>8, <2>9 DEF Served1
    <3>2. Imp(r[i]) = Importance(p, H)
      BY <2>1, <2>4, <3>1, EntryType
    <3>3. Imp(r[i]) <= 10 * p + H
      BY <2>1, <2>2, <3>2 DEF Importance
    <3>4. Imp(s[i]) >= 10 * p + H + 1 /\ Imp(s[i]) < Imp(r[i]) /\ Imp(s[i]) \in Nat /\ Imp(r[i]) \in Nat
      BY <2>9, <2>10, <2>14, <3>1
    <3> QED
      BY <2>1, <2>2, <3>3, <3>4
  <2>16. NoGaps(s)
    <3> SUFFICES ASSUME NEW i \in 1..len, s[i].nbr > 0
                 PROVE  \E j \in 1..len : s[j].tbf = s[i].tbf /\ s[j].nbr = s[i].nbr - 1
      BY <2>9 DEF NoGaps
    <3>1. CASE i \in E /\ s[i].nbr > n
      <4>1. PICK j \in E : s[j].nbr = s[i].nbr - 1
        BY <3>1, <2>5 DEF Takes
      <4> QED
        BY <3>1, <4>1, <2>9
    <3>2. CASE i \in E /\ s[i].nbr = n
      <4>1. k \in (k - 1) + 1..len
        BY <1>0
      <4>2. Waits(len, q, r, k)
        BY <1>2, <4>1 DEF Served1
      <4>3. CASE \E j \in 1..len : r[j].tbf = u /\ r[j].nbr = H
        <5>1. PICK j \in 1..len : r[j].tbf = u /\ r[j].nbr = H
          BY <4>3
        <5>2. s[j] = r[j] /\ s[i].nbr - 1 = H /\ s[i].tbf = u
          BY <5>1, <2>2, <2>3, <2>9, <2>15, <3>2
        <5> QED
          BY <5>1, <5>2
      <4>4. CASE \A j \in 1..len : Imp(r[j]) <= 10 * p + H
        <5>1. Imp(r[i]) <= 10 * p + H /\ Imp(s[i]) >= 10 * p + H + 1 /\ Imp(s[i]) < Imp(r[i])
          BY <3>2, <4>4, <2>9, <2>14
        <5> QED
          BY SMTT(30), <5>1, <2>1, <2>2, <2>10
      <4> QED
        BY <4>2, <4>3, <4>4, <2>8 DEF Waits
    <3>3. CASE i \notin E
      <4>1. s[i] = r[i]
        BY <3>3, <2>9
      <4>2. PICK j \in (1..len) \ E : r[j].tbf = r[i].tbf /\ r[j].nbr = r[i].nbr - 1
        BY <1>0, <2>4, <2>5, <3>3, <4>1, StaysWithLower
      <4> QED
        BY <4>1, <4>2, <2>9
    <3>4. i \in E => s[i].nbr > n \/ s[i].nbr = n
      BY <2>3, <2>9
    <3> QED
      BY <3>1, <3>2, <3>3, <3>4
  <2>17. ASSUME NEW j \in k + 1..len, Leads(q, j) PROVE Waits(len, q, s, j)
    <3> DEFINE v == q[j].tbf
               c == 10 * q[j].prec + HighestEntry(q, v)
    <3>1. j \in 1..len /\ j \in (k - 1) + 1..len /\ ~ (j <= k)
      BY <1>0
    <3>2. v # u /\ v # NoTbf /\ v \in Users(q)
      <4>1. v # u
        BY <1>2, <2>8, <2>17, <3>1 DEF Leads, EntriesOf
      <4> QED
        BY <4>1, <2>17, <3>1 DEF Leads, Users
    <3>3. HighestEntry(q, v) \in Nat /\ q[j].prec \in 1..3
      BY <1>0, <3>1, <3>2, HighestIs, EntryType
    <3>4. Waits(len, q, r, j)
      BY <2>17, <3>1 DEF Served1
    <3>5. v = q[j].tbf /\ c = 10 * q[j].prec + HighestEntry(q, q[j].tbf) /\ c \in Nat
      BY <3>3
    <3> HIDE DEF v, c
    <3>6. ASSUME NEW m \in 1..len, r[m].tbf = v, r[m].nbr = HighestEntry(q, q[j].tbf)
          PROVE  Waits(len, q, s, j)
      <4>1. CASE m \notin E
        <5>1. s[m] = r[m]
          BY <4>1, <2>9
        <5> QED
          BY <3>5, <3>6, <5>1 DEF Waits
      <4>2. CASE m \in E
        <5>1. r[m].prec = q[j].prec
          BY <3>1, <3>2, <3>5, <3>6 DEF Served1
        <5>2. Imp(r[m]) = Importance(q[j].prec, HighestEntry(q, v))
          BY <2>4, <3>2, <3>5, <3>6, <5>1, EntryType
        <5>3. Imp(r[m]) <= c
          BY <3>3, <3>5, <5>2 DEF Importance
        <5>4. ASSUME NEW i \in 1..len PROVE Imp(s[i]) <= c
          <6>1. CASE i \notin E
            <7>1. Imp(r[i]) <= Imp(r[m]) /\ s[i] = r[i]
              BY <4>2, <6>1, <2>5 DEF Takes
            <7> QED
              BY <5>3, <7>1, <2>10, <3>5
          <6>2. CASE i \in E /\ Imp(r[i]) <= Imp(r[m])
            <7>1. Imp(s[i]) < Imp(r[i])
              BY <6>2, <2>9
            <7> QED
              BY <5>3, <6>2, <7>1, <2>10, <3>5
          <6>3. CASE i \in E /\ s[i].nbr <= s[m].nbr
            <7>1. /\ Imp(s[i]) = Importance(p, s[i].nbr) /\ Imp(s[m]) = Importance(p, s[m].nbr)
                  /\ Imp(s[m]) < Imp(r[m]) /\ s[i].nbr \in Nat /\ s[m].nbr \in Nat
                  /\ s[i].nbr >= 1 /\ s[m].nbr >= 1
              BY <4>2, <6>3, <2>2, <2>3, <2>9
            <7>2. Imp(s[i]) <= Imp(s[m])
              BY <6>3, <7>1, <2>1 DEF Importance
            <7> QED
              BY <5>3, <7>1, <7>2, <2>10, <3>5
          <6>4. i \in E => s[i].nbr <= s[m].nbr \/ Imp(r[i]) <= Imp(r[m])
            BY <4>2, <2>5 DEF Takes
          <6> QED
            BY <6>1, <6>2, <6>3, <6>4
        <5> QED
          BY <3>5, <5>4 DEF Waits
      <4> QED
        BY <4>1, <4>2
    <3>7. ASSUME \A i \in 1..len : Imp(r[i]) <= c PROVE Waits(len, q, s, j)
      <4>1. \A i \in 1..len : Imp(s[i]) <= Imp(r[i])
        BY <2>9, <2>10
      <4>2. \A i \in 1..len : Imp(s[i]) <= c
        BY <3>5, <3>7, <4>1, <2>10
      <4> QED
        BY <3>5, <4>2 DEF Waits
    <3> QED
      BY <3>4, <3>5, <3>6, <3>7 DEF Waits
  <2> QED
    BY <2>7, <2>9, <2>11, <2>12, <2>13, <2>16, <2>17 DEF Served1
<1> QED
  BY <1>1, <1>2

\* What is balanced is regular.
LEMMA BalanceRegular ==
  ASSUME NEW len, Short(len), NEW q \in [1..len -> Entry], FirstIn(q), OnePrec(q), NoGaps(q)
  PROVE  Regular(BalanceEntries(q))
<1>0. len \in Nat
  BY DEF Short
<1> PICK f : /\ f[0] = q /\ f[len] = BalanceEntries(q)
             /\ \A k \in 1..len : f[k] = BalanceUser(q, k, f[k - 1])
  BY <1>0, BalanceDef
<1> DEFINE T == {k \in Nat : k <= len => Served1(len, q, f[k], k)}
<1>1. Served1(len, q, q, 0)
  <2>1. \A i \in 1..len : q[i].tbf # NoTbf => q[i].tbf \in Users(q)
    BY DEF Users
  <2>2. ASSUME NEW j \in 1..len, Leads(q, j) PROVE Waits(len, q, q, j)
    <3>1. q[j].tbf \in Users(q)
      BY <2>1, <2>2 DEF Leads
    <3>2. PICK i \in EntriesOf(q, q[j].tbf) : q[i].nbr = HighestEntry(q, q[j].tbf)
      BY <1>0, <3>1, HighestIs
    <3> QED
      BY <3>2 DEF EntriesOf, Waits
  <2>3. \A i, j \in 1..len : q[j].tbf = q[i].tbf => q[i].prec = q[j].prec
    BY DEF OnePrec
  <2> QED
    BY <1>0, <2>1, <2>2, <2>3 DEF Served1
<1>2. 0 \in T
  BY <1>1
<1>3. ASSUME NEW k \in Nat, k \in T PROVE k + 1 \in T
  <2> SUFFICES ASSUME k + 1 <= len PROVE Served1(len, q, f[k + 1], k + 1)
    OBVIOUS
  <2>1. k + 1 \in 1..len /\ (k + 1) - 1 = k /\ Served1(len, q, f[k], k)
    BY <1>0, <1>3
  <2> HIDE DEF T
  <2>2. f[k + 1] = BalanceUser(q, k + 1, f[k])
    BY <2>1
  <2> QED
    BY <2>1, <2>2, ServedNext
<1>4. Served1(len, q, BalanceEntries(q), len)
  <2>1. len \in T
    <3> HIDE DEF T
    <3> QED
      BY <1>0, <1>2, <1>3, NatInd
  <2> QED
    BY <1>0, <2>1
<1> DEFINE r == BalanceEntries(q)
<1> HIDE DEF r, T
<1>5. Served1(len, q, r, len)
  BY <1>4 DEF r
<1>6. FullIn(r)
  <2> SUFFICES ASSUME Users(r) # {} PROVE \A i \in 1..len : r[i].tbf # NoTbf
    BY <1>5 DEF FullIn, Served1
  <2>1. PICK u \in Users(q) : TRUE
    BY <1>5 DEF Served1, Users
  <2>2. EntriesOf(q, u) \in SUBSET Nat /\ EntriesOf(q, u) # {}
    BY <2>1 DEF Users, EntriesOf
  <2>3. PICK j \in EntriesOf(q, u) : \A i \in EntriesOf(q, u) : j <= i
    BY <2>2, NatMin
  <2>4. j \in 1..len /\ Leads(q, j)
    BY <2>3 DEF EntriesOf, Leads, Users
  <2> QED
    BY <1>5, <2>4 DEF Served1
<1>7. FirstIn(r)
  BY <1>0, BalanceKeepsFirsts DEF r
<1> QED
  BY <1>0, <1>5, <1>6, <1>7, ServedOnePrec DEF Regular, Served1, r

\* So is a queue that a user has left.
LEMMA DeallocateRegular ==
  ASSUME NEW len, Short(len), NEW q \in [1..len -> Entry], Regular(q), NEW t \in Tbf
  PROVE  Regular(DeallocateEntries(q, t))
<1>0. len \in Nat /\ DOMAIN q = 1..len
  BY DEF Short
<1> DEFINE r == DeallocateUnbalanced(q, t)
<1>1. /\ r \in [1..len -> Entry]
      /\ \A i \in 1..len : r[i] = IF q[i].tbf = t THEN NullEntry ELSE q[i]
  BY <1>0 DEF DeallocateUnbalanced, Entry
<1>2. CASE t \notin Users(q)
  BY <1>2 DEF DeallocateEntries
<1>3. CASE t \in Users(q)
  <2>1. DeallocateEntries(q, t) = BalanceEntries(r)
    BY <1>3, DeallocateDef
  <2> HIDE DEF r
  <2>2. t # NoTbf /\ NullEntry.tbf = NoTbf /\ NullEntry.nbr = 0 /\ NullEntry.prec = 0
    BY <1>3 DEF Users, NullEntry
  <2>3. FirstIn(r)
    <3> SUFFICES ASSUME NEW u \in Users(r) PROVE \E i \in EntriesOf(r, u) : r[i].nbr = 0
      BY DEF FirstIn
    <3>1. PICK j \in 1..len : r[j].tbf = u /\ u # NoTbf
      BY <1>1 DEF Users
    <3>2. q[j].tbf = u /\ u # t
      BY <1>1, <2>2, <3>1
    <3>3. u \in Users(q)
      BY <1>0, <3>1, <3>2 DEF Users
    <3>4. PICK i \in EntriesOf(q, u) : q[i].nbr = 0
      BY <3>3 DEF FirstIn, Regular
    <3>5. i \in 1..len /\ r[i] = q[i]
      BY <1>1, <3>2, <3>4 DEF EntriesOf
    <3> QED
      BY <1>1, <3>4, <3>5 DEF EntriesOf
  <2>4. OnePrec(r)
    <3> SUFFICES ASSUME NEW i \in 1..len, NEW j \in 1..len, r[i].tbf = r[j].tbf
                 PROVE  r[i].prec = r[j].prec
      BY <1>1 DEF OnePrec
    <3>1. r[i] \in Entry /\ r[j] \in Entry /\ q[i] \in Entry /\ q[j] \in Entry
      BY <1>1
    <3>2. CASE r[i].tbf = NoTbf
      <4>1. r[j].tbf = NoTbf
        BY <3>2
      <4>2. r[i] = NullEntry
        BY <3>1, <3>2, EntryType
      <4>3. r[j] = NullEntry
        BY <3>1, <4>1, EntryType
      <4> QED
        BY <4>2, <4>3
    <3>3. CASE r[i].tbf # NoTbf
      <4>1. r[i] = q[i] /\ r[j] = q[j]
        BY <1>1, <2>2, <3>3
      <4> QED
        BY <1>0, <4>1 DEF OnePrec, Regular
    <3> QED
      BY <3>2, <3>3
  <2>5. NoGaps(r)
    <3> SUFFICES ASSUME NEW i \in 1..len, r[i].nbr > 0
                 PROVE  \E j \in 1..len : r[j].tbf = r[i].tbf /\ r[j].nbr = r[i].nbr - 1
      BY <1>1 DEF NoGaps
    <3>1. q[i].tbf # t /\ r[i] = q[i]
      BY <1>1, <2>2
    <3>2. PICK j \in 1..len : q[j].tbf = q[i].tbf /\ q[j].nbr = q[i].nbr - 1
      BY <1>0, <3>1 DEF NoGaps, Regular
    <3>3. r[j] = q[j]
      BY <1>1, <3>1, <3>2
    <3> QED
      BY <3>1, <3>2, <3>3
  <2> QED
    BY <1>1, <2>1, <2>3, <2>4, <2>5, BalanceRegular
<1> QED
  BY <1>2, <1>3

=============================================================================
