------------------------ MODULE EmissionSources_proofs ------------------------
(* EmissionSources for any number of ranks, sources and records, any storage    *)
(* and any schedule: the ranks share a step without gaps or overlaps, never      *)
(* overrun their storage and never leave any of it unused, and every record is   *)
(* emitted in the step it is born in.                                            *)
EXTENDS EmissionSources, FiniteSetTheorems, SequenceTheorems, WellFoundedInduction, TLAPS

-----------------------------------------------------------------------------
(* Numbers.                                                                 *)

\* A set of natural numbers has a least element.
LEMMA Least ==
    ASSUME NEW T \in SUBSET Nat, T # {}
    PROVE  \E n \in T : \A m \in T : n <= m
<1>1. \E n \in T : \A m \in T : ~ (<<m, n>> \in OpToRel(<, Nat))
  BY NatLessThanWellFounded, WFMin
<1>2. \E n \in T : \A m \in T : ~ (m < n)
  BY <1>1 DEF OpToRel
<1> QED BY <1>2

\* Induction for a set of natural numbers.
LEMMA Induction ==
    ASSUME NEW T, 0 \in T, \A n \in Nat : n \in T => n + 1 \in T
    PROVE  Nat \subseteq T
<1> SUFFICES ASSUME Nat \ T # {} PROVE FALSE
  OBVIOUS
<1>1. PICK n \in Nat \ T : \A m \in Nat \ T : n <= m
  BY Least
<1>2. n # 0 /\ n - 1 \in Nat
  BY <1>1
<1>3. n - 1 \in T
  BY <1>1, <1>2
<1>4. (n - 1) + 1 \in T
  BY <1>2, <1>3
<1> QED BY <1>1, <1>4

\* Induction up to a number.
LEMMA InductionUpTo ==
    ASSUME NEW n \in Nat, NEW T, 0 \in T, \A i \in 0 .. n - 1 : i \in T => i + 1 \in T
    PROVE  \A i \in 0 .. n : i \in T
<1> DEFINE U == {i \in Nat : i <= n => i \in T}
<1>1. 0 \in U
  OBVIOUS
<1>2. ASSUME NEW i \in Nat, i \in U PROVE i + 1 \in U
  <2>1. CASE i + 1 <= n
    BY <1>2, <2>1
  <2>2. CASE ~ (i + 1 <= n)
    BY <2>2
  <2> QED BY <2>1, <2>2
<1> HIDE DEF U
<1>3. Nat \subseteq U
  BY <1>1, <1>2, Induction
<1> USE DEF U
<1> QED BY <1>3

\* A sequence of numbers is bounded.
LEMMA Bounded ==
    ASSUME NEW n \in Nat, NEW s \in [1 .. n -> Int]
    PROVE  \E low, high \in Int : \A i \in 1 .. n : low <= s[i] /\ s[i] <= high
<1> DEFINE T == {m \in 0 .. n : \E low, high \in Int : \A i \in 1 .. m : low <= s[i] /\ s[i] <= high}
<1>1. 0 \in T
  OBVIOUS
<1>2. ASSUME NEW m \in 0 .. n - 1, m \in T PROVE m + 1 \in T
  <2>1. PICK low, high \in Int : \A i \in 1 .. m : low <= s[i] /\ s[i] <= high
    BY <1>2
  <2>2. s[m + 1] \in Int /\ \A i \in 1 .. m + 1 : i \in 1 .. m \/ i = m + 1
    OBVIOUS
  <2>3. \A i \in 1 .. m : s[i] \in Int
    OBVIOUS
  <2>4. PICK l \in Int : l <= low /\ l <= s[m + 1]
    BY <2>1, <2>2
  <2>5. PICK h \in Int : h >= high /\ h >= s[m + 1]
    BY <2>1, <2>2
  <2>6. \A i \in 1 .. m + 1 : l <= s[i] /\ s[i] <= h
    <3>1. ASSUME NEW i \in 1 .. m PROVE l <= s[i] /\ s[i] <= h
      BY <2>1, <2>3, <2>4, <2>5
    <3> QED BY <2>2, <2>4, <2>5, <3>1, Zenon
  <2>7. \E low1, high1 \in Int : \A i \in 1 .. m + 1 : low1 <= s[i] /\ s[i] <= high1
    BY <2>6
  <2>8. m + 1 \in 0 .. n
    OBVIOUS
  <2> QED BY <2>7, <2>8, Zenon
<1> HIDE DEF T
<1>3. \A m \in 0 .. n : m \in T
  BY <1>1, <1>2, InductionUpTo
<1>4. n \in T
  BY <1>3
<1> USE DEF T
<1> QED BY <1>4

\* Some elements of a sequence of numbers have a least and a greatest value.
LEMMA Extremes ==
    ASSUME NEW n \in Nat, NEW s \in [1 .. n -> Int],
           NEW T \in SUBSET (1 .. n), T # {}, NEW V, V = {s[i] : i \in T}
    PROVE  /\ Min(V) \in V /\ \A v \in V : Min(V) <= v
           /\ Max(V) \in V /\ \A v \in V : v <= Max(V)
<1>1. PICK low, high \in Int : \A i \in 1 .. n : low <= s[i] /\ s[i] <= high
  BY Bounded
<1>2. \A v \in V : v \in Int /\ low <= v /\ v <= high
  <2>1. \A i \in T : s[i] \in Int /\ low <= s[i] /\ s[i] <= high
    BY <1>1
  <2> QED BY <2>1
<1>2a. V # {}
  <2>1. PICK i \in T : TRUE
    OBVIOUS
  <2>2. s[i] \in V
    OBVIOUS
  <2> QED BY <2>2
<1>3. \E v \in V : \A w \in V : v <= w
  <2> DEFINE D == {v - low : v \in V}
  <2>1. D \in SUBSET Nat /\ D # {}
    BY <1>2, <1>2a
  <2>2. PICK d \in D : \A e \in D : d <= e
    BY <2>1, Least
  <2>3. PICK v \in V : d = v - low
    BY <2>2
  <2>4. \A w \in V : v - low <= w - low
    BY <2>2, <2>3
  <2>5. ASSUME NEW w \in V PROVE v <= w
    <3>1. v - low <= w - low /\ v \in Int /\ w \in Int
      BY <1>2, <2>4
    <3> QED BY <3>1
  <2> QED BY <2>5
<1>4. \E v \in V : \A w \in V : v >= w
  <2> DEFINE D == {high - v : v \in V}
  <2>1. D \in SUBSET Nat /\ D # {}
    BY <1>2, <1>2a
  <2>2. PICK d \in D : \A e \in D : d <= e
    BY <2>1, Least
  <2>3. PICK v \in V : d = high - v
    BY <2>2
  <2>4. \A w \in V : high - v <= high - w
    BY <2>2, <2>3
  <2>5. ASSUME NEW w \in V PROVE v >= w
    <3>1. high - v <= high - w /\ v \in Int /\ w \in Int
      BY <1>2, <2>4
    <3> QED BY <3>1
  <2> QED BY <2>5
<1>5. Min(V) \in V /\ \A w \in V : Min(V) <= w
  BY <1>3 DEF Min
<1>6. Max(V) \in V /\ \A w \in V : Max(V) >= w
  BY <1>4 DEF Max
<1>7. \A w \in V : w <= Max(V)
  BY <1>2, <1>6
<1> QED BY <1>5, <1>6, <1>7

\* Quotient and remainder.
LEMMA Division ==
    ASSUME NEW n \in Nat, NEW m \in Nat \ {0}
    PROVE  n \div m \in Nat /\ n % m \in 0 .. m - 1 /\ n = m * (n \div m) + (n % m)
<1>1. n \div m \in Nat
  OBVIOUS
<1>2. n % m \in 0 .. m - 1
  OBVIOUS
<1>3. n = m * (n \div m) + (n % m)
  OBVIOUS
<1> QED BY <1>1, <1>2, <1>3, Zenon

\* The same for the halves of a pulse.
LEMMA Halves ==
    ASSUME NEW a \in Int, NEW b \in Int, a <= b
    PROVE  /\ (a + b) \div 2 \in Int /\ (b - a) \div 2 \in Nat
           /\ a - (a + b) \div 2 >= -((b - a) \div 2)
<1>1. \A n \in Int : n \div 2 \in Int /\ 2 * (n \div 2) <= n /\ n <= 2 * (n \div 2) + 1
  OBVIOUS
<1> DEFINE c == (a + b) \div 2
           h == (b - a) \div 2
<1>2. c \in Int /\ 2 * c <= a + b
  BY <1>1
<1>3. h \in Int /\ 2 * h <= b - a /\ b - a <= 2 * h + 1
  BY <1>1
<1> HIDE DEF c, h
<1>4. h \in Nat /\ a - c >= -h
  BY <1>2, <1>3
<1> QED BY <1>2, <1>4 DEF c, h

\* In ascending order a sequence of numbers is sorted, and has no others.
LEMMA Ascending ==
    ASSUME NEW n \in Nat, NEW seq \in [1 .. n -> Int]
    PROVE  /\ ascending(seq) \in [1 .. n -> Int]
           /\ \A k, m \in 1 .. n : k <= m => ascending(seq)[k] <= ascending(seq)[m]
           /\ \A k \in 1 .. n : \E i \in 1 .. n : ascending(seq)[k] = seq[i]
<1> DEFINE below(j) == {l \in 1 .. n : seq[l] <= seq[j]}
           T(k) == {j \in 1 .. n : k <= Cardinality(below(j))}
           V(k) == {seq[i] : i \in T(k)}
<1>1. \A j \in 1 .. n : Cardinality(below(j)) \in Nat
  <2>1. IsFiniteSet(1 .. n)
    BY FS_Interval
  <2>2. \A j \in 1 .. n : below(j) \subseteq 1 .. n
    OBVIOUS
  <2> HIDE DEF below
  <2> QED BY <2>1, <2>2, FS_Subset, FS_CardinalityType
<1>2. ASSUME NEW k \in 1 .. n PROVE T(k) # {}
  <2> DEFINE W == {seq[i] : i \in 1 .. n}
  <2>1. k \in 1 .. n /\ (1 .. n) \in SUBSET (1 .. n) /\ 1 .. n # {}
    OBVIOUS
  <2>2. Max(W) \in W /\ \A v \in W : v <= Max(W)
    <3>1. W = {seq[i] : i \in 1 .. n}
      OBVIOUS
    <3> HIDE DEF W
    <3> QED BY <2>1, <3>1, Extremes
  <2>3. PICK j \in 1 .. n : \A i \in 1 .. n : seq[i] <= seq[j]
    BY <2>2
  <2>4. below(j) = 1 .. n
    BY <2>3
  <2> HIDE DEF below
  <2>5. Cardinality(below(j)) = n
    BY <2>4, FS_Interval
  <2> QED BY <2>5
<1>3. \A k \in 1 .. n : ascending(seq)[k] = Min(V(k)) /\ DOMAIN ascending(seq) = 1 .. n
  BY DEF ascending
<1>4. ASSUME NEW k \in 1 .. n
      PROVE  /\ Min(V(k)) \in V(k) /\ \A v \in V(k) : Min(V(k)) <= v
  <2>1. T(k) \in SUBSET (1 .. n)
    OBVIOUS
  <2>2. V(k) = {seq[i] : i \in T(k)}
    OBVIOUS
  <2> HIDE DEF T, V
  <2> QED BY <1>2, <2>1, <2>2, Extremes
<1>5. \A k \in 1 .. n : \A v \in V(k) : \E i \in 1 .. n : v = seq[i]
  OBVIOUS
<1>6. ASSUME NEW k \in 1 .. n, NEW m \in 1 .. n, k <= m PROVE V(m) \subseteq V(k)
  <2>1. T(m) \subseteq T(k)
    <3> HIDE DEF below
    <3> QED BY <1>1, <1>6
  <2> HIDE DEF T
  <2> QED BY <2>1
<1> HIDE DEF V
<1>7. \A k \in 1 .. n : \E i \in 1 .. n : ascending(seq)[k] = seq[i]
  BY <1>3, <1>4, <1>5
<1>8. \A k \in 1 .. n : ascending(seq)[k] \in Int
  BY <1>7
<1>9. ascending(seq) \in [1 .. n -> Int]
  <2>1. ascending(seq) = [k \in 1 .. n |-> ascending(seq)[k]]
    BY DEF ascending
  <2> QED BY <1>8, <2>1
<1>10. \A k, m \in 1 .. n : k <= m => ascending(seq)[k] <= ascending(seq)[m]
  BY <1>3, <1>4, <1>6
<1> QED BY <1>7, <1>9, <1>10

-----------------------------------------------------------------------------
(* The inventories.                                                         *)

USE EmissionAssumption

\* The selected records.
LEMMA Selected ==
    ASSUME NEW s \in Inventory
    PROVE  \E n \in Nat \ {0} : selected(s) \in [1 .. n -> Int] /\ DOMAIN selected(s) = 1 .. n
<1> DEFINE P == PulseTimes[s]
           m == IF Requested[s] > 0 THEN smaller(Requested[s], Len(P)) ELSE Len(P)
<1>1. P \in Seq(Int) /\ P # <<>> /\ Requested[s] \in Nat
  OBVIOUS
<1> HIDE DEF P
<1>2. Len(P) \in Nat \ {0} /\ DOMAIN P = 1 .. Len(P) /\ P \in [1 .. Len(P) -> Int]
  <2>1. Len(P) # 0
    BY <1>1, EmptySeq
  <2> QED BY <1>1, <2>1, LenProperties
<1>3. m \in 1 .. Len(P)
  BY <1>1, <1>2 DEF smaller
<1> HIDE DEF m
<1>4. SubSeq(P, 1, m) = [i \in 1 .. m |-> P[i]]
  <2>1. /\ Len(SubSeq(P, 1, m)) = m /\ SubSeq(P, 1, m) \in Seq(Int)
        /\ \A i \in 1 .. m : SubSeq(P, 1, m)[i] = P[i]
    BY <1>1, <1>2, <1>3, SubSeqProperties
  <2>2. SubSeq(P, 1, m) \in [1 .. m -> Int]
    BY <2>1, LenProperties
  <2> QED BY <2>1, <2>2
<1>5. [i \in 1 .. m |-> P[i]] \in [1 .. m -> Int]
  BY <1>2, <1>3
<1>6. selected(s) = SubSeq(P, 1, m)
  BY DEF selected, P, m
<1>7. selected(s) \in [1 .. m -> Int] /\ DOMAIN selected(s) = 1 .. m
  BY <1>4, <1>5, <1>6
<1>8. m \in Nat \ {0}
  BY <1>2, <1>3
<1> QED BY <1>7, <1>8

\* The length of a pulse.
LEMMA EmissionTime ==
    ASSUME NEW s \in Inventory
    PROVE  /\ emissionTime(s) \in Nat /\ pulseCenter(s) \in Int
           /\ \A i \in DOMAIN selected(s) :
                 /\ selected(s)[i] \in Int
                 /\ selected(s)[i] - pulseCenter(s) >= -(emissionTime(s) \div 2)
           /\ emissionTime(s) \div 2 \in Nat
           /\ getGlobalTimeShift(s) \in Nat
           /\ getEmissionTimeStep(s) \in Nat
<1> DEFINE q == selected(s)
           V == {q[i] : i \in DOMAIN q}
<1>1. PICK n \in Nat \ {0} : q \in [1 .. n -> Int] /\ DOMAIN q = 1 .. n
  BY Selected
<1> HIDE DEF q
<1>2. \A i \in 1 .. n : q[i] \in V /\ q[i] \in Int
  BY <1>1
<1>3. /\ Min(V) \in V /\ \A v \in V : Min(V) <= v
      /\ Max(V) \in V /\ \A v \in V : v <= Max(V)
  <2> DEFINE T == 1 .. n
  <2>1. T \in SUBSET (1 .. n) /\ 1 \in T
    BY <1>1
  <2>2. DOMAIN q = T
    BY <1>1
  <2> HIDE DEF T
  <2>3. T # {}
    BY <2>1
  <2>4. V = {q[i] : i \in T}
    BY <2>2
  <2> HIDE DEF V
  <2> QED BY <1>1, <2>1, <2>3, <2>4, Extremes
<1>4. Min(V) \in Int /\ Max(V) \in Int /\ Min(V) <= Max(V)
  BY <1>1, <1>3
<1>5. emissionTime(s) = Max(V) - Min(V) /\ pulseCenter(s) = (Max(V) + Min(V)) \div 2
  BY DEF emissionTime, pulseCenter, valuesOf, q
<1> HIDE DEF V
<1>6. Max(V) + Min(V) = Min(V) + Max(V)
  BY <1>4
<1>7. /\ pulseCenter(s) \in Int /\ emissionTime(s) \div 2 \in Nat
      /\ Min(V) - pulseCenter(s) >= -(emissionTime(s) \div 2)
  <2>1. /\ (Min(V) + Max(V)) \div 2 \in Int /\ (Max(V) - Min(V)) \div 2 \in Nat
        /\ Min(V) - (Min(V) + Max(V)) \div 2 >= -((Max(V) - Min(V)) \div 2)
    BY <1>4, Halves
  <2> QED BY <1>5, <1>6, <2>1, Zenon
<1>8. emissionTime(s) \in Nat
  BY <1>4, <1>5
<1>9. \A i \in 1 .. n : q[i] - pulseCenter(s) >= -(emissionTime(s) \div 2)
  BY <1>2, <1>3, <1>4, <1>7
<1>10. getGlobalTimeShift(s) \in Nat
  BY <1>7 DEF getGlobalTimeShift, Inventory
<1>11. getEmissionTimeStep(s) \in Nat
  <2>1. EmissionStepsOf[s] \in Nat
    OBVIOUS
  <2>2. CASE EmissionStepsOf[s] > 0
    <3>1. EmissionStepsOf[s] \in Nat \ {0}
      BY <2>1, <2>2
    <3> QED BY <1>8, <2>2, <3>1, Division DEF getEmissionTimeStep
  <2> QED BY <2>1, <2>2 DEF getEmissionTimeStep
<1> QED BY <1>1, <1>2, <1>7, <1>8, <1>9, <1>10, <1>11 DEF q

\* The shift of the clock is enough for every source.
LEMMA StartTime ==
    /\ startTime \in Int
    /\ \A s \in Inventory : startTime <= -getGlobalTimeShift(s)
<1> DEFINE n == NumSources + 1
           T == Inventory \cup {n}
           q == [i \in 1 .. n |-> IF i \in Inventory THEN getGlobalTimeShift(i) ELSE 0]
           V == {q[i] : i \in T}
           W == {0} \cup {getGlobalTimeShift(s) : s \in Inventory}
<1>1. n \in Nat /\ T \in SUBSET (1 .. n) /\ T # {} /\ n \notin Inventory /\ n \in T
  BY DEF Inventory, Sources
<1>2. \A s \in Inventory : getGlobalTimeShift(s) \in Nat /\ s \in T /\ s \in 1 .. n
  BY <1>1, EmissionTime
<1>3. q \in [1 .. n -> Int]
  BY <1>2
<1>4. \A s \in Inventory : q[s] = getGlobalTimeShift(s)
  BY <1>1
<1>5. q[n] = 0
  BY <1>1
<1>6. V = W
  <2>1. \A v \in V : v \in W
    BY <1>1, <1>4, <1>5
  <2>2. \A w \in W : w \in V
    BY <1>1, <1>2, <1>4, <1>5
  <2> QED BY <2>1, <2>2
<1>7. /\ Min(V) \in V /\ \A v \in V : Min(V) <= v
      /\ Max(V) \in V /\ \A v \in V : v <= Max(V)
  <2>1. V = {q[i] : i \in T}
    OBVIOUS
  <2>2. n \in Nat /\ T \in SUBSET (1 .. n) /\ T # {}
    BY <1>1
  <2> HIDE DEF n, T, q, V, W
  <2> HIDE EmissionAssumption
  <2> QED BY <1>3, <2>1, <2>2, Extremes
<1>8. startTime = -Max(W)
  BY DEF startTime
<1>9. \A v \in W : v \in Int
  BY <1>2
<1>10. \A s \in Inventory : getGlobalTimeShift(s) \in W
  OBVIOUS
<1> HIDE DEF V, W
<1> QED BY <1>2, <1>6, <1>7, <1>8, <1>9, <1>10

\* The birth times are sorted, and none is before the start.
LEMMA BirthTimes ==
    ASSUME NEW s \in Inventory
    PROVE  /\ Len(birthTimes[s]) \in Nat /\ DOMAIN birthTimes[s] = 1 .. Len(birthTimes[s])
           /\ \A k \in 1 .. Len(birthTimes[s]) : /\ birthTimes[s][k] \in Int
                                                 /\ birthTimes[s][k] >= startTime
           /\ \A k, m \in 1 .. Len(birthTimes[s]) :
                 k <= m => birthTimes[s][k] <= birthTimes[s][m]
<1> DEFINE births == [i \in DOMAIN selected(s) |-> T0[s] + selected(s)[i] - pulseCenter(s)]
           b == ascending(births)
           early == emissionTime(s) \div 2
<1>1. PICK n \in Nat \ {0} : selected(s) \in [1 .. n -> Int] /\ DOMAIN selected(s) = 1 .. n
  BY Selected
<1>2. T0[s] \in Nat /\ pulseCenter(s) \in Int /\ early \in Nat
  BY EmissionTime DEF Inventory
<1>3. \A i \in 1 .. n : selected(s)[i] \in Int /\ selected(s)[i] - pulseCenter(s) >= -early
  BY <1>1, EmissionTime
<1>4. startTime \in Int /\ startTime <= -getGlobalTimeShift(s)
  BY StartTime
<1> HIDE DEF early
<1>5. getGlobalTimeShift(s) >= early - T0[s] /\ getGlobalTimeShift(s) \in Nat
  BY <1>2 DEF getGlobalTimeShift, early
<1>6. \A i \in 1 .. n : births[i] \in Int /\ births[i] >= startTime
  <2> SUFFICES ASSUME NEW i \in 1 .. n PROVE births[i] \in Int /\ births[i] >= startTime
    OBVIOUS
  <2> DEFINE x == selected(s)[i]
         c == pulseCenter(s)
         t == T0[s]
         shift == getGlobalTimeShift(s)
  <2>1. births[i] = t + x - c
    BY <1>1
  <2>2. x \in Int /\ x - c >= -early
    BY <1>3
  <2>3. t \in Nat /\ c \in Int /\ early \in Nat
    BY <1>2
  <2>4. startTime \in Int /\ startTime <= -shift /\ shift >= early - t /\ shift \in Nat
    BY <1>4, <1>5
  <2> HIDE DEF births, x, c, t, shift
  <2>5. t + x - c >= t - early /\ t + x - c \in Int
    BY <2>2, <2>3
  <2>6. startTime <= t - early
    BY <2>3, <2>4
  <2> QED BY <2>1, <2>3, <2>4, <2>5, <2>6
<1>7. births \in [1 .. n -> Int]
  <2>1. births = [i \in 1 .. n |-> births[i]]
    BY <1>1
  <2> HIDE DEF births
  <2> QED BY <1>6, <2>1
<1>8. birthTimes[s] = b
  BY DEF birthTimes
<1> HIDE DEF births
<1>9. /\ b \in [1 .. n -> Int]
      /\ \A k, m \in 1 .. n : k <= m => b[k] <= b[m]
      /\ \A k \in 1 .. n : \E i \in 1 .. n : b[k] = births[i]
  BY <1>7, Ascending
<1> HIDE DEF b
<1>10. b \in Seq(Int) /\ Len(b) = n /\ DOMAIN b = 1 .. n
  BY <1>9, SeqDef, LenProperties
<1>11. \A k \in 1 .. n : b[k] \in Int /\ b[k] >= startTime
  BY <1>6, <1>9
<1> QED BY <1>8, <1>9, <1>10, <1>11

-----------------------------------------------------------------------------
(* Sharing a number of particles among the ranks.                           *)

\* sumBelow is defined, and adds one rank after the other.
LEMMA SumBelow ==
    ASSUME NEW f \in [Ranks -> Int]
    PROVE  /\ sumBelow(f)[0] = 0
           /\ \A r \in Ranks : sumBelow(f)[r + 1] = sumBelow(f)[r] + f[r]
           /\ \A r \in 0 .. NumRanks : sumBelow(f)[r] \in Int
<1> DEFINE Sum(g, m) == [r \in 0 .. m |-> IF r = 0 THEN 0 ELSE g[r - 1] + f[r - 1]]
           T == {m \in 0 .. NumRanks : \E g \in [0 .. m -> Int] : g = Sum(g, m)}
<1>1. 0 \in T
  <2> DEFINE z == [r \in 0 .. 0 |-> 0]
  <2>1. z = Sum(z, 0)
    OBVIOUS
  <2>2. z \in [0 .. 0 -> Int]
    OBVIOUS
  <2> HIDE DEF z, Sum
  <2> QED BY <2>1, <2>2
<1>2. ASSUME NEW m \in 0 .. NumRanks - 1, m \in T PROVE m + 1 \in T
  <2>1. PICK g \in [0 .. m -> Int] : g = Sum(g, m)
    BY <1>2
  <2>2. \A r \in 0 .. m : g[r] = IF r = 0 THEN 0 ELSE g[r - 1] + f[r - 1]
    BY <2>1
  <2>3. m \in Ranks /\ f[m] \in Int /\ g[m] \in Int
    BY DEF Ranks
  <2> DEFINE h == [r \in 0 .. m + 1 |-> IF r <= m THEN g[r] ELSE g[m] + f[m]]
  <2>4. h \in [0 .. m + 1 -> Int]
    BY <2>3
  <2>5. (\A r \in 0 .. m : h[r] = g[r]) /\ h[m + 1] = g[m] + f[m]
    BY <2>3
  <2> HIDE DEF h
  <2>6. ASSUME NEW r \in 0 .. m + 1
        PROVE  h[r] = IF r = 0 THEN 0 ELSE h[r - 1] + f[r - 1]
    <3>1. CASE r = m + 1
      <4>1. r # 0 /\ r - 1 = m /\ m \in 0 .. m
        BY <3>1
      <4> QED BY <2>5, <3>1, <4>1
    <3>2. CASE r = 0
      <4>1. 0 \in 0 .. m
        OBVIOUS
      <4> QED BY <2>2, <2>5, <3>2, <4>1
    <3>3. CASE r \in 1 .. m
      <4>1. r \in 0 .. m /\ r - 1 \in 0 .. m /\ r # 0
        BY <3>3
      <4> QED BY <2>2, <2>5, <4>1
    <3> QED BY <3>1, <3>2, <3>3
  <2>7. h = Sum(h, m + 1)
    BY <2>4, <2>6
  <2> HIDE DEF Sum
  <2> QED BY <2>4, <2>7
<1>3. \A r \in 0 .. NumRanks : r \in T
  <2> HIDE DEF T
  <2> QED BY <1>1, <1>2, InductionUpTo
<1>4. PICK g \in [0 .. NumRanks -> Int] : g = Sum(g, NumRanks)
  <2>1. NumRanks \in T
    <3> HIDE DEF T
    <3>1. NumRanks \in 0 .. NumRanks
      OBVIOUS
    <3> QED BY <1>3, <3>1
  <2> HIDE DEF Sum
  <2> QED BY <2>1
<1>5. sumBelow(f) = CHOOSE h : h = Sum(h, NumRanks)
  BY DEF sumBelow
<1>6. sumBelow(f) = Sum(sumBelow(f), NumRanks)
  <2> HIDE DEF Sum
  <2> QED BY <1>4, <1>5
<1>7. sumBelow(f)[0] = 0 /\ \A r \in 1 .. NumRanks :
                              sumBelow(f)[r] = sumBelow(f)[r - 1] + f[r - 1]
  BY <1>6
<1> DEFINE s == sumBelow(f)
           U == {m \in 0 .. NumRanks : s[m] \in Int}
<1>8. \A r \in Ranks : r + 1 \in 1 .. NumRanks /\ (r + 1) - 1 = r
  BY DEF Ranks
<1>9. \A r \in Ranks : s[r + 1] = s[r] + f[r]
  BY <1>7, <1>8
<1>10. 0 \in U
  BY <1>7
<1>11. ASSUME NEW m \in 0 .. NumRanks - 1, m \in U PROVE m + 1 \in U
  BY <1>9, <1>11 DEF Ranks
<1>12. \A r \in 0 .. NumRanks : r \in U
  <2> HIDE DEF U
  <2> QED BY <1>10, <1>11, InductionUpTo
<1> QED BY <1>7, <1>9, <1>12

\* Sums of natural numbers grow with the ranks.
LEMMA SumGrows ==
    ASSUME NEW f \in [Ranks -> Nat]
    PROVE  /\ sumBelow(f) [NumRanks] \in Nat
           /\ \A r \in 0 .. NumRanks : sumBelow(f)[r] \in Nat
           /\ \A q, r \in 0 .. NumRanks : q <= r => sumBelow(f)[q] <= sumBelow(f)[r]
<1> DEFINE s == sumBelow(f)
           T == {m \in 0 .. NumRanks : s[m] \in Nat
                                       /\ \A q \in 0 .. NumRanks : q <= m => s[q] <= s[m]}
<1>1. f \in [Ranks -> Int]
  OBVIOUS
<1>2. /\ s[0] = 0 /\ \A r \in Ranks : s[r + 1] = s[r] + f[r]
      /\ \A r \in 0 .. NumRanks : s[r] \in Int
  BY <1>1, SumBelow
<1> HIDE DEF s
<1>3. 0 \in T
  <2>1. \A q \in 0 .. NumRanks : q <= 0 => q = 0
    OBVIOUS
  <2> QED BY <1>2, <2>1
<1>4. ASSUME NEW m \in 0 .. NumRanks - 1, m \in T PROVE m + 1 \in T
  <2>1. s[m + 1] = s[m] + f[m] /\ f[m] \in Nat /\ s[m] \in Nat
    BY <1>2, <1>4 DEF Ranks
  <2>2. \A q \in 0 .. NumRanks : q <= m + 1 => q <= m \/ q = m + 1
    OBVIOUS
  <2>3. \A q \in 0 .. NumRanks : q <= m => s[q] <= s[m + 1]
    BY <1>2, <1>4, <2>1
  <2>4. s[m + 1] \in Nat /\ m + 1 \in 0 .. NumRanks
    BY <2>1
  <2> QED BY <2>2, <2>3, <2>4
<1>5. \A r \in 0 .. NumRanks : r \in T
  <2> HIDE DEF T
  <2> QED BY <1>3, <1>4, InductionUpTo
<1> QED BY <1>5 DEF s

\* The state that the sharing of a step reads.
Counts == localNum \in [Containers -> [Ranks -> Nat]]

\* What a container has space for, by rank.
Spaces(c) == [r \in Ranks |-> spaceLeft(c, r)]

\* The share of a rank is not more than it has space for.
LEMMA Shares ==
    ASSUME Counts, NEW c \in Containers, NEW n \in Nat
    PROVE  /\ Spaces(c) \in [Ranks -> Nat]
           /\ evenShares(n, c) \in [Ranks -> Nat] /\ rooms(n, c) \in [Ranks -> Nat]
           /\ \A r \in Ranks : Spaces(c)[r] = evenShares(n, c)[r] + rooms(n, c)[r]
           /\ emitCounts(n, c) \in [Ranks -> Nat]
           /\ \A r \in Ranks : emitCount(n, c, r) <= spaceLeft(c, r)
<1>1. \A r \in Ranks : localNum[c][r] \in Nat /\ Capacity[c] \in Nat
  BY DEF Counts
<1>2. \A r \in Ranks : spaceLeft(c, r) \in Nat
  BY <1>1 DEF spaceLeft
<1>3. \A r \in Ranks : n \div NumRanks + (IF r < n % NumRanks THEN 1 ELSE 0) \in Nat
  <2>1. NumRanks \in Nat \ {0}
    OBVIOUS
  <2>2. n \div NumRanks \in Nat
    BY <2>1, Division
  <2> QED BY <2>2
<1>4. \A r \in Ranks : evenShare(n, c, r) \in Nat /\ evenShare(n, c, r) <= spaceLeft(c, r)
  BY <1>2, <1>3 DEF evenShare, smaller
<1>5. \A r \in Ranks : spaceLeft(c, r) - evenShare(n, c, r) \in Nat
  BY <1>2, <1>4
<1>6. evenShares(n, c) \in [Ranks -> Nat] /\ rooms(n, c) \in [Ranks -> Nat]
  BY <1>4, <1>5 DEF evenShares, rooms
<1>7. \A r \in Ranks : Spaces(c)[r] = evenShares(n, c)[r] + rooms(n, c)[r]
  BY <1>2, <1>4 DEF Spaces, evenShares, rooms
<1>8. ASSUME NEW r \in Ranks
      PROVE  emitCount(n, c, r) \in Nat /\ emitCount(n, c, r) <= spaceLeft(c, r)
  <2> DEFINE deficit == n - sumBelow(evenShares(n, c))[NumRanks]
             roomLess == sumBelow(rooms(n, c))[r]
             rest == IF deficit > roomLess THEN deficit - roomLess ELSE 0
             rm == rooms(n, c)[r]
             even == evenShare(n, c, r)
  <2>1. r \in 0 .. NumRanks
    BY DEF Ranks
  <2>2. deficit \in Int /\ roomLess \in Nat
    <3>1. sumBelow(evenShares(n, c))[NumRanks] \in Nat /\ sumBelow(rooms(n, c))[r] \in Nat
      BY <1>6, <2>1, SumGrows
    <3> QED BY <3>1
  <2>3. rm = spaceLeft(c, r) - even /\ rm \in Nat /\ even \in Nat /\ spaceLeft(c, r) \in Nat
    BY <1>2, <1>4, <1>5 DEF rooms
  <2>4. emitCount(n, c, r) = even + smaller(rm, rest)
    BY DEF emitCount
  <2> HIDE DEF deficit, roomLess, rm, even
  <2>5. rest \in Nat
    BY <2>2
  <2> HIDE DEF rest
  <2>6. smaller(rm, rest) \in Nat /\ smaller(rm, rest) <= rm
    BY <2>3, <2>5 DEF smaller
  <2> QED BY <2>3, <2>4, <2>6
<1> QED BY <1>2, <1>6, <1>7, <1>8 DEF Spaces, emitCounts

\* The even shares are a distribution of n, or less where there is no space.
LEMMA EvenSum ==
    ASSUME Counts, NEW c \in Containers, NEW n \in Nat
    PROVE  sumBelow(evenShares(n, c))[NumRanks] <= n
<1> DEFINE s == sumBelow(evenShares(n, c))
           base == n \div NumRanks
           rem == n % NumRanks
           T == {r \in 0 .. NumRanks : s[r] <= r * base + smaller(r, rem)}
<1>1. /\ base \in Nat /\ rem \in 0 .. NumRanks - 1 /\ n = NumRanks * base + rem
  <2>1. NumRanks \in Nat \ {0}
    OBVIOUS
  <2> QED BY <2>1, Division
<1>2. /\ s[0] = 0 /\ \A r \in Ranks : s[r + 1] = s[r] + evenShares(n, c)[r]
      /\ \A r \in 0 .. NumRanks : s[r] \in Nat
  <2>1. evenShares(n, c) \in [Ranks -> Nat]
    BY Shares
  <2>2. evenShares(n, c) \in [Ranks -> Int]
    BY <2>1
  <2> QED BY <2>1, <2>2, SumBelow, SumGrows
<1>3. \A r \in Ranks : evenShares(n, c)[r] <= base + (IF r < rem THEN 1 ELSE 0)
  <2>1. \A r \in Ranks : evenShares(n, c)[r] = evenShare(n, c, r)
    BY DEF evenShares
  <2>2. \A r \in Ranks : spaceLeft(c, r) \in Nat
    BY DEF spaceLeft, Counts
  <2> QED BY <1>1, <2>1, <2>2 DEF evenShare, smaller
<1>4. \A r \in Ranks : evenShares(n, c)[r] \in Nat
  BY Shares
<1> HIDE DEF s, base, rem
<1>5. 0 \in T
  BY <1>1, <1>2 DEF smaller
<1>6. ASSUME NEW r \in 0 .. NumRanks - 1, r \in T PROVE r + 1 \in T
  <2>1. r \in Ranks /\ r + 1 \in 0 .. NumRanks /\ r \in Nat
    BY DEF Ranks
  <2>2. s[r + 1] <= s[r] + base + (IF r < rem THEN 1 ELSE 0) /\ s[r + 1] \in Nat /\ s[r] \in Nat
    <3> DEFINE e == evenShares(n, c)[r]
    <3>1. s[r + 1] = s[r] + e /\ s[r] \in Nat /\ s[r + 1] \in Nat
      BY <1>2, <2>1
    <3>2. e <= base + (IF r < rem THEN 1 ELSE 0) /\ e \in Nat
      BY <1>3, <1>4, <2>1
    <3> HIDE DEF e
    <3> QED BY <1>1, <3>1, <3>2
  <2>3. s[r] <= r * base + smaller(r, rem)
    BY <1>6
  <2>4. (r + 1) * base = r * base + base /\ r * base \in Nat
    BY <1>1, <2>1
  <2>5. smaller(r + 1, rem) = smaller(r, rem) + (IF r < rem THEN 1 ELSE 0) /\ smaller(r, rem) \in Nat
    BY <1>1, <2>1 DEF smaller
  <2>6. s[r + 1] <= (r + 1) * base + smaller(r + 1, rem)
    <3> DEFINE e == IF r < rem THEN 1 ELSE 0
               p == r * base
               q == (r + 1) * base
               u == smaller(r, rem)
               v == smaller(r + 1, rem)
               x == s[r]
               y == s[r + 1]
    <3>1. /\ y <= x + base + e /\ x <= p + u /\ q = p + base /\ v = u + e
          /\ x \in Nat /\ y \in Nat /\ p \in Nat /\ u \in Nat
      BY <2>2, <2>3, <2>4, <2>5
    <3>2. base \in Nat /\ e \in Nat
      BY <1>1
    <3> HIDE DEF e, p, q, u, v, x, y, base
    <3>3. y <= q + v
      BY <3>1, <3>2
    <3> QED BY <3>3 DEF q, v, y
  <2> QED BY <2>1, <2>6
<1>7. \A r \in 0 .. NumRanks : r \in T
  <2> HIDE DEF T
  <2> QED BY <1>5, <1>6, InductionUpTo
<1>8. s[NumRanks] <= NumRanks * base + smaller(NumRanks, rem)
  BY <1>7
<1>9. smaller(NumRanks, rem) = rem
  BY <1>1 DEF smaller
<1> QED BY <1>1, <1>8, <1>9 DEF s

\* The ranks together take what is asked for, or all the space there is.
LEMMA SharedIsExact ==
    ASSUME Counts, NEW c \in Containers, NEW n \in Nat
    PROVE  shared(n, c) = smaller(n, sumBelow(Spaces(c))[NumRanks])
<1> DEFINE even == sumBelow(evenShares(n, c))
           rm == sumBelow(rooms(n, c))
           all == sumBelow(Spaces(c))
           cnt == sumBelow(emitCounts(n, c))
           deficit == n - even[NumRanks]
           T == {r \in 0 .. NumRanks : /\ all[r] = even[r] + rm[r]
                                       /\ cnt[r] = even[r] + smaller(rm[r], deficit)}
<1>1. /\ Spaces(c) \in [Ranks -> Nat]
      /\ evenShares(n, c) \in [Ranks -> Nat] /\ rooms(n, c) \in [Ranks -> Nat]
      /\ \A r \in Ranks : Spaces(c)[r] = evenShares(n, c)[r] + rooms(n, c)[r]
      /\ emitCounts(n, c) \in [Ranks -> Nat]
  BY Shares
<1>2. /\ Spaces(c) \in [Ranks -> Int] /\ evenShares(n, c) \in [Ranks -> Int]
      /\ rooms(n, c) \in [Ranks -> Int] /\ emitCounts(n, c) \in [Ranks -> Int]
  BY <1>1
<1>3. /\ even[0] = 0 /\ rm[0] = 0 /\ all[0] = 0 /\ cnt[0] = 0
      /\ \A r \in Ranks : /\ even[r + 1] = even[r] + evenShares(n, c)[r]
                          /\ rm[r + 1] = rm[r] + rooms(n, c)[r]
                          /\ all[r + 1] = all[r] + Spaces(c)[r]
                          /\ cnt[r + 1] = cnt[r] + emitCounts(n, c)[r]
  BY <1>2, SumBelow
<1>4. \A r \in 0 .. NumRanks : even[r] \in Nat /\ rm[r] \in Nat /\ all[r] \in Nat /\ cnt[r] \in Nat
  BY <1>1, SumGrows
<1>5. deficit \in Nat
  <2>1. even[NumRanks] <= n
    BY EvenSum
  <2> QED BY <1>4, <2>1
<1>6. \A r \in Ranks :
         emitCounts(n, c)[r] = evenShares(n, c)[r]
             + smaller(rooms(n, c)[r], IF deficit > rm[r] THEN deficit - rm[r] ELSE 0)
  BY DEF emitCounts, emitCount, evenShares
<1> HIDE DEF even, rm, all, cnt, deficit
<1>7. 0 \in T
  BY <1>3, <1>5 DEF smaller
<1>8. ASSUME NEW r \in 0 .. NumRanks - 1, r \in T PROVE r + 1 \in T
  <2>1. r \in Ranks /\ r + 1 \in 0 .. NumRanks /\ r \in 0 .. NumRanks
    BY DEF Ranks
  <2> DEFINE e == evenShares(n, c)[r]
             f == rooms(n, c)[r]
  <2>2. e \in Nat /\ f \in Nat /\ Spaces(c)[r] = e + f
    BY <1>1, <2>1
  <2>3. emitCounts(n, c)[r] = e + smaller(f, IF deficit > rm[r] THEN deficit - rm[r] ELSE 0)
    BY <1>6, <2>1
  <2>4. /\ even[r + 1] = even[r] + e /\ rm[r + 1] = rm[r] + f
        /\ all[r + 1] = all[r] + (e + f) /\ cnt[r + 1] = cnt[r] + emitCounts(n, c)[r]
    BY <1>3, <2>1, <2>2
  <2>5. /\ even[r] \in Nat /\ rm[r] \in Nat /\ all[r] = even[r] + rm[r]
        /\ cnt[r] = even[r] + smaller(rm[r], deficit)
    BY <1>4, <1>8, <2>1
  <2> HIDE DEF e, f
  <2>6. smaller(rm[r], deficit) + smaller(f, IF deficit > rm[r] THEN deficit - rm[r] ELSE 0)
        = smaller(rm[r] + f, deficit)
    BY <1>5, <2>2, <2>5 DEF smaller
  <2>7. smaller(rm[r], deficit) \in Int
        /\ smaller(f, IF deficit > rm[r] THEN deficit - rm[r] ELSE 0) \in Int
    BY <1>5, <2>2, <2>5 DEF smaller
  <2>8. cnt[r + 1] = even[r + 1] + smaller(rm[r + 1], deficit)
    BY <2>2, <2>3, <2>4, <2>5, <2>6, <2>7
  <2>9. all[r + 1] = even[r + 1] + rm[r + 1]
    BY <2>2, <2>4, <2>5
  <2> QED BY <2>1, <2>8, <2>9
<1>9. \A r \in 0 .. NumRanks : r \in T
  <2> HIDE DEF T
  <2> QED BY <1>7, <1>8, InductionUpTo
<1>10. /\ all[NumRanks] = even[NumRanks] + rm[NumRanks]
       /\ cnt[NumRanks] = even[NumRanks] + smaller(rm[NumRanks], deficit)
  BY <1>9
<1>11. /\ even[NumRanks] \in Nat /\ rm[NumRanks] \in Nat /\ deficit = n - even[NumRanks]
  BY <1>4 DEF deficit
<1>12. cnt[NumRanks] = smaller(n, all[NumRanks])
  BY <1>5, <1>10, <1>11 DEF smaller
<1> QED BY <1>12 DEF shared, cnt, all

\* The parts of the ranks are one after the other: every number up to what they
\* take together is in exactly one of them.
LEMMA PartsAreDisjoint ==
    ASSUME NEW count \in [Ranks -> Nat], NEW d \in Int
    PROVE  Cardinality({r \in Ranks : d \in sumBelow(count)[r] + 1 .. sumBelow(count)[r] + count[r]})
           = IF d \in 1 .. sumBelow(count)[NumRanks] THEN 1 ELSE 0
<1> DEFINE s == sumBelow(count)
           H == {r \in Ranks : d \in s[r] + 1 .. s[r] + count[r]}
<1>1. /\ s[0] = 0 /\ \A r \in Ranks : s[r + 1] = s[r] + count[r]
      /\ \A r \in 0 .. NumRanks : s[r] \in Nat
      /\ \A q, r \in 0 .. NumRanks : q <= r => s[q] <= s[r]
  <2>1. count \in [Ranks -> Int]
    OBVIOUS
  <2> QED BY <2>1, SumBelow, SumGrows
<1> HIDE DEF s
<1>2. \A r \in Ranks : /\ r \in 0 .. NumRanks /\ r + 1 \in 0 .. NumRanks
                       /\ s[r] \in Nat /\ s[r + 1] = s[r] + count[r] /\ s[r + 1] \in Nat
  BY <1>1 DEF Ranks
<1>3. \A r \in H : r \in Ranks /\ s[r] < d /\ d <= s[r + 1]
  BY <1>2
<1>4. CASE d \in 1 .. s[NumRanks]
  <2> DEFINE U == {r \in 0 .. NumRanks : d <= s[r]}
  <2>1. U \in SUBSET Nat /\ NumRanks \in U
    BY <1>1, <1>4
  <2>2. PICK u \in U : \A r \in U : u <= r
    <3> HIDE DEF U
    <3> QED BY <2>1, Least
  <2>3. u # 0 /\ u - 1 \in Ranks /\ u - 1 \notin U /\ u \in 0 .. NumRanks /\ d <= s[u]
    BY <1>1, <1>4, <2>2 DEF Ranks
  <2>4. s[u - 1] < d /\ (u - 1) + 1 = u
    BY <1>2, <2>3
  <2>5. u - 1 \in H
    BY <1>2, <2>3, <2>4
  <2>6. ASSUME NEW r \in H PROVE r = u - 1
    <3>1. r \in Ranks /\ s[r] < d /\ d <= s[r + 1] /\ r \in Int /\ u \in Int
      BY <1>3, <2>3 DEF Ranks
    <3>2. s[r] \in Nat /\ s[u] \in Nat /\ s[u - 1] \in Nat /\ s[r + 1] \in Nat
      BY <1>2, <2>3, <2>4, <3>1
    <3>3. CASE r < u - 1
      <4>1. s[r + 1] <= s[u - 1]
        BY <1>1, <1>2, <2>3, <3>1, <3>3
      <4> QED BY <2>4, <3>1, <3>2, <4>1
    <3>4. CASE r > u - 1
      <4>1. s[u] <= s[r]
        BY <1>1, <1>2, <2>3, <3>1, <3>4
      <4> QED BY <2>3, <3>1, <3>2, <4>1
    <3> QED BY <3>1, <3>3, <3>4
  <2>7. H = {u - 1}
    BY <2>5, <2>6
  <2> HIDE DEF H
  <2>8. Cardinality(H) = 1
    BY <2>7, FS_Singleton
  <2> QED BY <1>4, <2>8 DEF H, s
<1>5. CASE d \notin 1 .. s[NumRanks]
  <2>1. ASSUME NEW r \in H PROVE FALSE
    <3>1. r \in Ranks /\ s[r] < d /\ d <= s[r + 1] /\ s[r] \in Nat /\ s[r + 1] \in Nat
      BY <1>2, <1>3
    <3>2. s[r + 1] <= s[NumRanks] /\ s[NumRanks] \in Nat
      BY <1>1, <3>1 DEF Ranks
    <3> QED BY <1>5, <3>1, <3>2
  <2>2. H = {}
    BY <2>1
  <2>3. Cardinality(H) = 0
    BY <2>2, FS_EmptySet
  <2> QED BY <1>5, <2>3 DEF H, s
<1> QED BY <1>4, <1>5

-----------------------------------------------------------------------------
(* Types.                                                                   *)

\* The type invariant with the domains of the functions.
Types ==
    /\ time \in Int /\ dtTrack \in TrackDts /\ dt \in Nat \ {0}
    /\ turn \in 0 .. NumSources + 1 /\ frozen \subseteq Containers
    /\ next \in [Inventory -> Nat] /\ \A s \in Inventory : next[s] <= Len(birthTimes[s])
    /\ emitted \in [Profiled -> Nat]
    /\ Counts
    /\ failure \in {"none", "overdue", "full"} /\ heldBack \in BOOLEAN

\* The time step is positive, whatever sources are unfinished.
LEMMA SelectDT ==
    ASSUME dtTrack \in TrackDts, NEW cursor
    PROVE  selectDT(cursor) \in Nat \ {0}
<1> DEFINE E == {getEmissionTimeStep(s) : s \in Pending(cursor)} \ {0}
<1>1. selectDT(cursor) = IF E = {} THEN dtTrack ELSE Min(E)
  BY DEF selectDT
<1>2. \A s \in Pending(cursor) : getEmissionTimeStep(s) \in Nat
  BY EmissionTime DEF Pending
<1>3. E \in SUBSET Nat /\ 0 \notin E
  BY <1>2
<1> HIDE DEF E
<1>4. ASSUME E # {} PROVE Min(E) \in E
  <2>1. \E n \in E : \A m \in E : n <= m
    BY <1>3, <1>4, Least
  <2> QED BY <2>1 DEF Min
<1>5. dtTrack \in Nat \ {0}
  OBVIOUS
<1> QED BY <1>1, <1>3, <1>4, <1>5

\* The records due are the next ones, and all that are born by the end of the step.
LEMMA Due ==
    ASSUME NEW s \in Inventory, next[s] \in 0 .. Len(birthTimes[s]), time + dt \in Int
    PROVE  /\ due(s) \in Nat /\ next[s] + due(s) \in next[s] .. Len(birthTimes[s])
           /\ \A k \in next[s] + 1 .. Len(birthTimes[s]) :
                 birthTimes[s][k] <= time + dt <=> k <= next[s] + due(s)
<1> DEFINE b == birthTimes[s]
           n == Len(b)
           c == next[s]
           t == time + dt
           D == {k \in 1 .. n : k > c /\ b[k] <= t}
           U == {k \in c .. n : k = n \/ b[k + 1] > t}
<1>1. /\ n \in Nat /\ DOMAIN b = 1 .. n /\ \A k \in 1 .. n : b[k] \in Int
      /\ \A k, m \in 1 .. n : k <= m => b[k] <= b[m]
  BY BirthTimes
<1>2. c \in 0 .. n /\ t \in Int
  OBVIOUS
<1>3. due(s) = Cardinality(D)
  BY <1>1 DEF due
<1> HIDE DEF b, n, c, t
<1>4. U \in SUBSET Nat /\ n \in U
  BY <1>1, <1>2
<1>5. PICK m \in U : \A k \in U : m <= k
  <2> HIDE DEF U
  <2> QED BY <1>4, Least
<1>6. m \in c .. n
  BY <1>5
<1>7. ASSUME NEW k \in c + 1 .. n PROVE b[k] <= t <=> k <= m
  <2>1. k \in 1 .. n /\ b[k] \in Int
    BY <1>1, <1>2
  <2>2. CASE k <= m
    <3>1. k - 1 \in c .. n /\ (k - 1) + 1 = k /\ k - 1 # n /\ ~ (m <= k - 1)
      BY <1>1, <1>2, <1>6, <2>2
    <3>2. k - 1 \notin U
      <4> HIDE DEF U
      <4> QED BY <1>5, <3>1
    <3>3. ~ (b[k] > t)
      BY <3>1, <3>2
    <3> QED BY <1>2, <2>1, <2>2, <3>3
  <2>3. CASE ~ (k <= m)
    <3>1. m + 1 \in 1 .. n /\ m + 1 <= k /\ m # n
      BY <1>1, <1>2, <1>6, <2>1, <2>3
    <3>2. b[m + 1] > t /\ b[m + 1] <= b[k] /\ b[m + 1] \in Int
      BY <1>1, <1>5, <2>1, <3>1
    <3> QED BY <1>2, <2>1, <2>3, <3>2
  <2> QED BY <2>2, <2>3
<1>8. D = c + 1 .. m
  <2>1. \A k \in D : k \in c + 1 .. m
    <3> SUFFICES ASSUME NEW k \in 1 .. n, k > c, b[k] <= t PROVE k \in c + 1 .. m
      OBVIOUS
    <3>1. k \in c + 1 .. n
      BY <1>2
    <3> QED BY <1>6, <1>7, <3>1
  <2>2. \A k \in c + 1 .. m : k \in D
    <3> SUFFICES ASSUME NEW k \in c + 1 .. m PROVE k \in D
      OBVIOUS
    <3>1. k \in c + 1 .. n /\ k \in 1 .. n /\ k > c /\ k <= m
      BY <1>1, <1>2, <1>6
    <3> QED BY <1>7, <3>1
  <2> QED BY <2>1, <2>2
<1> HIDE DEF D, U
<1>9. Cardinality(D) = m - c
  <2>1. c + 1 \in Int /\ m \in Int
    BY <1>2, <1>6
  <2>2. Cardinality(D) = IF c + 1 > m THEN 0 ELSE m - (c + 1) + 1
    BY <1>8, <2>1, FS_Interval
  <2> QED BY <1>2, <1>6, <2>2
<1>10. due(s) \in Nat /\ c + due(s) = m
  BY <1>2, <1>3, <1>6, <1>9
<1> QED BY <1>6, <1>7, <1>10 DEF b, n, c, t

\* What creating n particles does to the numbers of the ranks.
LEMMA Create ==
    ASSUME Counts, NEW c \in Containers, NEW n \in Nat, create(c, n)
    PROVE  /\ Counts'
           /\ \A d \in Containers, r \in Ranks :
                 localNum'[d][r] = IF d = c THEN localNum[c][r] + emitCount(n, c, r)
                                   ELSE localNum[d][r]
<1> DEFINE more == [r \in Ranks |-> localNum[c][r] + emitCount(n, c, r)]
<1>1. localNum' = [localNum EXCEPT ![c] = more]
  BY DEF create
<1>2. \A r \in Ranks : emitCount(n, c, r) \in Nat
  <2>1. emitCounts(n, c) \in [Ranks -> Nat]
    BY Shares
  <2> QED BY <2>1 DEF emitCounts
<1>3. more \in [Ranks -> Nat]
  BY <1>2 DEF Counts
<1>4. more = [r \in Ranks |-> localNum[c][r] + emitCount(n, c, r)]
  OBVIOUS
<1> HIDE DEF more
<1>5. Counts'
  BY <1>1, <1>3 DEF Counts
<1>6. \A d \in Containers : localNum'[d] = IF d = c THEN more ELSE localNum[d]
  BY <1>1 DEF Counts
<1> QED BY <1>4, <1>5, <1>6

\* The first state has the types.
LEMMA InitTypes == Init => Types
<1> SUFFICES ASSUME Init PROVE Types
  OBVIOUS
<1>1. time \in Int
  BY StartTime DEF Init
<1>2. dtTrack \in TrackDts /\ dt \in Nat \ {0}
  BY DEF Init
<1>3. \A s \in Inventory : next[s] <= Len(birthTimes[s])
  BY BirthTimes DEF Init
<1>4. next \in [Inventory -> Nat] /\ emitted \in [Profiled -> Nat] /\ Counts
  BY DEF Init, Counts
<1>5. turn = 0 /\ frozen = {} /\ failure = "none" /\ heldBack = FALSE
  BY DEF Init
<1>6. turn \in 0 .. NumSources + 1 /\ frozen \subseteq Containers
  BY <1>5
<1> QED BY <1>1, <1>2, <1>3, <1>4, <1>5, <1>6, Zenon DEF Types

\* Every step keeps the types.
LEMMA NextTypes == Types /\ [Next]_vars => Types'
<1> SUFFICES ASSUME Types, [Next]_vars PROVE Types'
  OBVIOUS
<1> USE DEF Types
<1>0. time + dt \in Int /\ \A s \in Inventory : next[s] \in 0 .. Len(birthTimes[s])
  BY BirthTimes
<1>1. CASE BeginStep
  <2>1. selectDT(next) \in Nat \ {0}
    BY SelectDT
  <2> QED BY <1>1, <2>1 DEF BeginStep, sources, Counts
<1>2. CASE FinishStep
  <2>1. selectDT(next) \in Nat \ {0}
    BY SelectDT
  <2>2. time' \in Int
    BY <1>2, <2>1 DEF FinishStep
  <2>3. frozen' \subseteq Containers
    BY <1>2 DEF FinishStep
  <2>4. heldBack' \in BOOLEAN /\ turn' = 0
    BY <1>2, Zenon DEF FinishStep
  <2> QED BY <1>2, <2>2, <2>3, <2>4 DEF FinishStep, sources, Counts
<1>3. CASE NextSegment
  BY <1>3 DEF NextSegment, sources, Counts
<1>4. CASE Redistribute
  <2>1. Counts'
    BY <1>4 DEF Redistribute, Counts
  <2> QED BY <1>4, <2>1 DEF Redistribute
<1>5. ASSUME NEW s \in Sources, EmitInventory(s) PROVE Types'
  <2>1. /\ s \in Inventory /\ Feeds[s] \in Containers /\ due(s) \in Nat
        /\ next[s] + due(s) \in next[s] .. Len(birthTimes[s])
    BY <1>0, <1>5, Due DEF EmitInventory
  <2>2. Counts'
    BY <1>5, <2>1, Create DEF EmitInventory
  <2>3. next' = [next EXCEPT ![s] = next[s] + due(s)]
    BY <1>5, Zenon DEF EmitInventory
  <2>4. next' \in [Inventory -> Nat] /\ \A q \in Inventory : next'[q] <= Len(birthTimes[q])
    <3> DEFINE d == due(s)
               L(q) == Len(birthTimes[q])
    <3>1. /\ d \in Nat /\ next[s] + d <= L(s) /\ next' = [next EXCEPT ![s] = next[s] + d]
          /\ \A q \in Inventory : next[q] <= L(q)
      BY <1>0, <2>1, <2>3
    <3> HIDE DEF d, L
    <3>2. next \in [Inventory -> Nat] /\ next[s] + d \in Nat
      BY <2>1, <3>1 DEF Types
    <3>3. next' \in [Inventory -> Nat]
      BY <3>1, <3>2
    <3>4. \A q \in Inventory : next'[q] <= L(q)
      BY <3>1, <3>2
    <3> QED BY <3>3, <3>4 DEF L
  <2>5. turn' \in 0 .. NumSources + 1
    <3>1. s \in Sources /\ turn = s /\ turn' = turn + 1 /\ NumSources \in Nat
      BY <1>5, EmissionAssumption DEF EmitInventory, mayEmit
    <3> QED BY <3>1 DEF Sources
  <2> QED BY <1>5, <2>2, <2>3, <2>4, <2>5 DEF EmitInventory
<1>6. ASSUME NEW s \in Sources, EmitFails(s) PROVE Types'
  BY <1>6 DEF EmitFails, sources, Counts
<1>7. ASSUME NEW s \in Sources, EmitProfile(s) PROVE Types'
  <2>1. PICK n \in IF time - T0[s] < Window[s] THEN 0 .. TotalN[s] ELSE {0} :
           /\ create(Feeds[s], n)
           /\ emitted' = [emitted EXCEPT ![s] = emitted[s] + shared(n, Feeds[s])]
    BY <1>7, Zenon DEF EmitProfile
  <2>2. Feeds[s] \in Containers /\ s \in Profiled /\ n \in Nat
    BY <1>7, <2>1 DEF EmitProfile
  <2>3. Counts'
    BY <2>1, <2>2, Create
  <2>4. shared(n, Feeds[s]) \in Nat
    <3>1. emitCounts(n, Feeds[s]) \in [Ranks -> Nat]
      BY <2>2, Shares
    <3> QED BY <3>1, SumGrows DEF shared
  <2>5. emitted' \in [Profiled -> Nat]
    BY <2>1, <2>2, <2>4
  <2>6. turn' \in 0 .. NumSources + 1
    BY <1>7 DEF EmitProfile, mayEmit, Sources
  <2> QED BY <1>7, <2>3, <2>5, <2>6 DEF EmitProfile
<1>8. ASSUME NEW s \in Sources, SkipFrozen(s) PROVE Types'
  <2>1. turn' \in 0 .. NumSources + 1
    BY <1>8 DEF SkipFrozen, Sources
  <2> QED BY <1>8, <2>1 DEF SkipFrozen, sources, Counts
<1>9. CASE UNCHANGED vars
  BY <1>9 DEF vars, sources, Counts
<1> QED BY <1>1, <1>2, <1>3, <1>4, <1>5, <1>6, <1>7, <1>8, <1>9 DEF Next

\* Types of every reachable state.
LEMMA TypesInvariant == Spec => []Types
<1> QED BY InitTypes, NextTypes, PTL DEF Spec

\* Every variable has its type in every reachable state: no cursor passes the end of
\* its inventory and the time step is always positive.
THEOREM EmissionTypeCorrect == Spec => []TypeOK
<1>1. Types => TypeOK
  <2> SUFFICES ASSUME Types PROVE TypeOK
    OBVIOUS
  <2>1. \A s \in Inventory : next[s] \in 0 .. Len(birthTimes[s])
    BY BirthTimes DEF Types
  <2>2. \A c \in Containers, r \in Ranks : localNum[c][r] \in Nat
    BY DEF Types, Counts
  <2> QED BY <2>1, <2>2 DEF Types, TypeOK
<1> QED BY <1>1, TypesInvariant, PTL

\* The ranks share a number of particles exactly, as far as there is space.
ShareExact ==
    \A c \in Containers, n \in Nat : shared(n, c) = smaller(n, sumBelow(Spaces(c))[NumRanks])

\* However many records a step has to create and however the storage of the ranks is
\* filled, computeLocalEmitCount hands out all of them, or all the space there is.
THEOREM SharesAreExact == Spec => []ShareExact
<1>1. Types => ShareExact
  BY SharedIsExact DEF Types, ShareExact
<1> QED BY <1>1, TypesInvariant, PTL

-----------------------------------------------------------------------------
(* Every record is created once.                                            *)

\* The ranks create the records after the cursor, each of them once.
LEMMA Copies ==
    ASSUME Types, NEW s \in Inventory, NEW n \in Nat, shared(n, Feeds[s]) = n, NEW k \in Nat
    PROVE  copies(s, n, k) = IF next[s] < k /\ k <= next[s] + n THEN 1 ELSE 0
<1> DEFINE count == emitCounts(n, Feeds[s])
           sum == sumBelow(count)
           d == k - next[s]
           c == next[s]
           H == {r \in Ranks : d \in sum[r] + 1 .. sum[r] + count[r]}
<1>1. Feeds[s] \in Containers /\ c \in Nat /\ d \in Int /\ d = k - c
  BY DEF Types, Inventory
<1>2. count \in [Ranks -> Nat]
  BY <1>1, Shares DEF Types
<1>3. \A r \in Ranks : sum[r] \in Nat /\ count[r] \in Nat
  <2>1. \A r \in 0 .. NumRanks : sum[r] \in Nat
    BY <1>2, SumGrows
  <2>2. \A r \in Ranks : r \in 0 .. NumRanks
    BY DEF Ranks
  <2>3. \A r \in Ranks : count[r] \in Nat
    <3> HIDE DEF count
    <3> QED BY <1>2
  <2> HIDE DEF sum, count
  <2> QED BY <2>1, <2>2, <2>3
<1>4. \A r \in Ranks : /\ emitOffset(n, Feeds[s], r) = sum[r]
                       /\ emitCount(n, Feeds[s], r) = count[r]
  BY DEF emitOffset, emitCounts
<1>5. Cardinality(H) = IF d \in 1 .. sum[NumRanks] THEN 1 ELSE 0
  BY <1>1, <1>2, PartsAreDisjoint
<1>6. sum[NumRanks] = n
  BY DEF shared
<1>7. copies(s, n, k) = Cardinality({r \in Ranks : k \in c + sum[r] + 1 .. c + sum[r] + count[r]})
  BY <1>4 DEF copies
<1> HIDE DEF count, sum, d, c
<1>8. {r \in Ranks : k \in c + sum[r] + 1 .. c + sum[r] + count[r]} = H
  <2>1. \A r \in Ranks : k \in c + sum[r] + 1 .. c + sum[r] + count[r]
                         <=> d \in sum[r] + 1 .. sum[r] + count[r]
    <3> TAKE r \in Ranks
    <3> DEFINE x == sum[r]
               y == count[r]
    <3>1. x \in Nat /\ y \in Nat
      BY <1>3
    <3> HIDE DEF x, y
    <3>2. k \in c + x + 1 .. c + x + y <=> d \in x + 1 .. x + y
      BY <1>1, <3>1
    <3> QED BY <3>2 DEF x, y
  <2> QED BY <2>1
<1> HIDE DEF H
<1>9. copies(s, n, k) = IF d \in 1 .. n THEN 1 ELSE 0
  BY <1>5, <1>6, <1>7, <1>8
<1> QED BY <1>1, <1>9 DEF c

\* EachBirthOnce with the domains of the functions.
Births ==
    /\ DOMAIN made = Inventory
    /\ \A s \in Inventory :
          made[s] = [k \in 1 .. Len(birthTimes[s]) |-> IF k <= next[s] THEN 1 ELSE 0]

\* Every step keeps the births counted once.
LEMMA NextBirths == Types /\ Births /\ [Next]_vars => Births'
<1> SUFFICES ASSUME Types, Births, [Next]_vars PROVE Births'
  OBVIOUS
<1>1. ASSUME UNCHANGED <<next, made>> PROVE Births'
  BY <1>1 DEF Births
<1>2. ASSUME NEW s \in Sources, EmitInventory(s) PROVE Births'
  <2> DEFINE n == due(s)
             L == Len(birthTimes[s])
  <2>1. /\ s \in Inventory /\ shared(n, Feeds[s]) = n
        /\ next' = [next EXCEPT ![s] = next[s] + n]
        /\ made' = [made EXCEPT ![s] = [k \in DOMAIN made[s] |-> made[s][k] + copies(s, n, k)]]
    BY <1>2, Zenon DEF EmitInventory
  <2>2. n \in Nat /\ next[s] \in Nat /\ L \in Nat /\ next \in [Inventory -> Nat]
    <3>1. next[s] \in 0 .. Len(birthTimes[s]) /\ time + dt \in Int
      BY <2>1, BirthTimes DEF Types
    <3> QED BY <2>1, <3>1, Due, BirthTimes DEF Types
  <2>3. made[s] = [k \in 1 .. L |-> IF k <= next[s] THEN 1 ELSE 0] /\ DOMAIN made = Inventory
    BY <2>1 DEF Births
  <2>4. \A k \in 1 .. L : copies(s, n, k) = IF next[s] < k /\ k <= next[s] + n THEN 1 ELSE 0
    <3> HIDE DEF n, L
    <3>1. \A k \in 1 .. L : k \in Nat
      OBVIOUS
    <3> QED BY <2>1, <2>2, <3>1, Copies
  <2> HIDE DEF n, L
  <2>5. \A k \in 1 .. L : made[s][k] + copies(s, n, k) = IF k <= next[s] + n THEN 1 ELSE 0
    <3> SUFFICES ASSUME NEW k \in 1 .. L
                 PROVE  made[s][k] + copies(s, n, k) = IF k <= next[s] + n THEN 1 ELSE 0
      OBVIOUS
    <3> DEFINE x == made[s][k]
               y == copies(s, n, k)
    <3>1. x = IF k <= next[s] THEN 1 ELSE 0
      BY <2>3
    <3>2. y = IF next[s] < k /\ k <= next[s] + n THEN 1 ELSE 0
      BY <2>4
    <3> HIDE DEF x, y
    <3>3. x + y = IF k <= next[s] + n THEN 1 ELSE 0
      BY <2>2, <3>1, <3>2
    <3> QED BY <3>3 DEF x, y
  <2>6. made'[s] = [k \in 1 .. L |-> made[s][k] + copies(s, n, k)] /\ DOMAIN made' = Inventory
    BY <2>1, <2>3
  <2>7. made'[s] = [k \in 1 .. L |-> IF k <= next'[s] THEN 1 ELSE 0]
    BY <2>1, <2>2, <2>5, <2>6
  <2>8. \A q \in Inventory \ {s} : made'[q] = made[q] /\ next'[q] = next[q]
    BY <2>1, <2>2, <2>3
  <2>9. ASSUME NEW q \in Inventory
        PROVE  made'[q] = [k \in 1 .. Len(birthTimes[q]) |-> IF k <= next'[q] THEN 1 ELSE 0]
    <3>1. CASE q = s
      BY <2>7, <3>1 DEF L
    <3>2. CASE q # s
      <4>1. made'[q] = made[q] /\ next'[q] = next[q]
        BY <2>8, <3>2
      <4>2. made[q] = [k \in 1 .. Len(birthTimes[q]) |-> IF k <= next[q] THEN 1 ELSE 0]
        BY DEF Births
      <4> QED BY <4>1, <4>2
    <3> QED BY <3>1, <3>2
  <2> QED BY <2>6, <2>9 DEF Births
<1>3. CASE BeginStep
  BY <1>1, <1>3 DEF BeginStep, sources
<1>4. CASE FinishStep
  BY <1>1, <1>4 DEF FinishStep, sources
<1>5. CASE NextSegment
  BY <1>1, <1>5 DEF NextSegment, sources
<1>6. CASE Redistribute
  BY <1>1, <1>6 DEF Redistribute
<1>7. ASSUME NEW s \in Sources, EmitFails(s) PROVE Births'
  BY <1>1, <1>7 DEF EmitFails, sources
<1>8. ASSUME NEW s \in Sources, EmitProfile(s) PROVE Births'
  BY <1>1, <1>8 DEF EmitProfile
<1>9. ASSUME NEW s \in Sources, SkipFrozen(s) PROVE Births'
  BY <1>1, <1>9 DEF SkipFrozen, sources
<1>10. CASE UNCHANGED vars
  BY <1>1, <1>10 DEF vars, sources
<1> QED BY <1>2, <1>3, <1>4, <1>5, <1>6, <1>7, <1>8, <1>9, <1>10 DEF Next

\* Together the ranks create each record that the cursor has passed exactly once, and
\* no other record, for any number of ranks and whatever space each of them has left.
THEOREM BirthsOnce == Spec => []EachBirthOnce
<1>1. Init => Births
  <2> SUFFICES ASSUME Init, NEW s \in Inventory
               PROVE  made[s] = [k \in 1 .. Len(birthTimes[s]) |-> IF k <= next[s] THEN 1 ELSE 0]
    BY DEF Init, Births
  <2>1. made[s] = [k \in 1 .. Len(birthTimes[s]) |-> 0] /\ next[s] = 0
    BY DEF Init
  <2> QED BY <2>1
<1>2. Births => EachBirthOnce
  <2> SUFFICES ASSUME Births, NEW s \in Inventory, NEW k \in DOMAIN made[s]
               PROVE  made[s][k] = IF k <= next[s] THEN 1 ELSE 0
    BY DEF EachBirthOnce
  <2>1. made[s] = [i \in 1 .. Len(birthTimes[s]) |-> IF i <= next[s] THEN 1 ELSE 0]
    BY DEF Births
  <2> QED BY <2>1
<1> QED BY <1>1, <1>2, NextBirths, TypesInvariant, PTL DEF Spec

-----------------------------------------------------------------------------
(* Storage.                                                                 *)

\* What StorageRespected asks besides the types.
Store == StorageNeverResized /\ FullMeansFull

\* Every step keeps within the storage, and ends the run only without any left.
LEMMA NextStore == Types /\ Store /\ [Next]_vars => Store'
<1> SUFFICES ASSUME Types, Store, [Next]_vars PROVE Store'
  OBVIOUS
<1>0. Counts
  BY DEF Types
<1>1. ASSUME failure' = "none", UNCHANGED localNum PROVE Store'
  BY <1>1 DEF Store, StorageNeverResized, FullMeansFull
<1>2. ASSUME NEW c \in Containers, NEW n \in Nat, create(c, n), failure' = "none" PROVE Store'
  <2> SUFFICES ASSUME NEW d \in Containers, NEW r \in Ranks PROVE localNum'[d][r] <= Capacity[d]
    BY <1>2 DEF Store, StorageNeverResized, FullMeansFull
  <2>1. localNum'[d][r] = IF d = c THEN localNum[c][r] + emitCount(n, c, r) ELSE localNum[d][r]
    BY <1>0, <1>2, Create
  <2>2. emitCount(n, c, r) <= spaceLeft(c, r) /\ emitCount(n, c, r) \in Nat
    <3>1. emitCounts(n, c) \in [Ranks -> Nat] /\ emitCounts(n, c)[r] = emitCount(n, c, r)
      BY <1>0, Shares DEF emitCounts
    <3>2. emitCount(n, c, r) <= spaceLeft(c, r)
      BY <1>0, Shares
    <3> QED BY <3>1, <3>2
  <2>3. localNum[c][r] <= Capacity[c] /\ localNum[d][r] <= Capacity[d]
    BY DEF Store, StorageNeverResized
  <2>4. localNum[c][r] \in Nat /\ localNum[d][r] \in Nat /\ Capacity[c] \in Nat /\ Capacity[d] \in Nat
    BY <1>0 DEF Counts
  <2> QED BY <2>1, <2>2, <2>3, <2>4 DEF spaceLeft
<1>3. CASE BeginStep
  BY <1>1, <1>3 DEF BeginStep, sources, Running
<1>4. CASE FinishStep
  BY <1>1, <1>4 DEF FinishStep, sources, Running
<1>5. CASE NextSegment
  BY <1>1, <1>5 DEF NextSegment, sources, Running
<1>6. CASE Redistribute
  <2>1. PICK c \in Containers : \E after \in [Ranks -> 0 .. Capacity[c]] :
                                   localNum' = [localNum EXCEPT ![c] = after]
    BY <1>6 DEF Redistribute
  <2>2. PICK after \in [Ranks -> 0 .. Capacity[c]] : localNum' = [localNum EXCEPT ![c] = after]
    BY <2>1
  <2>3. Capacity[c] \in Nat
    OBVIOUS
  <2>4. \A d \in Containers, r \in Ranks : localNum'[d][r] <= Capacity[d]
    BY <1>0, <2>2, <2>3 DEF Counts, Store, StorageNeverResized
  <2>5. failure' = "none"
    BY <1>6 DEF Redistribute, Running
  <2> QED BY <2>4, <2>5 DEF Store, StorageNeverResized, FullMeansFull
<1>7. ASSUME NEW s \in Sources, EmitInventory(s) PROVE Store'
  <2>1. s \in Inventory /\ create(Feeds[s], due(s)) /\ failure' = "none"
    BY <1>7 DEF EmitInventory, mayEmit, Running
  <2>2. due(s) \in Nat /\ Feeds[s] \in Containers
    BY <2>1, BirthTimes, Due DEF Types
  <2> QED BY <1>2, <2>1, <2>2
<1>8. ASSUME NEW s \in Sources, EmitFails(s) PROVE Store'
  <2> DEFINE c == Feeds[s]
             left == [r \in Ranks |-> Capacity[c] - localNum[c][r]]
  <2>1. /\ s \in Inventory /\ turn = s /\ c \in Containers
        /\ UNCHANGED <<time, dt, turn, next, localNum>>
        /\ failure' = "overdue" \/ (shared(due(s), c) < due(s) /\ failure' = "full")
    BY <1>8 DEF EmitFails, mayEmit, sources
  <2>2. due(s) \in Nat
    BY <2>1, BirthTimes, Due DEF Types
  <2>3. left = Spaces(c) /\ Spaces(c) \in [Ranks -> Nat]
    <3>1. \A r \in Ranks : spaceLeft(c, r) = Capacity[c] - localNum[c][r]
      BY <2>1 DEF spaceLeft, Store, StorageNeverResized
    <3>2. Spaces(c) \in [Ranks -> Nat]
      BY <1>0, <2>1, <2>2, Shares
    <3> QED BY <3>1, <3>2 DEF Spaces
  <2>4. shared(due(s), c) = smaller(due(s), sumBelow(left)[NumRanks])
    BY <1>0, <2>1, <2>2, <2>3, SharedIsExact
  <2>5. sumBelow(left)[NumRanks] \in Nat
    BY <2>3, SumGrows
  <2>6. failure' = "full" => due(s) > sumBelow(left)[NumRanks]
    <3> HIDE DEF left
    <3> QED BY <2>1, <2>2, <2>4, <2>5 DEF smaller
  <2>7. due(s)' = due(s)
    BY <2>1 DEF due
  <2>8. FullMeansFull'
    BY <2>1, <2>6, <2>7 DEF FullMeansFull
  <2> QED BY <2>1, <2>8 DEF Store, StorageNeverResized
<1>9. ASSUME NEW s \in Sources, EmitProfile(s) PROVE Store'
  <2>1. PICK n \in IF time - T0[s] < Window[s] THEN 0 .. TotalN[s] ELSE {0} : create(Feeds[s], n)
    BY <1>9, Zenon DEF EmitProfile
  <2>2. Feeds[s] \in Containers /\ n \in Nat /\ failure' = "none"
    BY <1>9, <2>1 DEF EmitProfile, mayEmit, Running
  <2> QED BY <1>2, <2>1, <2>2
<1>10. ASSUME NEW s \in Sources, SkipFrozen(s) PROVE Store'
  BY <1>1, <1>10 DEF SkipFrozen, sources, Running
<1>11. CASE UNCHANGED vars
  <2>1. UNCHANGED <<time, dt, turn, next, localNum, failure>>
    BY <1>11 DEF vars, sources
  <2> QED BY <2>1 DEF Store, StorageNeverResized, FullMeansFull, due
<1> QED BY <1>3, <1>4, <1>5, <1>6, <1>7, <1>8, <1>9, <1>10, <1>11 DEF Next

\* No rank is ever given more than it has storage for, and the run ends for lack of
\* storage only if that of all ranks together is too little: computeLocalEmitCount
\* finds the space on whatever rank it is.
THEOREM StorageSafe == Spec => []StorageRespected
<1>1. Init => Store
  BY DEF Init, Store, StorageNeverResized, FullMeansFull
<1>2. Spec => []Store
  BY <1>1, NextStore, TypesInvariant, PTL DEF Spec
<1>3. TypeOK /\ Store => StorageRespected
  BY DEF Store, StorageRespected
<1> QED BY <1>2, <1>3, EmissionTypeCorrect, PTL

-----------------------------------------------------------------------------
(* The steps of the births.                                                 *)

\* A record is never emitted in a step before or after the one it is born in: what
\* emitParticles takes after the cursor is due at the end of the step, and the check of
\* the first record covers the others, which are born later.
THEOREM BirthsInTime == Spec => BornInTheirStep
<1>1. ASSUME Types, [Next]_vars, NEW s \in Inventory, NEW k \in next[s] + 1 .. next'[s]
      PROVE  time <= birthTimes[s][k] /\ birthTimes[s][k] <= time + dt
  <2> DEFINE L == Len(birthTimes[s])
  <2>1. /\ next[s] \in Nat /\ next[s] \in 0 .. L /\ time + dt \in Int
        /\ time \in Int /\ L \in Nat /\ next \in [Inventory -> Nat]
    BY <1>1, BirthTimes DEF Types
  <2>2. next'[s] # next[s]
    BY <1>1, <2>1
  <2>3. EmitInventory(s)
    <3>1. ASSUME NEW q \in Sources, EmitInventory(q), q # s PROVE next'[s] = next[s]
      <4>1. next' = [next EXCEPT ![q] = next[q] + due(q)] /\ q \in Inventory
        BY <3>1, Zenon DEF EmitInventory
      <4> QED BY <2>1, <3>1, <4>1
    <3>2. ASSUME UNCHANGED next PROVE FALSE
      BY <2>2, <3>2
    <3>3. ~ BeginStep /\ ~ FinishStep /\ ~ NextSegment /\ ~ Redistribute
      BY <3>2 DEF BeginStep, FinishStep, NextSegment, Redistribute, sources
    <3>4. \A q \in Sources : ~ EmitFails(q) /\ ~ EmitProfile(q) /\ ~ SkipFrozen(q)
      BY <3>2 DEF EmitFails, EmitProfile, SkipFrozen, sources
    <3>5. ~ UNCHANGED vars
      BY <3>2 DEF vars, sources
    <3> QED BY <1>1, <2>2, <3>1, <3>3, <3>4, <3>5 DEF Next
  <2>4. next'[s] = next[s] + due(s) /\ ~ overdue(s)
    BY <2>1, <2>3 DEF EmitInventory
  <2>5. /\ due(s) \in Nat /\ next[s] + due(s) \in next[s] .. L
        /\ \A i \in next[s] + 1 .. L : birthTimes[s][i] <= time + dt <=> i <= next[s] + due(s)
    BY <2>1, Due
  <2>6. /\ k \in next[s] + 1 .. L /\ k <= next[s] + due(s) /\ due(s) > 0
        /\ next[s] + 1 \in 1 .. L /\ k \in 1 .. L /\ next[s] + 1 <= k
    <3> DEFINE d == due(s)
               a == next[s]
    <3>1. d \in Nat /\ a \in Nat /\ L \in Nat /\ a + d <= L /\ k \in a + 1 .. a + d
      BY <1>1, <2>1, <2>4, <2>5
    <3> HIDE DEF d, a, L
    <3>2. k \in a + 1 .. L /\ k <= a + d /\ d > 0 /\ a + 1 \in 1 .. L /\ k \in 1 .. L /\ a + 1 <= k
      BY <3>1
    <3> QED BY <3>2 DEF d, a
  <2>7. /\ DOMAIN birthTimes[s] = 1 .. L /\ birthTimes[s][next[s] + 1] <= birthTimes[s][k]
        /\ birthTimes[s][k] \in Int /\ birthTimes[s][next[s] + 1] \in Int
    BY <2>6, BirthTimes
  <2>8. ~ (birthTimes[s][next[s] + 1] < time)
    BY <2>4, <2>6, <2>7 DEF overdue
  <2>9. birthTimes[s][k] <= time + dt
    BY <2>5, <2>6
  <2>10. time \in Int
    BY <2>1
  <2> DEFINE x == birthTimes[s][next[s] + 1]
             y == birthTimes[s][k]
  <2>11. x <= y /\ x \in Int /\ y \in Int /\ ~ (x < time)
    BY <2>7, <2>8
  <2> HIDE DEF x, y
  <2>12. time <= y
    BY <2>10, <2>11
  <2> QED BY <2>9, <2>12 DEF y
<1>2. Types /\ [Next]_vars
      => [\A s \in Inventory : \A k \in next[s] + 1 .. next'[s] :
             time <= birthTimes[s][k] /\ birthTimes[s][k] <= time + dt]_vars
  BY <1>1
<1> QED BY <1>2, TypesInvariant, PTL DEF Spec, BornInTheirStep

\* The hypothesis of the results below: the inventories of the run ask for the same
\* emission step, or none asks for one. Without it they are false: the clock advances
\* by a step selected after emission (run EmissionTwoSources).
SameEmissionStep ==
    \A s, q \in Inventory : getEmissionTimeStep(s) = getEmissionTimeStep(q)

\* With it the step selected does not depend on which of them are unfinished.
LEMMA SameStep ==
    ASSUME SameEmissionStep, NEW c1, NEW c2, Pending(c1) # {}, Pending(c2) # {}
    PROVE  selectDT(c1) = selectDT(c2)
<1> DEFINE E(c) == {getEmissionTimeStep(s) : s \in Pending(c)}
<1>1. Pending(c1) \subseteq Inventory /\ Pending(c2) \subseteq Inventory
  BY DEF Pending
<1>2. E(c1) = E(c2)
  <2>1. PICK s \in Pending(c1), q \in Pending(c2) : TRUE
    OBVIOUS
  <2>2. E(c1) = {getEmissionTimeStep(s)}
    BY <1>1, <2>1 DEF SameEmissionStep
  <2>3. E(c2) = {getEmissionTimeStep(q)}
    BY <1>1, <2>1 DEF SameEmissionStep
  <2> QED BY <1>1, <2>1, <2>2, <2>3 DEF SameEmissionStep
<1> QED BY <1>2 DEF selectDT

\* The next birth of a source.
birth(s) == birthTimes[s][next[s] + 1]

\* Between steps nothing born before now is left; within a step, nothing born in it is
\* left of the sources that were asked, nothing born before it of the others, and the
\* clock will advance by the time step that emission has used.
Schedule ==
    /\ turn > 0 /\ Pending(next) # {} => dt = selectDT(next)
    /\ ~heldBack =>
          \A s \in Pending(next) :
             /\ s >= turn => birth(s) >= time
             /\ s < turn /\ Feeds[s] \notin frozen => birth(s) > time + dt

\* A record after the cursor has a birth time.
LEMMA BirthType ==
    ASSUME Types, NEW s \in Pending(next)
    PROVE  /\ s \in Inventory /\ s \in Int /\ s > 0 /\ s <= NumSources
           /\ next[s] \in Nat /\ next[s] + 1 \in 1 .. Len(birthTimes[s])
           /\ birth(s) \in Int /\ birth(s) >= startTime
<1>1. s \in Inventory /\ next[s] < Len(birthTimes[s])
  BY DEF Pending
<1>2. next[s] \in Nat /\ Len(birthTimes[s]) \in Nat
  BY <1>1, BirthTimes DEF Types
<1>3. next[s] + 1 \in 1 .. Len(birthTimes[s])
  BY <1>1, <1>2
<1>4. s \in Int /\ s > 0 /\ s <= NumSources
  BY <1>1 DEF Inventory, Sources
<1> QED BY <1>1, <1>2, <1>3, <1>4, BirthTimes DEF birth

\* Every step keeps the schedule.
LEMMA NextSchedule ==
    ASSUME SameEmissionStep
    PROVE  Types /\ Schedule /\ [Next]_vars => Schedule'
<1> SUFFICES ASSUME Types, Schedule, [Next]_vars PROVE Schedule'
  OBVIOUS
<1>0. /\ time \in Int /\ dt \in Nat \ {0} /\ dtTrack \in TrackDts /\ turn \in 0 .. NumSources + 1
      /\ heldBack \in BOOLEAN /\ NumSources \in Nat
  BY DEF Types
<1>1. ASSUME UNCHANGED <<time, dtTrack, dt, turn, frozen, next, heldBack>> PROVE Schedule'
  BY <1>1 DEF Schedule, Pending, birth, selectDT
<1>2. CASE BeginStep
  <2>1. /\ dt' = selectDT(next) /\ turn' = 1 /\ turn = 0
        /\ UNCHANGED <<time, dtTrack, frozen, next, heldBack>>
    BY <1>2 DEF BeginStep, sources
  <2>2. selectDT(next)' = selectDT(next) /\ Pending(next)' = Pending(next)
    BY <2>1 DEF selectDT, Pending
  <2>3. ASSUME ~heldBack', NEW s \in Pending(next)'
        PROVE  birth(s)' >= time' /\ ~ (s < turn')
    <3>1. s \in Pending(next) /\ s \in Int /\ s > 0
      BY <2>2, <2>3, BirthType
    <3>2. birth(s) >= time
      BY <2>1, <2>3, <3>1 DEF Schedule
    <3> QED BY <2>1, <3>1, <3>2 DEF birth
  <2> QED BY <2>1, <2>2, <2>3 DEF Schedule
<1>3. CASE FinishStep
  <2>1. /\ turn = NumSources + 1 /\ turn' = 0 /\ time' = time + selectDT(next)
        /\ frozen \subseteq frozen'
        /\ heldBack' = (heldBack \/ \E s \in Pending(next) : Feeds[s] \in frozen')
        /\ UNCHANGED <<dtTrack, dt, next>>
    BY <1>3 DEF FinishStep, sources
  <2>2. Pending(next)' = Pending(next)
    BY <2>1 DEF Pending
  <2>3. ASSUME ~heldBack', NEW s \in Pending(next)
        PROVE  birth(s)' >= time' /\ ~ (s < turn')
    <3>1. s \in Int /\ s > 0 /\ s <= NumSources /\ birth(s) \in Int
      BY BirthType
    <3>2. ~heldBack /\ Feeds[s] \notin frozen
      BY <2>1, <2>3
    <3>3. birth(s) > time + dt
      BY <1>0, <2>1, <3>1, <3>2 DEF Schedule
    <3>4. dt = selectDT(next)
      BY <1>0, <2>1 DEF Schedule
    <3>5. birth(s)' = birth(s)
      BY <2>1 DEF birth
    <3> QED BY <1>0, <2>1, <3>1, <3>3, <3>4, <3>5
  <2> QED BY <2>1, <2>2, <2>3 DEF Schedule
<1>4. CASE NextSegment
  <2>1. turn = 0 /\ UNCHANGED <<time, dt, turn, next, heldBack>>
    BY <1>4 DEF NextSegment, sources
  <2>2. Pending(next)' = Pending(next)
    BY <2>1 DEF Pending
  <2>3. ASSUME ~heldBack', NEW s \in Pending(next)
        PROVE  birth(s)' >= time' /\ ~ (s < turn')
    <3>1. s \in Int /\ s > 0
      BY BirthType
    <3>2. birth(s) >= time
      BY <2>1, <2>3, <3>1 DEF Schedule
    <3> QED BY <2>1, <3>1, <3>2 DEF birth
  <2> QED BY <2>1, <2>2, <2>3 DEF Schedule
<1>5. CASE Redistribute
  BY <1>1, <1>5 DEF Redistribute
<1>6. ASSUME NEW q \in Sources, EmitInventory(q) PROVE Schedule'
  <2> DEFINE L == Len(birthTimes[q])
  <2>1. /\ q \in Inventory /\ turn = q /\ turn' = q + 1 /\ q \in Int /\ q > 0
        /\ next' = [next EXCEPT ![q] = next[q] + due(q)]
        /\ UNCHANGED <<time, dtTrack, dt, frozen, heldBack>>
    BY <1>6 DEF EmitInventory, mayEmit, Sources
  <2>2. /\ next \in [Inventory -> Nat] /\ next[q] \in 0 .. L /\ time + dt \in Int /\ L \in Nat
    BY <2>1, BirthTimes DEF Types
  <2>3. /\ due(q) \in Nat /\ next[q] + due(q) \in next[q] .. L
        /\ \A k \in next[q] + 1 .. L : birthTimes[q][k] <= time + dt <=> k <= next[q] + due(q)
    BY <2>1, <2>2, Due
  <2>4. \A s \in Inventory \ {q} : next'[s] = next[s] /\ birth(s)' = birth(s)
    BY <2>1, <2>2 DEF birth
  <2>5. next'[q] = next[q] + due(q)
    BY <2>1, <2>2
  <2>6. \A s \in Pending(next)' : s \in Pending(next)
    <3> SUFFICES ASSUME NEW s \in Inventory, next'[s] < Len(birthTimes[s])
                 PROVE  next[s] < Len(birthTimes[s])
      BY <2>1 DEF Pending
    <3>1. CASE s = q
      BY <2>2, <2>3, <2>5, <3>1
    <3>2. CASE s # q
      BY <2>4, <3>2
    <3> QED BY <3>1, <3>2
  <2>7. ASSUME Pending(next)' # {} PROVE dt' = selectDT(next)'
    <3>1. Pending(next) # {} /\ Pending(next') # {}
      BY <2>6, <2>7 DEF Pending
    <3>2. dt = selectDT(next)
      BY <2>1, <3>1 DEF Schedule
    <3>3. selectDT(next') = selectDT(next)
      BY <3>1, SameStep
    <3>4. selectDT(next)' = selectDT(next')
      BY <2>1 DEF selectDT, Pending
    <3> QED BY <2>1, <3>2, <3>3, <3>4
  <2>8. ASSUME ~heldBack', NEW s \in Pending(next)'
        PROVE  /\ s >= turn' => birth(s)' >= time'
               /\ s < turn' /\ Feeds[s] \notin frozen' => birth(s)' > time' + dt'
    <3>1. s \in Pending(next) /\ s \in Inventory /\ s \in Int
      BY <2>6, <2>8, BirthType
    <3>2. CASE s = q
      <4>1. next[q] + due(q) + 1 \in next[q] + 1 .. L /\ ~ (next[q] + due(q) + 1 <= next[q] + due(q))
        <5>1. next'[q] < L
          BY <2>8, <3>2 DEF Pending
        <5> DEFINE m == next[q] + due(q)
        <5>2. m \in Nat /\ next[q] \in Nat /\ next[q] <= m /\ m < L
          BY <2>2, <2>3, <2>5, <5>1
        <5> HIDE DEF m
        <5>3. m + 1 \in next[q] + 1 .. L /\ ~ (m + 1 <= m)
          BY <2>2, <5>2
        <5> QED BY <5>3 DEF m
      <4>2. birthTimes[q][next[q] + due(q) + 1] > time + dt
        <5>1. next[q] + due(q) + 1 \in 1 .. L
          BY <2>2, <4>1
        <5>2. birthTimes[q][next[q] + due(q) + 1] \in Int
          BY <2>1, <5>1, BirthTimes
        <5>3. ~ (birthTimes[q][next[q] + due(q) + 1] <= time + dt)
          BY <2>3, <4>1
        <5> QED BY <2>2, <5>2, <5>3
      <4>3. birth(q)' = birthTimes[q][next[q] + due(q) + 1]
        BY <2>5 DEF birth
      <4> QED BY <2>1, <3>2, <4>2, <4>3
    <3>3. CASE s # q
      <4>1. birth(s)' = birth(s)
        BY <2>4, <3>1, <3>3
      <4>2. /\ s >= turn => birth(s) >= time
            /\ s < turn /\ Feeds[s] \notin frozen => birth(s) > time + dt
        BY <2>1, <2>8, <3>1 DEF Schedule
      <4>3. (s >= turn' => s >= turn) /\ (s < turn' => s < turn)
        BY <2>1, <3>1, <3>3
      <4> QED BY <2>1, <4>1, <4>2, <4>3
    <3> QED BY <3>2, <3>3
  <2> QED BY <2>7, <2>8 DEF Schedule
<1>7. ASSUME NEW q \in Sources, EmitFails(q) PROVE Schedule'
  BY <1>1, <1>7 DEF EmitFails, sources
<1>8. ASSUME NEW q \in Sources, q \in Profiled \/ Feeds[q] \in frozen, turn = q, turn' = q + 1,
             UNCHANGED <<time, dtTrack, dt, frozen, next, heldBack>>
      PROVE  Schedule'
  <2>1. q \in Int /\ q > 0 /\ Pending(next)' = Pending(next) /\ selectDT(next)' = selectDT(next)
    BY <1>8 DEF Sources, Pending, selectDT
  <2>2. ASSUME ~heldBack', NEW s \in Pending(next)
        PROVE  /\ s >= turn' => birth(s)' >= time'
               /\ s < turn' /\ Feeds[s] \notin frozen' => birth(s)' > time' + dt'
    <3>1. s \in Inventory /\ s \in Int
      BY BirthType
    <3>2. birth(s)' = birth(s)
      BY <1>8 DEF birth
    <3>3. s = q => Feeds[s] \in frozen
      BY <1>8, <3>1 DEF Inventory
    <3>4. /\ s >= turn => birth(s) >= time
          /\ s < turn /\ Feeds[s] \notin frozen => birth(s) > time + dt
      BY <1>8, <2>2 DEF Schedule
    <3>5. (s >= turn' => s >= turn) /\ (s < turn' => s < turn \/ s = q)
      BY <1>8, <2>1, <3>1
    <3> QED BY <1>8, <3>2, <3>3, <3>4, <3>5
  <2> QED BY <1>8, <2>1, <2>2 DEF Schedule
<1>9. ASSUME NEW q \in Sources, EmitProfile(q) PROVE Schedule'
  BY <1>8, <1>9 DEF EmitProfile, mayEmit
<1>10. ASSUME NEW q \in Sources, SkipFrozen(q) PROVE Schedule'
  BY <1>8, <1>10 DEF SkipFrozen, sources
<1>11. CASE UNCHANGED vars
  BY <1>1, <1>11 DEF vars, sources
<1> QED BY <1>2, <1>3, <1>4, <1>5, <1>6, <1>7, <1>9, <1>10, <1>11 DEF Next

\* The schedule holds from the start: the shift of the clock is enough.
LEMMA InitSchedule == Init => Schedule
<1> SUFFICES ASSUME Init PROVE Schedule
  OBVIOUS
<1>1. turn = 0 /\ time = startTime
  BY DEF Init
<1>2. \A s \in Pending(next) : birth(s) >= time /\ ~ (s < turn)
  BY <1>1, InitTypes, BirthType
<1> QED BY <1>1, <1>2 DEF Schedule

\* A step emits all records born in it: between two steps nothing born before now is
\* left, unless a container was frozen with births to come.
THEOREM StepsEmitTheirBirths ==
    ASSUME SameEmissionStep
    PROVE  Spec => []StepEmitsItsBirths
<1>1. Types /\ Schedule => StepEmitsItsBirths
  <2> SUFFICES ASSUME Types, Schedule, turn = 0, ~heldBack, NEW s \in Pending(next)
               PROVE  birthTimes[s][next[s] + 1] >= time
    BY DEF StepEmitsItsBirths
  <2>1. s \in Int /\ s > 0
    BY BirthType
  <2> QED BY <2>1 DEF Schedule, birth
<1> QED BY <1>1, InitSchedule, NextSchedule, TypesInvariant, PTL DEF Spec

\* The exception for overdue records ends a run only after a container was frozen with
\* births to come.
OverdueOnlyIfHeldBack == failure = "overdue" => heldBack

\* emitParticles never throws for a record of an earlier step as long as no container
\* was frozen with births to come, whatever the segments and their time steps are.
THEOREM NothingOverdue ==
    ASSUME SameEmissionStep
    PROVE  Spec => []OverdueOnlyIfHeldBack
<1>1. Init => OverdueOnlyIfHeldBack
  BY DEF Init, OverdueOnlyIfHeldBack
<1>2. Types /\ Schedule /\ OverdueOnlyIfHeldBack /\ [Next]_vars => OverdueOnlyIfHeldBack'
  <2> SUFFICES ASSUME Types, Schedule, OverdueOnlyIfHeldBack, [Next]_vars
               PROVE  OverdueOnlyIfHeldBack'
    OBVIOUS
  <2>1. ASSUME NEW s \in Sources, EmitFails(s) PROVE OverdueOnlyIfHeldBack'
    <3> SUFFICES ASSUME failure' = "overdue", ~heldBack PROVE FALSE
      BY <2>1 DEF EmitFails, OverdueOnlyIfHeldBack
    <3>1. s \in Inventory /\ turn = s /\ overdue(s) /\ s \in Int
      BY <2>1 DEF EmitFails, mayEmit, Sources
    <3>2. PICK k \in DOMAIN birthTimes[s] : k = next[s] + 1 /\ birthTimes[s][k] < time
      BY <3>1 DEF overdue
    <3>3. k \in 1 .. Len(birthTimes[s]) /\ Len(birthTimes[s]) \in Nat /\ next[s] \in Nat
      BY <3>1, <3>2, BirthTimes DEF Types
    <3>4. s \in Pending(next)
      BY <3>1, <3>2, <3>3 DEF Pending
    <3>5. birth(s) >= time
      BY <3>1, <3>4 DEF Schedule
    <3>6. birth(s) \in Int /\ time \in Int
      BY <3>4, BirthType DEF Types
    <3> QED BY <3>2, <3>5, <3>6 DEF birth
  <2>2. ASSUME UNCHANGED failure, heldBack => heldBack' PROVE OverdueOnlyIfHeldBack'
    BY <2>2 DEF OverdueOnlyIfHeldBack
  <2>3. CASE BeginStep
    BY <2>2, <2>3 DEF BeginStep
  <2>4. CASE FinishStep
    BY <2>2, <2>4 DEF FinishStep
  <2>5. CASE NextSegment
    BY <2>2, <2>5 DEF NextSegment
  <2>6. CASE Redistribute
    BY <2>2, <2>6 DEF Redistribute
  <2>7. ASSUME NEW s \in Sources, EmitInventory(s) PROVE OverdueOnlyIfHeldBack'
    BY <2>2, <2>7 DEF EmitInventory
  <2>8. ASSUME NEW s \in Sources, EmitProfile(s) PROVE OverdueOnlyIfHeldBack'
    BY <2>2, <2>8 DEF EmitProfile
  <2>9. ASSUME NEW s \in Sources, SkipFrozen(s) PROVE OverdueOnlyIfHeldBack'
    BY <2>2, <2>9 DEF SkipFrozen
  <2>10. CASE UNCHANGED vars
    BY <2>2, <2>10 DEF vars
  <2> QED BY <2>1, <2>3, <2>4, <2>5, <2>6, <2>7, <2>8, <2>9, <2>10 DEF Next
<1> QED BY <1>1, <1>2, InitSchedule, NextSchedule, TypesInvariant, PTL DEF Spec

=============================================================================
