------------------------- MODULE MonitorFiles_proofs -------------------------
(* MonitorFiles for any ring, bunch, number of ranks, checkpoint frequency     *)
(* and number of jobs: the loss file is always in an order that a restart      *)
(* accepts, that of a temporal monitor has one set for every passage, and a    *)
(* spatial monitor writes every crossing of its job into exactly one set.      *)
EXTENDS MonitorFiles, FiniteSetTheorems, SequenceTheorems, WellFoundedInduction, TLAPS

USE MonitorAssumption

-----------------------------------------------------------------------------
(* Natural numbers and sequences.                                           *)

\* A set of natural numbers has a least element.
LEMMA Least ==
    ASSUME NEW T \in SUBSET Nat, T # {}
    PROVE  \E n \in T : \A m \in T : n <= m
<1>1. \E n \in T : \A m \in T : ~ (<<m, n>> \in OpToRel(<, Nat))
  BY NatLessThanWellFounded, WFMin
<1>2. \E n \in T : \A m \in T : ~ (m < n)
  BY <1>1 DEF OpToRel
<1> QED BY <1>2

\* Induction for a set of natural numbers.
LEMMA Induction ==
    ASSUME NEW T, 0 \in T, \A n \in Nat : n \in T => n + 1 \in T
    PROVE  Nat \subseteq T
<1> SUFFICES ASSUME Nat \ T # {} PROVE FALSE
  OBVIOUS
<1>1. PICK n \in Nat \ T : \A m \in Nat \ T : n <= m
  BY Least
<1>2. n # 0 /\ n - 1 \in Nat
  BY <1>1
<1>3. n - 1 \in T
  BY <1>1, <1>2
<1>4. (n - 1) + 1 \in T
  BY <1>2, <1>3
<1> QED BY <1>1, <1>4

\* A bounded set of natural numbers has a greatest element.
LEMMA Greatest ==
    ASSUME NEW n \in Nat, NEW T \in SUBSET (0 .. n), T # {}
    PROVE  Max(T) \in T /\ \A t \in T : t <= Max(T)
<1> DEFINE U == {n - t : t \in T}
<1>1. U \in SUBSET Nat /\ U # {}
  OBVIOUS
<1>2. PICK u \in U : \A v \in U : u <= v
  BY <1>1, Least
<1>3. n - u \in T /\ \A t \in T : n - u >= t
  BY <1>2
<1>4. \E t \in T : \A s \in T : t >= s
  BY <1>3
<1>5. Max(T) \in T /\ \A t \in T : Max(T) >= t
  BY <1>4 DEF Max
<1> QED BY <1>5

\* A sequence is one of its own elements.
IsSeq(s) == s \in Seq(ToSet(s))

\* What IsSeq asks of a sequence is no more than being one.
LEMMA OwnElements ==
    ASSUME NEW S, NEW s \in Seq(S)
    PROVE  IsSeq(s) /\ ToSet(s) \subseteq S
<1>1. s \in [1 .. Len(s) -> S] /\ Len(s) \in Nat /\ DOMAIN s = 1 .. Len(s)
  BY LenProperties
<1>2. s \in [1 .. Len(s) -> ToSet(s)]
  BY <1>1 DEF ToSet
<1>3. s \in UNION {[1 .. n -> ToSet(s)] : n \in Nat}
  BY <1>1, <1>2
<1> QED BY <1>1, <1>3, SeqDef DEF IsSeq, ToSet

-----------------------------------------------------------------------------
(* The file.                                                                *)

\* A file is a sequence of sets with the steps they were recorded in.
IsFile(f) == IsSeq(f) /\ \A i \in 1 .. Len(f) : f[i].step \in 0 .. Steps - 1

\* A set appended behind all others keeps the file in order.
LEMMA AppendSet ==
    ASSUME NEW f, IsFile(f), monotonic(f), NEW set, set.step \in 0 .. Steps - 1,
           \A i \in 1 .. Len(f) : f[i].step <= set.step
    PROVE  /\ IsFile(Append(f, set)) /\ monotonic(Append(f, set))
           /\ Len(Append(f, set)) = Len(f) + 1
           /\ Append(f, set)[Len(f) + 1] = set
           /\ \A i \in 1 .. Len(f) : Append(f, set)[i] = f[i]
<1> DEFINE S == ToSet(f) \cup {set}
           g == Append(f, set)
<1>1. f \in Seq(S) /\ set \in S
  BY SeqMonotonic DEF IsFile, IsSeq
<1>2. /\ g \in Seq(S) /\ Len(g) = Len(f) + 1 /\ g[Len(f) + 1] = set
      /\ \A i \in 1 .. Len(f) : g[i] = f[i]
  BY <1>1, AppendProperties
<1>3. Len(f) \in Nat /\ DOMAIN f = 1 .. Len(f) /\ DOMAIN g = 1 .. Len(g)
  BY <1>1, <1>2, LenProperties
<1> HIDE DEF g
<1>4. IsFile(g)
  BY <1>2, <1>3, OwnElements DEF IsFile
<1>5. monotonic(g)
  <2> SUFFICES ASSUME NEW i \in 1 .. Len(f) + 1, NEW j \in 1 .. Len(f) + 1, i < j
               PROVE  g[i].step <= g[j].step
    BY <1>2, <1>3 DEF monotonic
  <2>1. i \in 1 .. Len(f)
    BY <1>3
  <2>2. CASE j = Len(f) + 1
    BY <1>2, <2>1, <2>2
  <2>3. CASE j # Len(f) + 1
    <3>1. j \in 1 .. Len(f)
      BY <1>3, <2>3
    <3> QED BY <1>2, <1>3, <2>1, <3>1 DEF monotonic
  <2> QED BY <2>2, <2>3
<1> QED BY <1>2, <1>4, <1>5 DEF g

\* The cut keeps exactly the sets of steps before s.
LEMMA KeptSets ==
    ASSUME NEW f, IsFile(f), monotonic(f), NEW s \in Int
    PROVE  /\ IsFile(keptSets(f, s)) /\ monotonic(keptSets(f, s))
           /\ Len(keptSets(f, s)) <= Len(f)
           /\ \A i \in 1 .. Len(keptSets(f, s)) :
                 keptSets(f, s)[i] = f[i] /\ f[i].step < s
           /\ \A i \in 1 .. Len(f) : i > Len(keptSets(f, s)) => f[i].step >= s
<1> DEFINE T == {0} \cup {i \in DOMAIN f : f[i].step < s}
           n == Max(T)
           g == SubSeq(f, 1, n)
<1>1. Len(f) \in Nat /\ DOMAIN f = 1 .. Len(f) /\ f \in [1 .. Len(f) -> ToSet(f)]
  BY LenProperties DEF IsFile, IsSeq
<1>2. T \in SUBSET (0 .. Len(f)) /\ T # {}
  BY <1>1
<1>3. n \in T /\ (\A t \in T : t <= n) /\ n \in 0 .. Len(f)
  <2> HIDE DEF T
  <2> QED BY <1>1, <1>2, Greatest
<1>4. \A i \in 1 .. n : f[i].step < s
  <2> SUFFICES ASSUME NEW i \in 1 .. n PROVE f[i].step < s
    OBVIOUS
  <2>1. n \in 1 .. Len(f) /\ f[n].step < s
    BY <1>1, <1>3
  <2>2. i \in 1 .. Len(f) /\ (i = n \/ i < n)
    BY <1>3
  <2>3. f[i].step <= f[n].step
    BY <1>1, <2>1, <2>2 DEF monotonic, IsFile
  <2> QED BY <2>1, <2>2, <2>3 DEF IsFile
<1>5. \A i \in 1 .. Len(f) : i > n => f[i].step >= s
  <2> SUFFICES ASSUME NEW i \in 1 .. Len(f), i > n PROVE f[i].step >= s
    OBVIOUS
  <2>1. i \notin T
    BY <1>3
  <2>2. ~(f[i].step < s)
    BY <1>1, <2>1
  <2> QED BY <2>2 DEF IsFile
<1> HIDE DEF T, n
<1>6. g \in Seq(ToSet(f)) /\ Len(g) = n /\ \A i \in 1 .. n : g[i] = f[i]
  <2>1. \A i \in 1 .. n : f[i] \in ToSet(f)
    BY <1>1, <1>3
  <2>2. \A i \in 1 .. n - 1 + 1 : g[i] = f[1 + i - 1]
    BY <1>3, <2>1, SubSeqProperties
  <2>3. g \in Seq(ToSet(f)) /\ Len(g) = IF 1 <= n THEN n - 1 + 1 ELSE 0
    BY <1>3, <2>1, SubSeqProperties
  <2> HIDE DEF g
  <2> QED BY <1>3, <2>2, <2>3
<1>7. keptSets(f, s) = g
  BY DEF keptSets, n, T
<1> HIDE DEF g
<1>8. DOMAIN g = 1 .. n
  BY <1>6, LenProperties
<1>9. IsFile(g)
  <2>1. IsSeq(g)
    BY <1>6, OwnElements
  <2>2. \A i \in 1 .. n : f[i].step \in 0 .. Steps - 1
    BY <1>3 DEF IsFile
  <2>3. \A i \in 1 .. n : g[i].step \in 0 .. Steps - 1
    BY <1>6, <2>2, Zenon
  <2> QED BY <1>6, <2>1, <2>3, Zenon DEF IsFile
<1>10. monotonic(g)
  <2> SUFFICES ASSUME NEW i \in 1 .. n, NEW j \in 1 .. n, i < j
               PROVE  g[i].step <= g[j].step
    BY <1>8 DEF monotonic
  <2>1. i \in 1 .. Len(f) /\ j \in 1 .. Len(f)
    BY <1>3
  <2> QED BY <1>1, <1>6, <2>1 DEF monotonic
<1> QED BY <1>1, <1>3, <1>4, <1>5, <1>6, <1>7, <1>9, <1>10

\* Two files, the second of which starts no earlier than the first ends.
LEMMA ConcatFiles ==
    ASSUME NEW f, IsFile(f), NEW g, IsFile(g)
    PROVE  /\ IsFile(f \o g)
           /\ /\ monotonic(f) /\ monotonic(g)
              /\ \A i \in 1 .. Len(f), j \in 1 .. Len(g) : f[i].step <= g[j].step
              => monotonic(f \o g)
<1> DEFINE S == ToSet(f) \cup ToSet(g)
           h == f \o g
<1>1. f \in Seq(S) /\ g \in Seq(S)
  BY SeqMonotonic DEF IsFile, IsSeq
<1>2. /\ h \in Seq(S) /\ Len(h) = Len(f) + Len(g)
      /\ \A i \in 1 .. Len(f) + Len(g) : h[i] = IF i <= Len(f) THEN f[i] ELSE g[i - Len(f)]
  BY <1>1, ConcatProperties
<1>3. /\ Len(f) \in Nat /\ Len(g) \in Nat /\ DOMAIN f = 1 .. Len(f) /\ DOMAIN g = 1 .. Len(g)
      /\ DOMAIN h = 1 .. Len(h)
  BY <1>1, <1>2, LenProperties
<1> HIDE DEF h
<1>4. \A i \in 1 .. Len(h) : \/ i \in 1 .. Len(f) /\ h[i] = f[i]
                             \/ /\ i > Len(f) /\ i - Len(f) \in 1 .. Len(g)
                                /\ h[i] = g[i - Len(f)]
  BY <1>2, <1>3
<1>5. IsFile(h)
  BY <1>2, <1>3, <1>4, OwnElements DEF IsFile
<1>6. ASSUME monotonic(f), monotonic(g),
             \A i \in 1 .. Len(f), j \in 1 .. Len(g) : f[i].step <= g[j].step
      PROVE  monotonic(h)
  <2> SUFFICES ASSUME NEW i \in 1 .. Len(h), NEW j \in 1 .. Len(h), i < j
               PROVE  h[i].step <= h[j].step
    BY <1>3 DEF monotonic
  <2>1. CASE j \in 1 .. Len(f)
    <3>1. i \in 1 .. Len(f) /\ h[i] = f[i] /\ h[j] = f[j]
      BY <1>3, <1>4, <2>1
    <3>2. i \in DOMAIN f /\ j \in DOMAIN f
      BY <1>3, <2>1, <3>1
    <3>3. f[i].step <= f[j].step
      BY <1>3, <1>6, <3>2 DEF monotonic
    <3> QED BY <3>1, <3>3, Zenon
  <2>2. CASE j \notin 1 .. Len(f)
    <3>1. j - Len(f) \in 1 .. Len(g) /\ h[j] = g[j - Len(f)]
      BY <1>4, <2>2
    <3>2. CASE i \in 1 .. Len(f)
      <4>1. h[i] = f[i]
        BY <1>3, <1>4, <3>2
      <4>2. f[i].step <= g[j - Len(f)].step
        BY <1>6, <3>1, <3>2
      <4> QED BY <3>1, <4>1, <4>2, Zenon
    <3>3. CASE i \notin 1 .. Len(f)
      <4>1. i - Len(f) \in 1 .. Len(g) /\ h[i] = g[i - Len(f)] /\ i - Len(f) < j - Len(f)
        BY <1>3, <1>4, <3>3
      <4>2. i - Len(f) \in DOMAIN g /\ j - Len(f) \in DOMAIN g
        BY <1>3, <3>1, <4>1
      <4>3. g[i - Len(f)].step <= g[j - Len(f)].step
        BY <1>6, <4>1, <4>2, Zenon DEF monotonic
      <4> QED BY <3>1, <4>1, <4>3, Zenon
    <3> QED BY <3>2, <3>3
  <2> QED BY <2>1, <2>2
<1> QED BY <1>5, <1>6 DEF h

\* saveH5 for one set after the other: the recursion in savedSets is well defined.
LEMMA SavedRecursion ==
    ASSUME NEW n \in Nat
    PROVE  \E g :
              /\ savedSets(n) = g[n]
              /\ g[0] = <<>>
              /\ \A j \in 1 .. n : g[j] = IF setOf(splitSets(n), j).hits = {} THEN g[j - 1]
                                          ELSE Append(g[j - 1], setOf(splitSets(n), j))
<1> DEFINE starts == splitSets(n)
           Next1(f, j) == IF setOf(starts, j).hits = {} THEN f ELSE Append(f, setOf(starts, j))
           Saved(g, m) == [j \in 0 .. m |->
                              IF j = 0 THEN <<>>
                              ELSE IF setOf(starts, j).hits = {} THEN g[j - 1]
                              ELSE Append(g[j - 1], setOf(starts, j))]
           Rec(g, m) == [j \in 0 .. m |-> IF j = 0 THEN <<>> ELSE Next1(g[j - 1], j)]
           Defined == {m \in Nat : \E g : g = Rec(g, m)}
<1>1. \A g, m : Saved(g, m) = Rec(g, m)
  OBVIOUS
<1>2. savedSets(n) = (CHOOSE h : h = Saved(h, n))[n]
  BY DEF savedSets
<1> HIDE DEF Next1, Saved
<1>3. Nat \subseteq Defined
  <2>1. 0 \in Defined
    <3>1. [j \in 0 .. 0 |-> <<>>] = Rec([j \in 0 .. 0 |-> <<>>], 0)
      OBVIOUS
    <3> QED BY <3>1
  <2>2. ASSUME NEW m \in Nat, m \in Defined PROVE m + 1 \in Defined
    <3>1. PICK g : g = Rec(g, m)
      BY <2>2
    <3> DEFINE h == [j \in 0 .. m + 1 |-> IF j <= m THEN g[j] ELSE Next1(g[m], m + 1)]
    <3>2. \A j \in 0 .. m : h[j] = g[j]
      OBVIOUS
    <3>3. \A j \in 0 .. m : g[j] = IF j = 0 THEN <<>> ELSE Next1(g[j - 1], j)
      BY <3>1
    <3>4. h[m + 1] = Next1(g[m], m + 1)
      OBVIOUS
    <3>5. \A j \in 0 .. m + 1 : h[j] = IF j = 0 THEN <<>> ELSE Next1(h[j - 1], j)
      <4> SUFFICES ASSUME NEW j \in 0 .. m + 1
                   PROVE  h[j] = IF j = 0 THEN <<>> ELSE Next1(h[j - 1], j)
        OBVIOUS
      <4> HIDE DEF h
      <4>1. CASE j = m + 1
        <5>1. j # 0 /\ j - 1 = m /\ m \in 0 .. m
          BY <4>1
        <5> QED BY <3>2, <3>4, <4>1, <5>1
      <4>2. CASE j = 0
        <5>1. 0 \in 0 .. m
          OBVIOUS
        <5> QED BY <3>2, <3>3, <4>2, <5>1
      <4>3. CASE j \in 1 .. m
        <5>1. j \in 0 .. m /\ j - 1 \in 0 .. m /\ j # 0
          BY <4>3
        <5> QED BY <3>2, <3>3, <5>1
      <4> QED BY <4>1, <4>2, <4>3
    <3>6. h = Rec(h, m + 1)
      BY <3>5
    <3> HIDE DEF h, Rec
    <3>7. \E f : f = Rec(f, m + 1)
      BY <3>6
    <3> QED BY <3>7
  <2> HIDE DEF Defined
  <2> QED BY <2>1, <2>2, Induction
<1>4. \E g : g = Saved(g, n)
  BY <1>1, <1>3
<1>5. PICK g : g = Saved(g, n) /\ savedSets(n) = g[n]
  BY <1>2, <1>4
<1>6. g = Rec(g, n)
  BY <1>1, <1>5
<1>7. g[0] = <<>> /\ \A j \in 1 .. n : g[j] = Next1(g[j - 1], j)
  BY <1>6
<1> USE DEF Next1
<1> HIDE DEF starts
<1>8. \E h : /\ savedSets(n) = h[n] /\ h[0] = <<>>
             /\ \A j \in 1 .. n : h[j] = IF setOf(starts, j).hits = {} THEN h[j - 1]
                                         ELSE Append(h[j - 1], setOf(starts, j))
  BY <1>5, <1>7
<1> QED BY <1>8 DEF starts

\* A file written from the records of the first m passages.
FromPassages(f, m) ==
    /\ IsFile(f) /\ monotonic(f)
    /\ \A i \in 1 .. Len(f) : \E j \in 1 .. m : f[i].step = references[j]

\* One more passage.
LEMMA NextPassage ==
    ASSUME references \in Seq(0 .. Steps - 1),
           \A i, j \in DOMAIN references : i < j => references[i] <= references[j],
           NEW m \in Nat, m + 1 <= Len(references),
           NEW f, FromPassages(f, m), NEW set, set.step = references[m + 1]
    PROVE  FromPassages(f, m + 1) /\ FromPassages(Append(f, set), m + 1)
<1>1. /\ Len(references) \in Nat /\ DOMAIN references = 1 .. Len(references)
      /\ m + 1 \in DOMAIN references /\ references[m + 1] \in 0 .. Steps - 1
      /\ m + 1 \in 1 .. m + 1
  BY LenProperties, ElementOfSeq
<1>2. \A j \in 1 .. m : j \in 1 .. m + 1 /\ j \in DOMAIN references /\ j < m + 1
  BY <1>1
<1>3. \A i \in 1 .. Len(f) : f[i].step <= set.step
  BY <1>1, <1>2 DEF FromPassages
<1>4. /\ IsFile(Append(f, set)) /\ monotonic(Append(f, set))
      /\ Len(Append(f, set)) = Len(f) + 1
      /\ Append(f, set)[Len(f) + 1] = set
      /\ \A i \in 1 .. Len(f) : Append(f, set)[i] = f[i]
  BY <1>1, <1>3, AppendSet DEF FromPassages
<1>5. Len(f) \in Nat
  BY LenProperties DEF FromPassages, IsFile, IsSeq
<1>6. FromPassages(f, m + 1)
  BY <1>2 DEF FromPassages
<1>7. ASSUME NEW i \in 1 .. Len(f) + 1
      PROVE  \E j \in 1 .. m + 1 : Append(f, set)[i].step = references[j]
  <2>1. CASE i = Len(f) + 1
    <3>1. Append(f, set)[i].step = references[m + 1]
      BY <1>4, <2>1
    <3> WITNESS m + 1 \in 1 .. m + 1
    <3> QED BY <3>1
  <2>2. CASE i \in 1 .. Len(f)
    <3>1. Append(f, set)[i] = f[i]
      BY <1>4, <2>2
    <3>2. PICK j \in 1 .. m + 1 : f[i].step = references[j]
      BY <1>6, <2>2 DEF FromPassages
    <3> QED BY <3>1, <3>2
  <2>3. i = Len(f) + 1 \/ i \in 1 .. Len(f)
    BY <1>5
  <2> QED BY <2>1, <2>2, <2>3, Zenon
<1> QED BY <1>4, <1>6, <1>7 DEF FromPassages

\* What is written at the end of a run: the sets of the passages in their order,
\* without the empty ones.
LEMMA SavedSets ==
    ASSUME references \in Seq(0 .. Steps - 1),
           \A i, j \in DOMAIN references : i < j => references[i] <= references[j],
           NEW n \in Nat, n <= Len(references)
    PROVE  FromPassages(savedSets(n), n)
<1>0. Len(references) \in Nat
  BY LenProperties
<1>1. PICK g :
          /\ savedSets(n) = g[n]
          /\ g[0] = <<>>
          /\ \A j \in 1 .. n : g[j] = IF setOf(splitSets(n), j).hits = {} THEN g[j - 1]
                                      ELSE Append(g[j - 1], setOf(splitSets(n), j))
  BY SavedRecursion
<1> DEFINE InOrder == {m \in Nat : m <= n => FromPassages(g[m], m)}
<1>2. 0 \in InOrder
  <2>1. IsFile(<<>>) /\ monotonic(<<>>) /\ Len(<<>>) = 0
    BY EmptySeq DEF IsFile, IsSeq, monotonic
  <2> QED BY <1>1, <2>1 DEF FromPassages
<1>3. ASSUME NEW m \in Nat, m \in InOrder PROVE m + 1 \in InOrder
  <2> SUFFICES ASSUME m + 1 <= n PROVE FromPassages(g[m + 1], m + 1)
    OBVIOUS
  <2>1. FromPassages(g[m], m)
    BY <1>3
  <2>2. setOf(splitSets(n), m + 1).step = references[m + 1]
    BY DEF setOf
  <2>3. m + 1 \in 1 .. n /\ (m + 1) - 1 = m /\ m + 1 <= Len(references)
    BY <1>0
  <2>4. g[m + 1] = g[m] \/ g[m + 1] = Append(g[m], setOf(splitSets(n), m + 1))
    BY <1>1, <2>3
  <2> QED BY <2>1, <2>2, <2>3, <2>4, NextPassage
<1> HIDE DEF InOrder
<1>4. Nat \subseteq InOrder
  BY <1>2, <1>3, Induction
<1> QED BY <1>1, <1>4 DEF InOrder

-----------------------------------------------------------------------------
(* Types.                                                                   *)

Hit == [id : Particles, passage : Int, time : Int]

Checkpoints == [step : 0 .. Steps, alive : SUBSET Particles, passed : Seq(0 .. Steps - 1)]

\* The types behind TypeOK. The records in memory are counted while the job tracks:
\* a temporal monitor keeps one only if it found no particles to save with it.
Types ==
    /\ kind \in {"spatial", "temporal"} /\ offset \in [Particles -> Offsets]
    /\ phase \in {"tracking", "ended", "killed", "refused", "failed"}
    /\ step \in 0 .. Steps /\ alive \subseteq Particles
    /\ particles \in [Ranks -> Seq(Hit)]
    /\ references \in Seq(0 .. Steps - 1) /\ passages \in Nat
    /\ phase = "tracking" => IF kind = "spatial" THEN Len(references) = passages
                             ELSE references # <<>> => alive = {}
    /\ IsFile(file)
    /\ checkpoint \in Checkpoints \cup {NoCheckpoint}
    /\ restarts \in 0 .. MaxRestarts
    /\ passed \in Seq(0 .. Steps - 1)

\* The empty records a job starts with.
LEMMA EmptyRecords ==
    /\ Empty \in [Ranks -> Seq(Hit)]
    /\ <<>> \in Seq(0 .. Steps - 1) /\ Len(<<>>) = 0
    /\ IsFile(<<>>) /\ monotonic(<<>>)
<1>1. \A S : <<>> \in Seq(S)
  BY EmptySeq
<1>2. Len(<<>>) = 0
  BY EmptySeq
<1> QED BY <1>1, <1>2 DEF Empty, IsFile, IsSeq, monotonic

\* A list of a finite set has every element once.
Lists(s, S) ==
    /\ s \in Seq(S) /\ \A x \in S : \E i \in 1 .. Len(s) : s[i] = x
    /\ \A i, k \in 1 .. Len(s) : s[i] = s[k] => i = k

\* A finite set can be listed.
LEMMA Listing ==
    ASSUME NEW S, IsFiniteSet(S)
    PROVE  Lists(SetToSeq(S), S)
<1> DEFINE n == Cardinality(S)
           s == SetToSeq(S)
<1>1. n \in Nat /\ ExistsBijection(1 .. n, S)
  BY FS_CardinalityType
<1>2. \E f \in [1 .. n -> S] : IsInjective(f)
  BY <1>1 DEF ExistsBijection, Bijection, Injection
<1>3. s \in [1 .. n -> S] /\ IsInjective(s)
  BY <1>2 DEF SetToSeq
<1> HIDE DEF s, n
<1>4. s \in UNION {[1 .. m -> S] : m \in Nat}
  BY <1>1, <1>3
<1>5. s \in Seq(S) /\ Len(s) = n
  BY <1>1, <1>3, <1>4, SeqDef, LenProperties
<1>6. s \in Injection(1 .. n, S)
  BY <1>3 DEF Injection
<1>7. IsFiniteSet(1 .. n) /\ Cardinality(1 .. n) = n
  BY <1>1, FS_Interval
<1>8. s \in Surjection(1 .. n, S)
  BY <1>6, <1>7, FS_Injection DEF n
<1>9. \A x \in S : \E i \in 1 .. n : s[i] = x
  BY <1>8 DEF Surjection
<1>10. \A i, k \in 1 .. n : s[i] = s[k] => i = k
  BY <1>3 DEF IsInjective
<1> QED BY <1>5, <1>9, <1>10 DEF Lists, s

\* What a rank records in a step: a hit for every particle that it holds and that
\* crosses, and no other.
LEMMA RecordedHits ==
    ASSUME Types, NEW r, NEW holder
    PROVE  /\ recorded(r, holder) \in Seq(Hit)
           /\ Lists(recorded(r, holder),
                    {[id |-> p, passage |-> passageOf(p), time |-> step]
                        : p \in {q \in crossing : holder[q] = r}})
<1> DEFINE held == {q \in crossing : holder[q] = r}
           hit == [p \in held |-> [id |-> p, passage |-> passageOf(p), time |-> step]]
           hits == {[id |-> p, passage |-> passageOf(p), time |-> step] : p \in held}
<1>1. held \in SUBSET Particles
  BY DEF Types, crossing
<1>2. IsFiniteSet(held)
  BY <1>1, FS_Subset
<1>3. hits \subseteq Hit
  <2> SUFFICES ASSUME NEW p \in held
               PROVE  [id |-> p, passage |-> passageOf(p), time |-> step] \in Hit
    OBVIOUS
  <2>1. p \in Particles
    <3> HIDE DEF held
    <3> QED BY <1>1
  <2>2. step \in Int /\ offset[p] \in Int
    <3>1. step \in 0 .. Steps /\ offset[p] \in Offsets
      BY <2>1 DEF Types
    <3>2. \A k \in 0 .. Steps : k \in Int
      OBVIOUS
    <3> QED BY <3>1, <3>2
  <2>3. passageOf(p) \in Int
    BY <2>2 DEF passageOf
  <2> QED BY <2>1, <2>2, <2>3 DEF Hit
<1>4. hit \in Surjection(held, hits)
  BY DEF Surjection
<1>5. IsFiniteSet(hits)
  <2> HIDE DEF hit, hits, held
  <2> QED BY <1>2, <1>4, FS_Surjection
<1>6. Lists(SetToSeq(hits), hits)
  <2> HIDE DEF hits
  <2> QED BY <1>5, Listing
<1>7. SetToSeq(hits) \in Seq(Hit)
  <2> HIDE DEF hits
  <2> QED BY <1>3, <1>6, SeqMonotonic DEF Lists
<1> QED BY <1>6, <1>7 DEF recorded

\* What a step does, its choices forgotten.
LEMMA TimeStepEffect ==
    ASSUME Types, TimeStep
    PROVE  /\ phase = "tracking" /\ phase' = "tracking" /\ step < Steps /\ step' = step + 1
           /\ step \in 0 .. Steps - 1
           /\ UNCHANGED <<kind, offset, restarts, kept>>
           /\ alive' \subseteq alive
           /\ particles' \in [Ranks -> Seq(Hit)]
           /\ passages' = IF referenceCrosses THEN passages + 1 ELSE passages
           /\ passed' = IF referenceCrosses /\ alive # {} THEN Append(passed, step) ELSE passed
           /\ \E refs : /\ refs = IF referenceCrosses THEN Append(references, step) ELSE references
                        /\ IF kind = "temporal" /\ referenceCrosses /\ alive # {}
                           THEN /\ references' = <<>>
                                /\ \E set : set.step = Head(refs) /\ file' = Append(file, set)
                           ELSE references' = refs /\ file' = file
           /\ \/ checkpoint' = checkpoint
              \/ checkpoint' = [step |-> step', alive |-> alive', passed |-> passed']
<1>1. step \in 0 .. Steps - 1
  BY DEF Types, TimeStep
<1>2. PICK holder \in [crossing -> Ranks], lost \in SUBSET alive :
         LET survivors == alive \ lost
             refs      == IF referenceCrosses THEN Append(references, step) ELSE references
             saves     == kind = "temporal" /\ referenceCrosses /\ alive # {}
             history2  == IF referenceCrosses /\ alive # {} THEN Append(passed, step) ELSE passed
         IN  /\ Cardinality(lost) <= 1
             /\ particles' = IF kind = "spatial" THEN spatialHits(holder) ELSE particles
             /\ references' = cleared(refs, saves)
             /\ passages' = IF referenceCrosses THEN passages + 1 ELSE passages
             /\ file' = IF saves THEN appended(file, temporalSet(refs)) ELSE file
             /\ alive' = survivors
             /\ step' = step + 1
             /\ passed' = history2
             /\ checkpoint' = IF (step + 1) % CheckpointFreq = 0
                              THEN [step |-> step + 1, alive |-> survivors, passed |-> history2]
                              ELSE checkpoint
  BY DEF TimeStep
<1>3. particles' \in [Ranks -> Seq(Hit)]
  <2>1. ASSUME NEW r \in Ranks PROVE particles[r] \o recorded(r, holder) \in Seq(Hit)
    BY RecordedHits, ConcatProperties DEF Types
  <2>2. spatialHits(holder) \in [Ranks -> Seq(Hit)]
    BY <2>1 DEF spatialHits
  <2> QED BY <1>2, <2>2 DEF Types
<1> DEFINE refs == IF referenceCrosses THEN Append(references, step) ELSE references
<1>4. IF kind = "temporal" /\ referenceCrosses /\ alive # {}
      THEN /\ references' = <<>>
           /\ \E set : set.step = Head(refs) /\ file' = Append(file, set)
      ELSE references' = refs /\ file' = file
  <2>1. temporalSet(refs).step = Head(refs)
    BY DEF temporalSet
  <2> QED BY <1>2, <2>1 DEF cleared, appended
<1>5. UNCHANGED <<kind, offset, restarts, kept>> /\ phase = "tracking" /\ phase' = "tracking"
      /\ step < Steps
  BY DEF TimeStep, job
<1> QED BY <1>1, <1>2, <1>3, <1>4, <1>5

\* The constants as numbers.
LEMMA Numbers == Steps \in Nat \ {0} /\ Period \in Nat \ {0} /\ CheckpointFreq \in Nat \ {0}
OBVIOUS

\* While the job tracks, the sets of the file lie before the records in memory, and
\* these before the current step; only the file of a job that tracks grows.
Ordered ==
    /\ phase # "refused"
    /\ monotonic(file)
    /\ phase = "tracking" =>
         /\ \A i \in 1 .. Len(file) : file[i].step < step
         /\ \A j \in 1 .. Len(references) : references[j] < step
         /\ \A i \in 1 .. Len(file), j \in 1 .. Len(references) : file[i].step <= references[j]
         /\ \A i, j \in DOMAIN references : i < j => references[i] <= references[j]
         /\ checkpoint # NoCheckpoint => checkpoint.step <= step

\* The records in memory after a step, whether or not they are then saved.
LEMMA RecordsInOrder ==
    ASSUME Types, Ordered, phase = "tracking", step \in 0 .. Steps - 1,
           NEW refs, refs = IF referenceCrosses THEN Append(references, step) ELSE references
    PROVE  /\ refs \in Seq(0 .. Steps - 1)
           /\ Len(refs) = IF referenceCrosses THEN Len(references) + 1 ELSE Len(references)
           /\ \A j \in 1 .. Len(refs) : refs[j] < step + 1
           /\ \A i \in 1 .. Len(file), j \in 1 .. Len(refs) : file[i].step <= refs[j]
           /\ \A i, j \in DOMAIN refs : i < j => refs[i] <= refs[j]
<1>1. /\ references \in Seq(0 .. Steps - 1) /\ Len(references) \in Nat
      /\ DOMAIN references = 1 .. Len(references)
      /\ \A j \in 1 .. Len(references) : references[j] \in 0 .. Steps - 1
  BY LenProperties, ElementOfSeq DEF Types
<1>2. \A i \in 1 .. Len(file) : file[i].step \in 0 .. Steps - 1
  BY DEF Types, IsFile
<1>3. CASE ~referenceCrosses
  BY <1>1, <1>3, Numbers DEF Ordered
<1>4. CASE referenceCrosses
  <2>1. /\ refs \in Seq(0 .. Steps - 1) /\ Len(refs) = Len(references) + 1
        /\ refs[Len(references) + 1] = step
        /\ \A j \in 1 .. Len(references) : refs[j] = references[j]
    BY <1>1, <1>4, AppendProperties
  <2>2. DOMAIN refs = 1 .. Len(references) + 1
    BY <2>1, LenProperties
  <2>3. \A j \in 1 .. Len(refs) :
            \/ j = Len(references) + 1 /\ refs[j] = step
            \/ j \in 1 .. Len(references) /\ refs[j] = references[j]
    BY <1>1, <2>1
  <2>4. \A j \in 1 .. Len(refs) : refs[j] < step + 1
    BY <1>1, <2>3, Numbers DEF Ordered
  <2>5. \A i \in 1 .. Len(file), j \in 1 .. Len(refs) : file[i].step <= refs[j]
    BY <1>1, <1>2, <2>3, Numbers DEF Ordered
  <2>6. \A i, j \in 1 .. Len(refs) : i < j => refs[i] <= refs[j]
    <3> SUFFICES ASSUME NEW i \in 1 .. Len(refs), NEW j \in 1 .. Len(refs), i < j
                 PROVE  refs[i] <= refs[j]
      OBVIOUS
    <3>1. i \in 1 .. Len(references) /\ refs[i] = references[i]
      BY <1>1, <2>1, <2>3
    <3>2. CASE j = Len(references) + 1 /\ refs[j] = step
      <4>1. references[i] < step
        BY <3>1 DEF Ordered
      <4> QED BY <1>1, <3>1, <3>2, <4>1, Numbers
    <3>3. CASE j \in 1 .. Len(references) /\ refs[j] = references[j]
      <4>1. references[i] <= references[j]
        BY <1>1, <3>1, <3>3 DEF Ordered
      <4> QED BY <3>1, <3>3, <4>1
    <3> QED BY <2>3, <3>2, <3>3
  <2> QED BY <1>4, <2>1, <2>2, <2>4, <2>5, <2>6
<1> QED BY <1>3, <1>4

\* What a step appends to the file of a temporal monitor.
LEMMA SetInOrder ==
    ASSUME Types, Ordered, phase = "tracking", step \in 0 .. Steps - 1, referenceCrosses,
           NEW set, set.step = Head(Append(references, step))
    PROVE  /\ set.step \in 0 .. Steps - 1 /\ set.step < step + 1
           /\ \A i \in 1 .. Len(file) : file[i].step <= set.step
           /\ references = <<>> => set.step = step
<1> DEFINE refs == Append(references, step)
<1>1. /\ refs \in Seq(0 .. Steps - 1) /\ Len(refs) = Len(references) + 1
      /\ \A j \in 1 .. Len(refs) : refs[j] < step + 1
      /\ \A i \in 1 .. Len(file), j \in 1 .. Len(refs) : file[i].step <= refs[j]
  BY RecordsInOrder
<1>2. Len(references) \in Nat
  BY LenProperties DEF Types
<1>3. 1 \in 1 .. Len(refs) /\ Head(refs) = refs[1] /\ refs # <<>>
  <2> HIDE DEF refs
  <2>1. 1 \in 1 .. Len(refs) /\ Len(refs) # 0
    BY <1>1, <1>2
  <2>2. refs # <<>>
    BY <2>1, EmptySeq
  <2>3. Head(refs) = refs[1]
    BY <1>1, <2>2
  <2> QED BY <2>1, <2>2, <2>3
<1>4. Head(refs) \in 0 .. Steps - 1
  BY <1>1, <1>3, ElementOfSeq
<1>5. references = <<>> => Head(refs) = step
  BY HeadTailAppend DEF Types
<1> HIDE DEF refs
<1> QED BY <1>1, <1>3, <1>4, <1>5 DEF refs

\* Every step keeps the types.
LEMMA NextTypes == Types /\ Ordered /\ [Next]_vars => Types'
<1> SUFFICES ASSUME Types, Ordered, [Next]_vars PROVE Types'
  OBVIOUS
<1>1. CASE TimeStep
  <2>1. /\ phase = "tracking" /\ phase' = "tracking" /\ step' = step + 1
        /\ step \in 0 .. Steps - 1
        /\ UNCHANGED <<kind, offset, restarts>>
        /\ alive' \subseteq alive
        /\ particles' \in [Ranks -> Seq(Hit)]
        /\ passages' = IF referenceCrosses THEN passages + 1 ELSE passages
        /\ passed' = IF referenceCrosses /\ alive # {} THEN Append(passed, step) ELSE passed
    BY <1>1, TimeStepEffect
  <2>2. PICK refs : /\ refs = IF referenceCrosses THEN Append(references, step) ELSE references
                    /\ IF kind = "temporal" /\ referenceCrosses /\ alive # {}
                       THEN /\ references' = <<>>
                            /\ \E set : set.step = Head(refs) /\ file' = Append(file, set)
                       ELSE references' = refs /\ file' = file
    BY <1>1, TimeStepEffect
  <2>3. step' \in 0 .. Steps /\ alive' \subseteq Particles
    BY <2>1, Numbers DEF Types
  <2>4. /\ refs \in Seq(0 .. Steps - 1)
        /\ Len(refs) = IF referenceCrosses THEN Len(references) + 1 ELSE Len(references)
    BY <2>1, <2>2, RecordsInOrder
  <2>5. references' \in Seq(0 .. Steps - 1) /\ IsFile(file')
    <3>1. CASE kind = "temporal" /\ referenceCrosses /\ alive # {}
      <4>1. PICK set : set.step = Head(refs) /\ file' = Append(file, set)
        BY <2>2, <3>1
      <4>2. /\ set.step \in 0 .. Steps - 1
            /\ \A i \in 1 .. Len(file) : file[i].step <= set.step
        BY <2>1, <2>2, <3>1, <4>1, SetInOrder
      <4>3. IsFile(file')
        BY <4>1, <4>2, AppendSet DEF Types, Ordered
      <4> QED BY <2>2, <3>1, <4>3, EmptyRecords
    <3>2. CASE ~(kind = "temporal" /\ referenceCrosses /\ alive # {})
      BY <2>2, <2>4, <3>2 DEF Types
    <3> QED BY <3>1, <3>2
  <2>6. IF kind' = "spatial" THEN Len(references') = passages'
        ELSE references' # <<>> => alive' = {}
    <3>1. CASE kind = "spatial"
      <4>1. Len(references) = passages /\ references' = refs
        BY <2>1, <2>2, <3>1 DEF Types
      <4> QED BY <2>1, <2>4, <3>1, <4>1
    <3>2. CASE kind = "temporal"
      BY <2>1, <2>2, <3>2 DEF Types
    <3> QED BY <3>1, <3>2 DEF Types
  <2>7. passages' \in Nat /\ passed' \in Seq(0 .. Steps - 1)
    <3>1. passed \in Seq(0 .. Steps - 1) /\ passages \in Nat
      BY DEF Types
    <3>2. Append(passed, step) \in Seq(0 .. Steps - 1)
      BY <2>1, <3>1, AppendProperties
    <3>3. passages' \in Nat
      BY <2>1, <3>1
    <3>4. passed' \in Seq(0 .. Steps - 1)
      BY <2>1, <3>1, <3>2
    <3> QED BY <3>3, <3>4
  <2>8. checkpoint' \in Checkpoints \cup {NoCheckpoint}
    <3>1. CASE checkpoint' = checkpoint
      BY <3>1 DEF Types
    <3>2. CASE checkpoint' = [step |-> step', alive |-> alive', passed |-> passed']
      BY <2>3, <2>7, <3>2 DEF Checkpoints
    <3> QED BY <1>1, <3>1, <3>2, TimeStepEffect
  <2> QED BY <2>1, <2>3, <2>5, <2>6, <2>7, <2>8 DEF Types
<1>2. CASE GoOffline
  <2>1. /\ UNCHANGED <<job, beam, passages, checkpoint, restarts, history>>
        /\ phase = "tracking" /\ phase' \in {"ended", "failed"}
        /\ \/ UNCHANGED <<file, particles, references>>
           \/ /\ kind = "spatial" /\ file' = file \o savedSets(passages)
              /\ particles' = Empty /\ references' = <<>>
    BY <1>2 DEF GoOffline
  <2>2. CASE UNCHANGED <<file, particles, references>>
    BY <2>1, <2>2 DEF Types, job, beam, history
  <2>3. CASE kind = "spatial" /\ file' = file \o savedSets(passages)
             /\ particles' = Empty /\ references' = <<>>
    <3>1. Len(references) = passages /\ passages \in Nat
      BY <2>1, <2>3 DEF Types
    <3>2. FromPassages(savedSets(passages), passages)
      BY <2>1, <3>1, SavedSets DEF Types, Ordered
    <3>3. IsFile(file')
      BY <2>3, <3>2, ConcatFiles DEF Types, FromPassages
    <3> QED BY <2>1, <2>3, <3>3, EmptyRecords DEF Types, job, beam, history
  <2> QED BY <2>1, <2>2, <2>3
<1>3. CASE Kill
  BY <1>3 DEF Kill, Types, job, beam, sink, history
<1>4. CASE Restart
  <2>1. checkpoint \in Checkpoints
    BY <1>4 DEF Restart, Types
  <2>2. /\ checkpoint.step \in 0 .. Steps /\ checkpoint.alive \subseteq Particles
        /\ checkpoint.passed \in Seq(0 .. Steps - 1)
    BY <2>1 DEF Checkpoints
  <2>3. /\ phase' = "tracking" /\ file' = keptSets(file, checkpoint.step)
        /\ UNCHANGED job /\ checkpoint' = checkpoint
        /\ step' = checkpoint.step /\ alive' = checkpoint.alive /\ passed' = checkpoint.passed
        /\ particles' = Empty /\ references' = <<>> /\ passages' = 0
    BY <1>4 DEF Restart, Ordered
  <2>4. restarts' \in 0 .. MaxRestarts
    BY <1>4 DEF Restart, Types
  <2>5. IsFile(file')
    BY <2>2, <2>3, KeptSets, Numbers DEF Types, Ordered
  <2> QED BY <2>2, <2>3, <2>4, <2>5, EmptyRecords DEF Types, job
<1>5. CASE StartAfresh
  <2>1. restarts' \in 0 .. MaxRestarts /\ 0 \in 0 .. Steps
    BY <1>5, Numbers DEF StartAfresh, Types
  <2> QED BY <1>5, <2>1, EmptyRecords DEF StartAfresh, Types, job, fileOfFreshJob
<1>6. CASE UNCHANGED vars
  BY <1>6 DEF vars, Types, job, beam, sink, history
<1> QED BY <1>1, <1>2, <1>3, <1>4, <1>5, <1>6 DEF Next

\* Every step keeps the file and the records in order.
LEMMA NextOrdered == Types /\ Ordered /\ [Next]_vars => Ordered'
<1> SUFFICES ASSUME Types, Ordered, [Next]_vars PROVE Ordered'
  OBVIOUS
<1>0. \A i \in 1 .. Len(file) : file[i].step \in 0 .. Steps - 1
  BY DEF Types, IsFile
<1>1. CASE TimeStep
  <2>1. /\ phase = "tracking" /\ phase' = "tracking" /\ step' = step + 1
        /\ step \in 0 .. Steps - 1
    BY <1>1, TimeStepEffect
  <2>2. PICK refs : /\ refs = IF referenceCrosses THEN Append(references, step) ELSE references
                    /\ IF kind = "temporal" /\ referenceCrosses /\ alive # {}
                       THEN /\ references' = <<>>
                            /\ \E set : set.step = Head(refs) /\ file' = Append(file, set)
                       ELSE references' = refs /\ file' = file
    BY <1>1, TimeStepEffect
  <2>3. /\ \A j \in 1 .. Len(refs) : refs[j] < step + 1
        /\ \A i \in 1 .. Len(file), j \in 1 .. Len(refs) : file[i].step <= refs[j]
        /\ \A i, j \in DOMAIN refs : i < j => refs[i] <= refs[j]
    BY <2>1, <2>2, RecordsInOrder
  <2>4. \A i \in 1 .. Len(file) : file[i].step < step + 1
    BY <1>0, <2>1, Numbers DEF Ordered
  <2>5. checkpoint' # NoCheckpoint => checkpoint'.step <= step'
    <3>1. CASE checkpoint' = checkpoint
      BY <2>1, <3>1, Numbers DEF Types, Ordered, Checkpoints
    <3>2. CASE checkpoint' = [step |-> step', alive |-> alive', passed |-> passed']
      BY <2>1, <3>2, Numbers
    <3> QED BY <1>1, <3>1, <3>2, TimeStepEffect
  <2>6. CASE kind = "temporal" /\ referenceCrosses /\ alive # {}
    <3>1. PICK set : set.step = Head(refs) /\ file' = Append(file, set)
      BY <2>2, <2>6
    <3>2. /\ set.step \in 0 .. Steps - 1 /\ set.step < step + 1
          /\ \A i \in 1 .. Len(file) : file[i].step <= set.step
      BY <2>1, <2>2, <2>6, <3>1, SetInOrder
    <3>3. /\ monotonic(file') /\ Len(file') = Len(file) + 1
          /\ file'[Len(file) + 1] = set /\ \A i \in 1 .. Len(file) : file'[i] = file[i]
      <4>1. IsFile(file) /\ monotonic(file)
        BY DEF Types, Ordered
      <4> QED BY <3>1, <3>2, <4>1, AppendSet
    <3>4. \A i \in 1 .. Len(file') : file'[i].step < step + 1
      <4>1. Len(file) \in Nat
        BY LenProperties DEF Types, IsFile, IsSeq
      <4>2. \A i \in 1 .. Len(file) + 1 : i \in 1 .. Len(file) \/ i = Len(file) + 1
        BY <4>1
      <4> QED BY <2>4, <3>2, <3>3, <4>2
    <3>5. references' = <<>> /\ Len(references') = 0 /\ DOMAIN references' = {}
      BY <2>2, <2>6, EmptySeq
    <3> QED BY <2>1, <2>5, <3>3, <3>4, <3>5 DEF Ordered
  <2>7. CASE ~(kind = "temporal" /\ referenceCrosses /\ alive # {})
    BY <2>1, <2>2, <2>3, <2>4, <2>5, <2>7 DEF Ordered
  <2> QED BY <2>6, <2>7
<1>2. CASE GoOffline
  <2>1. /\ phase = "tracking" /\ phase' \in {"ended", "failed"}
        /\ \/ file' = file
           \/ kind = "spatial" /\ file' = file \o savedSets(passages)
    BY <1>2 DEF GoOffline
  <2>2. CASE file' = file
    BY <2>1, <2>2 DEF Ordered
  <2>3. CASE kind = "spatial" /\ file' = file \o savedSets(passages)
    <3>1. Len(references) = passages /\ passages \in Nat
      BY <2>1, <2>3 DEF Types
    <3>2. FromPassages(savedSets(passages), passages)
      BY <2>1, <3>1, SavedSets DEF Types, Ordered
    <3>3. \A i \in 1 .. Len(file), j \in 1 .. Len(savedSets(passages)) :
             file[i].step <= savedSets(passages)[j].step
      BY <2>1, <3>1, <3>2 DEF Ordered, FromPassages
    <3>4. monotonic(file')
      BY <2>3, <3>2, <3>3, ConcatFiles DEF Types, Ordered, FromPassages
    <3> QED BY <2>1, <3>4 DEF Ordered
  <2> QED BY <2>1, <2>2, <2>3
<1>3. CASE Kill
  BY <1>3 DEF Kill, Ordered, sink
<1>4. CASE Restart
  <2>1. /\ phase' = "tracking" /\ file' = keptSets(file, checkpoint.step)
        /\ checkpoint' = checkpoint /\ step' = checkpoint.step /\ references' = <<>>
    BY <1>4 DEF Restart, Ordered
  <2>2. checkpoint.step \in 0 .. Steps
    BY <1>4 DEF Restart, Types, Checkpoints
  <2>3. /\ monotonic(file') /\ Len(file') <= Len(file)
        /\ \A i \in 1 .. Len(file') : file'[i] = file[i] /\ file[i].step < checkpoint.step
    BY <2>1, <2>2, Numbers, KeptSets DEF Types, Ordered
  <2>4. Len(references') = 0 /\ DOMAIN references' = {}
    BY <2>1, EmptySeq
  <2> QED BY <2>1, <2>2, <2>3, <2>4, Numbers DEF Ordered
<1>5. CASE StartAfresh
  <2>1. file' = <<>> /\ references' = <<>> /\ checkpoint' = NoCheckpoint /\ phase' = "tracking"
    BY <1>5 DEF StartAfresh, fileOfFreshJob
  <2>2. Len(<<>>) = 0 /\ DOMAIN <<>> = {} /\ monotonic(<<>>)
    BY EmptySeq DEF monotonic
  <2> QED BY <2>1, <2>2 DEF Ordered
<1>6. CASE UNCHANGED vars
  BY <1>6 DEF vars, Ordered, beam, sink
<1> QED BY <1>1, <1>2, <1>3, <1>4, <1>5, <1>6 DEF Next

\* The initial state.
LEMMA InitOrdered == Init => Types /\ Ordered
<1> SUFFICES ASSUME Init PROVE Types /\ Ordered
  OBVIOUS
<1>1. 0 \in 0 .. Steps /\ 0 \in 0 .. MaxRestarts
  BY Numbers
<1>2. Types
  BY <1>1, EmptyRecords DEF Init, Types
<1>3. Len(<<>>) = 0 /\ DOMAIN <<>> = {}
  BY EmptySeq
<1>4. Ordered
  BY <1>3, EmptyRecords DEF Init, Ordered
<1> QED BY <1>2, <1>4

\* Types and order hold in every reachable state.
LEMMA OrderedInvariant == Spec => [](Types /\ Ordered)
BY InitOrdered, NextTypes, NextOrdered, PTL DEF Spec

\* Every reachable state of the monitor is well typed, and the records of passages in
\* memory are what the saves have left.
THEOREM MonitorTypeCorrect == Spec => []TypeOK
<1>1. Types => TypeOK
  <2> SUFFICES ASSUME Types PROVE TypeOK
    OBVIOUS
  <2>1. \A r \in Ranks : \A i \in DOMAIN particles[r] : particles[r][i].id \in Particles
    <3> SUFFICES ASSUME NEW r \in Ranks, NEW i \in DOMAIN particles[r]
                 PROVE  particles[r][i].id \in Particles
      OBVIOUS
    <3>1. particles[r] \in Seq(Hit) /\ i \in 1 .. Len(particles[r])
      BY LenProperties DEF Types
    <3>2. particles[r][i] \in Hit
      BY <3>1, ElementOfSeq
    <3> QED BY <3>2 DEF Hit
  <2>2. \A i \in DOMAIN file : file[i].step \in 0 .. Steps - 1
    BY LenProperties DEF Types, IsFile, IsSeq
  <2> QED BY <2>1, <2>2 DEF Types, TypeOK
<1> QED BY <1>1, OrderedInvariant, PTL

\* For any ring, bunch, checkpoint frequency and sequence of kills, restarts and fresh
\* starts, the steps in the file of a monitor never decrease, so that no restart
\* is refused for it: also after losses, with records that were kept for want of
\* particles, and behind sets that an earlier restart has cut.
THEOREM RewindCorrect == Spec => []RewindAccepted
<1>1. Ordered => RewindAccepted
  BY DEF Ordered, RewindAccepted
<1> QED BY <1>1, OrderedInvariant, PTL

-----------------------------------------------------------------------------
(* The file of a temporal monitor.                                          *)

\* The sets of a file are those of the given steps.
HasSteps(f, s) == Len(f) = Len(s) /\ \A i \in 1 .. Len(f) : f[i].step = s[i]

\* The file of a temporal monitor has the passages of the run; those that the
\* checkpoint has seen are its first sets, and the others came later.
Follows ==
    kind = "temporal" =>
        /\ HasSteps(file, passed)
        /\ checkpoint # NoCheckpoint =>
             /\ Len(checkpoint.passed) <= Len(file)
             /\ \A i \in 1 .. Len(file) :
                   IF i <= Len(checkpoint.passed)
                   THEN file[i].step = checkpoint.passed[i] /\ file[i].step < checkpoint.step
                   ELSE file[i].step >= checkpoint.step

\* A cut at the checkpoint leaves the passages it has seen.
LEMMA CutFollows ==
    ASSUME Types, Ordered, Follows, kind = "temporal", checkpoint # NoCheckpoint
    PROVE  HasSteps(keptSets(file, checkpoint.step), checkpoint.passed)
<1> DEFINE cut == keptSets(file, checkpoint.step)
<1>1. checkpoint.step \in Int /\ Len(checkpoint.passed) \in Nat /\ Len(file) \in Nat
  <2>1. checkpoint.passed \in Seq(0 .. Steps - 1) /\ checkpoint.step \in 0 .. Steps
    BY DEF Types, Checkpoints
  <2>2. Len(checkpoint.passed) \in Nat
    BY <2>1, LenProperties
  <2>3. Len(file) \in Nat
    BY LenProperties DEF Types, IsFile, IsSeq
  <2> QED BY <2>1, <2>2, <2>3, Numbers
<1>2. /\ IsFile(cut) /\ Len(cut) <= Len(file)
      /\ \A i \in 1 .. Len(cut) : cut[i] = file[i] /\ file[i].step < checkpoint.step
      /\ \A i \in 1 .. Len(file) : i > Len(cut) => file[i].step >= checkpoint.step
  BY <1>1, KeptSets DEF Types, Ordered
<1>3. Len(cut) \in Nat
  BY <1>2, LenProperties DEF IsFile, IsSeq
<1>4. \A i \in 1 .. Len(file) : file[i].step \in Int
  <2>1. \A i \in 1 .. Len(file) : file[i].step \in 0 .. Steps - 1
    BY DEF Types, IsFile
  <2> QED BY <2>1
<1> HIDE DEF cut
<1>5. \A i \in 1 .. Len(file) : i <= Len(cut) <=> i <= Len(checkpoint.passed)
  <2> SUFFICES ASSUME NEW i \in 1 .. Len(file)
               PROVE  i <= Len(cut) <=> i <= Len(checkpoint.passed)
    OBVIOUS
  <2>1. i <= Len(cut) <=> file[i].step < checkpoint.step
    BY <1>1, <1>2, <1>3, <1>4
  <2>2. i <= Len(checkpoint.passed) <=> file[i].step < checkpoint.step
    BY <1>1, <1>4 DEF Follows
  <2> QED BY <2>1, <2>2
<1>6. Len(checkpoint.passed) <= Len(file)
  BY DEF Follows
<1>7. Len(cut) = Len(checkpoint.passed)
  <2>1. CASE Len(cut) < Len(checkpoint.passed)
    <3>1. Len(checkpoint.passed) \in 1 .. Len(file)
      BY <1>1, <1>3, <1>6, <2>1
    <3> QED BY <1>1, <1>3, <1>5, <2>1, <3>1
  <2>2. CASE Len(cut) > Len(checkpoint.passed)
    <3>1. Len(cut) \in 1 .. Len(file)
      BY <1>1, <1>2, <1>3, <2>2
    <3> QED BY <1>1, <1>3, <1>5, <2>2, <3>1
  <2> QED BY <1>1, <1>3, <2>1, <2>2
<1>8. \A i \in 1 .. Len(cut) : cut[i].step = checkpoint.passed[i]
  <2> SUFFICES ASSUME NEW i \in 1 .. Len(cut) PROVE cut[i].step = checkpoint.passed[i]
    OBVIOUS
  <2>1. i \in 1 .. Len(file) /\ i <= Len(checkpoint.passed)
    BY <1>1, <1>2, <1>3, <1>7
  <2>2. file[i].step = checkpoint.passed[i]
    BY <2>1 DEF Follows
  <2> QED BY <1>2, <2>2
<1> QED BY <1>7, <1>8 DEF HasSteps, cut

\* One more passage in the file and in the run.
LEMMA AppendFollows ==
    ASSUME Types, Ordered, HasSteps(file, passed), phase = "tracking",
           step \in 0 .. Steps - 1, referenceCrosses, references = <<>>,
           NEW set, set.step = Head(Append(references, step))
    PROVE  /\ HasSteps(Append(file, set), Append(passed, step))
           /\ Len(Append(file, set)) = Len(file) + 1
           /\ Append(file, set)[Len(file) + 1].step = step
           /\ \A i \in 1 .. Len(file) : Append(file, set)[i] = file[i]
<1> DEFINE g == Append(file, set)
           p == Append(passed, step)
<1>1. /\ set.step \in 0 .. Steps - 1 /\ set.step = step
      /\ \A i \in 1 .. Len(file) : file[i].step <= set.step
  BY SetInOrder
<1>2. IsFile(file) /\ monotonic(file) /\ passed \in Seq(0 .. Steps - 1)
  BY DEF Types, Ordered
<1>3. /\ Len(g) = Len(file) + 1 /\ g[Len(file) + 1] = set
      /\ \A i \in 1 .. Len(file) : g[i] = file[i]
  BY <1>1, <1>2, AppendSet
<1>4. /\ Len(p) = Len(passed) + 1 /\ p[Len(passed) + 1] = step
      /\ \A i \in 1 .. Len(passed) : p[i] = passed[i]
  BY <1>2, AppendProperties
<1>5. Len(file) \in Nat /\ Len(passed) = Len(file)
  BY <1>2, LenProperties DEF IsFile, IsSeq, HasSteps
<1> HIDE DEF g, p
<1>6. ASSUME NEW i \in 1 .. Len(file) + 1 PROVE g[i].step = p[i]
  <2>1. CASE i = Len(file) + 1
    BY <1>1, <1>3, <1>4, <1>5, <2>1
  <2>2. CASE i \in 1 .. Len(file)
    BY <1>3, <1>4, <1>5, <2>2 DEF HasSteps
  <2>3. i = Len(file) + 1 \/ i \in 1 .. Len(file)
    BY <1>5
  <2> QED BY <2>1, <2>2, <2>3, Zenon
<1>7. HasSteps(g, p)
  BY <1>3, <1>4, <1>5, <1>6 DEF HasSteps
<1> QED BY <1>1, <1>3, <1>7 DEF g, p

\* Every step keeps the file with the run.
LEMMA NextFollows == Types /\ Ordered /\ Follows /\ [Next]_vars => Follows'
<1> SUFFICES ASSUME Types, Ordered, Follows, [Next]_vars PROVE Follows'
  OBVIOUS
<1>a. kind' = kind
  <2>1. CASE TimeStep
    BY <2>1, Zenon DEF TimeStep, job
  <2>2. CASE GoOffline
    BY <2>2, Zenon DEF GoOffline, job
  <2>3. CASE Kill
    BY <2>3, Zenon DEF Kill, job
  <2>4. CASE Restart
    BY <2>4, Zenon DEF Restart, job
  <2>5. CASE StartAfresh
    BY <2>5, Zenon DEF StartAfresh, job
  <2>6. CASE UNCHANGED vars
    BY <2>6 DEF vars, job
  <2> QED BY <2>1, <2>2, <2>3, <2>4, <2>5, <2>6, Zenon DEF Next
<1> SUFFICES ASSUME kind = "temporal" PROVE Follows'
  BY <1>a DEF Follows
<1>0. Len(file) \in Nat /\ HasSteps(file, passed)
  BY LenProperties DEF Types, IsFile, IsSeq, Follows
<1>1. CASE TimeStep
  <2>1. /\ phase = "tracking" /\ step' = step + 1 /\ step \in 0 .. Steps - 1
        /\ passed' = IF referenceCrosses /\ alive # {} THEN Append(passed, step) ELSE passed
    BY <1>1, TimeStepEffect
  <2>2. PICK refs : /\ refs = IF referenceCrosses THEN Append(references, step) ELSE references
                    /\ IF kind = "temporal" /\ referenceCrosses /\ alive # {}
                       THEN /\ references' = <<>>
                            /\ \E set : set.step = Head(refs) /\ file' = Append(file, set)
                       ELSE references' = refs /\ file' = file
    BY <1>1, TimeStepEffect
  <2>3. /\ HasSteps(file', passed') /\ Len(file') \in Nat /\ Len(file') >= Len(file)
        /\ \A i \in 1 .. Len(file) : file'[i] = file[i]
        /\ \A i \in 1 .. Len(file') : i > Len(file) => file'[i].step = step
    <3>1. CASE referenceCrosses /\ alive # {}
      <4>1. references = <<>>
        BY <2>1, <3>1 DEF Types
      <4>2. PICK set : set.step = Head(refs) /\ file' = Append(file, set)
        BY <2>2, <3>1
      <4>3. /\ HasSteps(file', Append(passed, step))
            /\ Len(file') = Len(file) + 1 /\ file'[Len(file) + 1].step = step
            /\ \A i \in 1 .. Len(file) : file'[i] = file[i]
        BY <1>0, <2>1, <2>2, <3>1, <4>1, <4>2, AppendFollows
      <4> QED BY <1>0, <2>1, <3>1, <4>3
    <3>2. CASE ~(referenceCrosses /\ alive # {})
      BY <1>0, <2>1, <2>2, <3>2
    <3> QED BY <3>1, <3>2
  <2>4. CASE checkpoint' = checkpoint
    <3> SUFFICES ASSUME checkpoint # NoCheckpoint
                 PROVE  /\ Len(checkpoint.passed) <= Len(file')
                        /\ \A i \in 1 .. Len(file') :
                              IF i <= Len(checkpoint.passed)
                              THEN file'[i].step = checkpoint.passed[i]
                                   /\ file'[i].step < checkpoint.step
                              ELSE file'[i].step >= checkpoint.step
      BY <2>3, <2>4 DEF Follows
    <3>1. /\ checkpoint.step <= step /\ checkpoint.step \in Int
          /\ Len(checkpoint.passed) \in Nat /\ Len(checkpoint.passed) <= Len(file)
      <4>1. checkpoint.passed \in Seq(0 .. Steps - 1) /\ checkpoint.step \in 0 .. Steps
        BY DEF Types, Checkpoints
      <4>2. Len(checkpoint.passed) \in Nat
        BY <4>1, LenProperties
      <4> QED BY <2>1, <4>1, <4>2, Numbers DEF Ordered, Follows
    <3>2. ASSUME NEW i \in 1 .. Len(file')
          PROVE  IF i <= Len(checkpoint.passed)
                 THEN file'[i].step = checkpoint.passed[i] /\ file'[i].step < checkpoint.step
                 ELSE file'[i].step >= checkpoint.step
      <4>1. CASE i \in 1 .. Len(file)
        <5>1. file'[i] = file[i]
          BY <2>3, <4>1
        <5> QED BY <4>1, <5>1 DEF Follows
      <4>2. CASE i > Len(file)
        <5>1. file'[i].step = step /\ ~(i <= Len(checkpoint.passed))
          BY <1>0, <2>3, <3>1, <4>2
        <5> QED BY <2>1, <3>1, <5>1
      <4>3. i \in 1 .. Len(file) \/ i > Len(file)
        BY <1>0, <2>3
      <4> QED BY <4>1, <4>2, <4>3, Zenon
    <3> QED BY <1>0, <2>3, <3>1, <3>2
  <2>5. CASE checkpoint' = [step |-> step', alive |-> alive', passed |-> passed']
    <3>1. \A i \in 1 .. Len(file') : file'[i].step < step'
      <4>1. phase' = "tracking"
        BY <1>1, TimeStepEffect
      <4> QED BY <4>1, NextOrdered DEF Ordered
    <3>2. checkpoint'.passed = passed' /\ checkpoint'.step = step'
      BY <2>5
    <3> QED BY <2>3, <3>1, <3>2 DEF Follows, HasSteps
  <2> QED BY <1>1, <2>4, <2>5, TimeStepEffect
<1>2. CASE GoOffline
  <2>1. file' = file /\ passed' = passed /\ checkpoint' = checkpoint
    BY <1>2 DEF GoOffline, history
  <2> QED BY <2>1 DEF Follows
<1>3. CASE Kill
  BY <1>3 DEF Kill, Follows, history
<1>4. CASE Restart
  <2>1. /\ file' = keptSets(file, checkpoint.step) /\ passed' = checkpoint.passed
        /\ checkpoint' = checkpoint /\ checkpoint # NoCheckpoint /\ phase' = "tracking"
        /\ step' = checkpoint.step
    BY <1>4 DEF Restart, Ordered
  <2>2. HasSteps(file', checkpoint.passed)
    BY <2>1, CutFollows
  <2>3. \A i \in 1 .. Len(file') : file'[i].step < checkpoint.step
    BY <2>1, NextOrdered DEF Ordered
  <2>4. Len(file') \in Nat
    <3>1. IsFile(file')
      BY NextTypes DEF Types
    <3> QED BY <3>1, LenProperties DEF IsFile, IsSeq
  <2> QED BY <2>1, <2>2, <2>3, <2>4 DEF Follows, HasSteps
<1>5. CASE StartAfresh
  <2>1. file' = <<>> /\ passed' = <<>> /\ checkpoint' = NoCheckpoint
    BY <1>5 DEF StartAfresh, fileOfFreshJob
  <2> QED BY <2>1, EmptyRecords DEF Follows, HasSteps
<1>6. CASE UNCHANGED vars
  BY <1>6 DEF vars, Follows, history
<1> QED BY <1>1, <1>2, <1>3, <1>4, <1>5, <1>6 DEF Next

\* For any ring, bunch, checkpoint frequency and sequence of kills, restarts and fresh
\* starts, the file of a temporal monitor has one set for every step in which the
\* bunch passed, in that order: none is lost and none is repeated.
THEOREM TemporalCorrect == Spec => []TemporalFollowsRun
<1>1. Init => Follows
  BY EmptyRecords DEF Init, Follows, HasSteps
<1>2. Types /\ Follows => TemporalFollowsRun
  <2> SUFFICES ASSUME Types, Follows, kind = "temporal"
               PROVE  [i \in DOMAIN file |-> file[i].step] = passed
    BY DEF TemporalFollowsRun
  <2>1. HasSteps(file, passed)
    BY DEF Follows
  <2>2. DOMAIN file = 1 .. Len(file)
    BY LenProperties DEF Types, IsFile, IsSeq
  <2>3. passed \in [1 .. Len(passed) -> 0 .. Steps - 1]
    BY LenProperties DEF Types
  <2> QED BY <2>1, <2>2, <2>3 DEF HasSteps
<1> QED BY <1>1, <1>2, OrderedInvariant, NextFollows, PTL DEF Spec

-----------------------------------------------------------------------------
(* The sets of a spatial monitor.                                           *)

\* A function can be defined by recursion up to a number.
LEMMA Recursion ==
    ASSUME NEW n \in Nat, NEW S, NEW base \in S, NEW F \in [1 .. n -> [S -> S]]
    PROVE  \E g \in [0 .. n -> S] : g[0] = base /\ \A j \in 1 .. n : g[j] = F[j][g[j - 1]]
<1> DEFINE Steps1(g, m) == g[0] = base /\ \A j \in 1 .. m : g[j] = F[j][g[j - 1]]
           Defined == {m \in Nat : m <= n => \E g \in [0 .. m -> S] : Steps1(g, m)}
<1>1. 0 \in Defined
  <2>1. [j \in 0 .. 0 |-> base] \in [0 .. 0 -> S] /\ Steps1([j \in 0 .. 0 |-> base], 0)
    OBVIOUS
  <2> HIDE DEF Steps1
  <2> QED BY <2>1
<1>2. ASSUME NEW m \in Nat, m \in Defined PROVE m + 1 \in Defined
  <2> SUFFICES ASSUME m + 1 <= n PROVE \E h \in [0 .. m + 1 -> S] : Steps1(h, m + 1)
    OBVIOUS
  <2>1. PICK g \in [0 .. m -> S] : Steps1(g, m)
    <3>1. m <= n
      OBVIOUS
    <3> HIDE DEF Steps1
    <3> QED BY <1>2, <3>1
  <2> DEFINE h == [j \in 0 .. m + 1 |-> IF j <= m THEN g[j] ELSE F[m + 1][g[m]]]
  <2>2. /\ \A j \in 0 .. m : h[j] = g[j]
        /\ h[m + 1] = F[m + 1][g[m]]
    OBVIOUS
  <2>3. g[m] \in S /\ F[m + 1] \in [S -> S]
    OBVIOUS
  <2>4. h \in [0 .. m + 1 -> S]
    BY <2>3
  <2> HIDE DEF h
  <2>5. ASSUME NEW j \in 1 .. m + 1 PROVE h[j] = F[j][h[j - 1]]
    <3>1. CASE j = m + 1
      <4>1. j - 1 = m /\ m \in 0 .. m
        BY <3>1
      <4> QED BY <2>2, <3>1, <4>1
    <3>2. CASE j \in 1 .. m
      <4>1. j \in 0 .. m /\ j - 1 \in 0 .. m
        BY <3>2
      <4> QED BY <2>1, <2>2, <3>2, <4>1
    <3> QED BY <3>1, <3>2
  <2>6. h[0] = base
    BY <2>1, <2>2
  <2>7. Steps1(h, m + 1)
    BY <2>5, <2>6
  <2> HIDE DEF Steps1
  <2> QED BY <2>4, <2>7
<1> HIDE DEF Defined
<1>3. n \in Defined
  BY <1>1, <1>2, Induction
<1> QED BY <1>3 DEF Defined

\* Sets are opened one after the other, none behind the records seen so far.
Opens(st, i, sets) ==
    /\ st \in Seq(Nat) /\ Len(st) \in 1 .. sets /\ st[1] = 1
    /\ \A k \in 1 .. Len(st) : st[k] <= i + 1
    /\ \A j, k \in 1 .. Len(st) : j <= k => st[j] <= st[k]

\* One more record.
LEMMA OpenNext ==
    ASSUME NEW i \in Nat, NEW sets \in Nat, NEW st, Opens(st, i, sets)
    PROVE  /\ Opens(st, i + 1, sets)
           /\ Len(st) < sets => Opens(Append(st, i + 1), i + 1, sets)
<1>1. st \in Seq(Nat) /\ Len(st) \in Nat \ {0} /\ \A k \in 1 .. Len(st) : st[k] \in Nat
  BY LenProperties, ElementOfSeq DEF Opens
<1>2. Opens(st, i + 1, sets)
  BY <1>1 DEF Opens
<1>3. ASSUME Len(st) < sets PROVE Opens(Append(st, i + 1), i + 1, sets)
  <2> DEFINE n == Len(st)
             new == Append(st, i + 1)
  <2>1. /\ new \in Seq(Nat) /\ Len(new) = n + 1 /\ new[n + 1] = i + 1
        /\ \A k \in 1 .. n : new[k] = st[k]
    BY <1>1, AppendProperties
  <2>2. n \in Nat \ {0} /\ n < sets
    BY <1>1, <1>3
  <2> HIDE DEF new, n
  <2>3. \A k \in 1 .. n + 1 : k = n + 1 \/ k \in 1 .. n
    BY <2>2
  <2>4. /\ st[1] = 1 /\ \A k \in 1 .. n : st[k] <= i + 1 /\ st[k] \in Nat
        /\ \A j, k \in 1 .. n : j <= k => st[j] <= st[k]
    BY <1>1 DEF Opens, n
  <2>5. new[1] = 1 /\ Len(new) \in 1 .. sets
    BY <2>1, <2>2, <2>4
  <2>6. \A k \in 1 .. n + 1 : new[k] <= i + 1 /\ new[k] <= (i + 1) + 1
    BY <2>1, <2>3, <2>4
  <2>7. ASSUME NEW j \in 1 .. n + 1, NEW k \in 1 .. n + 1, j <= k PROVE new[j] <= new[k]
    <3>1. CASE k = n + 1
      BY <2>1, <2>6, <3>1
    <3>2. CASE k \in 1 .. n
      <4>1. j \in 1 .. n
        BY <2>2, <2>7, <3>2
      <4> QED BY <2>1, <2>4, <2>7, <3>2, <4>1
    <3> QED BY <2>3, <3>1, <3>2
  <2> QED BY <2>1, <2>5, <2>6, <2>7 DEF Opens, new
<1> QED BY <1>2, <1>3

LEMMA Opened ==
    ASSUME NEW r, Len(particles[r]) \in Nat, NEW means, NEW sets \in Nat \ {0}
    PROVE  Opens(opened(r, means, sets), Len(particles[r]), sets)
<1> DEFINE n == Len(particles[r])
           Further(st, i) == /\ Len(st) < sets
                             /\ beyond(particles[r][i].time, means[Len(st)], means[Len(st) + 1])
           Next1(st, i) == IF Further(st, i) THEN Append(st, i) ELSE st
           Open(g) == [i \in 0 .. n |-> IF i = 0 THEN <<1>> ELSE Next1(g[i - 1], i)]
           S == Seq(Nat)
           base == <<1>>
           F == [i \in 1 .. n |-> [st \in S |-> Next1(st, i)]]
<1>1. opened(r, means, sets) = (CHOOSE g : g = Open(g))[n]
  BY DEF opened
<1>2. n \in Nat
  OBVIOUS
<1>3. F \in [1 .. n -> [S -> S]]
  <2>1. ASSUME NEW st \in Seq(Nat), NEW i \in 1 .. n PROVE Next1(st, i) \in Seq(Nat)
    <3>1. Append(st, i) \in Seq(Nat)
      BY AppendProperties
    <3> HIDE DEF Further
    <3> QED BY <3>1
  <2> HIDE DEF Next1
  <2> QED BY <2>1
<1>4. <<1>> \in Seq(Nat) /\ Len(<<1>>) = 1 /\ <<1>>[1] = 1
  OBVIOUS
<1>5. base \in S
  BY <1>4
<1> HIDE DEF Further, n
<1>6. \E g : g = Open(g)
  <2> HIDE DEF F, S, base
  <2>1. PICK g \in [0 .. n -> S] : g[0] = base /\ \A j \in 1 .. n : g[j] = F[j][g[j - 1]]
    BY ONLY <1>2, <1>3, <1>5, Recursion
  <2> HIDE DEF Next1
  <2>2. ASSUME NEW j \in 1 .. n PROVE g[j] = Next1(g[j - 1], j)
    <3>1. j - 1 \in 0 .. n
      BY <1>2
    <3>2. g[j - 1] \in S
      BY <2>1, <3>1
    <3> QED BY <2>1, <3>2 DEF F
  <2>3. \A j \in 0 .. n : g[j] = IF j = 0 THEN <<1>> ELSE Next1(g[j - 1], j)
    <3>1. \A j \in 0 .. n : j = 0 \/ j \in 1 .. n
      BY <1>2
    <3>2. \A j \in 1 .. n : j # 0
      BY <1>2
    <3> QED BY <2>1, <2>2, <3>1, <3>2, Zenon DEF base
  <2>4. g = Open(g)
    BY <2>1, <2>3
  <2> HIDE DEF Open
  <2> QED BY <2>4
<1>7. PICK g : g = Open(g) /\ opened(r, means, sets) = g[n]
  BY <1>1, <1>6
<1>8. g[0] = <<1>> /\ \A j \in 1 .. n : g[j] = Next1(g[j - 1], j)
  <2> HIDE DEF Next1
  <2>1. \A j \in 0 .. n : g[j] = IF j = 0 THEN <<1>> ELSE Next1(g[j - 1], j)
    BY <1>7
  <2>2. 0 \in 0 .. n /\ \A j \in 1 .. n : j \in 0 .. n /\ j # 0
    BY <1>2
  <2> QED BY <2>1, <2>2
<1> DEFINE T == {i \in Nat : i <= n => Opens(g[i], i, sets)}
<1>9. 0 \in T
  <2>1. \A k \in 1 .. 1 : k = 1
    OBVIOUS
  <2>2. Opens(<<1>>, 0, sets)
    BY <1>4, <2>1 DEF Opens
  <2> QED BY <1>8, <2>2
<1>10. ASSUME NEW i \in Nat, i \in T PROVE i + 1 \in T
  <2> SUFFICES ASSUME i + 1 <= n PROVE Opens(g[i + 1], i + 1, sets)
    OBVIOUS
  <2>1. Opens(g[i], i, sets)
    BY <1>2, <1>10
  <2>2. i + 1 \in 1 .. n /\ (i + 1) - 1 = i
    BY <1>2
  <2>3. g[i + 1] = Next1(g[i], i + 1)
    BY <1>8, <2>2
  <2>4. g[i + 1] = g[i] \/ (Len(g[i]) < sets /\ g[i + 1] = Append(g[i], i + 1))
    BY <2>3 DEF Further
  <2> QED BY <2>1, <2>4, OpenNext
<1> HIDE DEF T
<1>11. n \in T
  BY <1>2, <1>9, <1>10, Induction
<1> QED BY <1>2, <1>7, <1>11 DEF T, n

\* A split of n records: where each set starts, and where the last one ends.
Splits(st, n, sets) ==
    /\ st[1] = 1 /\ st[sets + 1] = n + 1
    /\ \A j \in 1 .. sets + 1 : st[j] \in Int
    /\ \A j, k \in 1 .. sets + 1 : j <= k => st[j] <= st[k]

\* The records of every rank are split, whatever the mean times are.
LEMMA AllSplit ==
    ASSUME NEW sets \in Nat \ {0}, NEW r \in Ranks, Len(particles[r]) \in Nat
    PROVE  Splits(splitSets(sets)[r], Len(particles[r]), sets)
<1> DEFINE n == Len(particles[r])
<1>1. CASE sets <= 1
  <2>1. sets = 1 /\ splitSets(sets)[r] = <<1, n + 1>>
    BY <1>1 DEF splitSets
  <2> HIDE DEF n
  <2>2. n \in Nat
    BY DEF n
  <2> QED BY <2>1, <2>2 DEF Splits, n
<1>2. CASE ~ (sets <= 1)
  <2>1. PICK means : splitSets(sets)[r] = reassigned(r, means, sets)
    BY <1>2 DEF splitSets, iteration
  <2> DEFINE st == opened(r, means, sets)
             new == reassigned(r, means, sets)
  <2>2. Opens(st, n, sets)
    BY Opened
  <2>3. \A j \in 1 .. sets + 1 :
           new[j] = IF j <= Len(st) THEN st[j] ELSE IF j <= sets THEN st[Len(st)] ELSE n + 1
    BY DEF reassigned
  <2> HIDE DEF st, new, n
  <2>4. /\ Len(st) \in 1 .. sets /\ \A k \in 1 .. Len(st) : st[k] \in Nat /\ st[k] <= n + 1
        /\ st[1] = 1 /\ \A j, k \in 1 .. Len(st) : j <= k => st[j] <= st[k]
    BY <2>2, ElementOfSeq DEF Opens
  <2>5. n \in Nat
    BY DEF n
  <2> DEFINE c(j) == IF j <= Len(st) THEN j ELSE Len(st)
  <2>6. \A j \in 1 .. sets : c(j) \in 1 .. Len(st) /\ new[j] = st[c(j)]
    BY <2>3, <2>4
  <2>7. new[sets + 1] = n + 1 /\ new[1] = 1
    BY <2>3, <2>4
  <2>8. \A j \in 1 .. sets + 1 : j \in 1 .. sets \/ j = sets + 1
    OBVIOUS
  <2>9. ASSUME NEW j \in 1 .. sets + 1, NEW k \in 1 .. sets + 1, j <= k
        PROVE  new[j] <= new[k]
    <3>1. CASE k = sets + 1
      <4>1. new[j] <= n + 1
        BY <2>4, <2>5, <2>6, <2>7, <2>8
      <4> QED BY <2>7, <3>1, <4>1
    <3>2. CASE k \in 1 .. sets
      <4>1. j \in 1 .. sets /\ c(j) <= c(k)
        BY <2>4, <2>9, <3>2
      <4> HIDE DEF c
      <4>2. st[c(j)] <= st[c(k)]
        BY <2>4, <2>6, <3>2, <4>1
      <4> QED BY <2>6, <3>2, <4>1, <4>2
    <3> QED BY <2>8, <3>1, <3>2
  <2>10. \A j \in 1 .. sets + 1 : new[j] \in Int
    BY <2>4, <2>5, <2>6, <2>7, <2>8
  <2> QED BY <2>1, <2>7, <2>9, <2>10 DEF Splits, n, new
<1> QED BY <1>1, <1>2

\* Record i is in exactly one set of a split.
InOneOf(st, sets, i) ==
    \E j \in 1 .. sets : \A k \in 1 .. sets : (i \in st[k] .. st[k + 1] - 1) <=> k = j

\* So is every record.
LEMMA InOneSet ==
    ASSUME NEW n \in Nat, NEW sets \in Nat \ {0}, NEW st, Splits(st, n, sets), NEW i \in 1 .. n
    PROVE  InOneOf(st, sets, i)
<1> DEFINE T == {j \in 1 .. sets : st[j] <= i}
<1>1. T \in SUBSET (0 .. sets) /\ 1 \in T
  BY DEF Splits
<1> DEFINE j == Max(T)
<1>2. j \in T /\ \A k \in T : k <= j
  BY <1>1, Greatest
<1> HIDE DEF j
<1>3. j \in 1 .. sets /\ j + 1 \in 1 .. sets + 1 /\ st[j] <= i
  BY <1>2
<1>4. st[j] \in Int /\ st[j + 1] \in Int
  BY <1>3 DEF Splits
<1>5. i < st[j + 1]
  <2>1. CASE j = sets
    BY <2>1 DEF Splits
  <2>2. CASE j # sets
    <3>1. j + 1 \in 1 .. sets /\ j + 1 \notin T
      BY <1>2, <1>3, <2>2
    <3> QED BY <1>4, <3>1
  <2> QED BY <2>1, <2>2
<1>6. ASSUME NEW k \in 1 .. sets, i \in st[k] .. st[k + 1] - 1 PROVE k = j
  <2>1. k \in 1 .. sets + 1 /\ k + 1 \in 1 .. sets + 1 /\ j \in 1 .. sets + 1
    BY <1>3
  <2>2. st[k] \in Int /\ st[k + 1] \in Int
    BY <2>1 DEF Splits
  <2>3. st[k] <= i /\ i < st[k + 1]
    BY <1>6, <2>2
  <2>4. k \in T
    BY <2>3
  <2>5. k <= j
    BY <1>2, <2>4
  <2>6. ASSUME k < j PROVE FALSE
    <3>1. k + 1 <= j
      BY <1>3, <2>6
    <3>2. st[k + 1] <= st[j]
      BY <2>1, <3>1 DEF Splits
    <3> QED BY <1>3, <1>4, <2>2, <2>3, <3>2
  <2> QED BY <1>3, <2>5, <2>6
<1>7. i \in st[j] .. st[j + 1] - 1
  BY <1>3, <1>4, <1>5
<1> HIDE DEF T
<1> QED BY <1>3, <1>6, <1>7 DEF InOneOf

\* The crossings that a set of the file holds.
Holds(set, c) == \E h \in set.hits : idOf(h) = c

\* Of the sets of the split, set j alone holds crossing c.
HeldBy(j, sets, c) == \A k \in 1 .. sets : Holds(setOf(splitSets(sets), k), c) <=> k = j

\* A record is in set j of the split.
LEMMA HitsOfSet ==
    ASSUME NEW sets \in Nat \ {0}, particles \in [Ranks -> Seq(Hit)], NEW j \in 1 .. sets, NEW c
    PROVE  Holds(setOf(splitSets(sets), j), c) <=>
              \E r \in Ranks : \E i \in 1 .. Len(particles[r]) :
                 /\ i \in splitSets(sets)[r][j] .. splitSets(sets)[r][j + 1] - 1
                 /\ idOf(particles[r][i]) = c
<1> DEFINE starts == splitSets(sets)
           In(r) == \E i \in 1 .. Len(particles[r]) :
                       i \in starts[r][j] .. starts[r][j + 1] - 1 /\ idOf(particles[r][i]) = c
<1>1. ASSUME NEW r \in Ranks
      PROVE  (\E h \in ToSet(part(r, starts, j)) : idOf(h) = c) <=> In(r)
  <2> DEFINE n == Len(particles[r])
             m == starts[r][j]
             l == starts[r][j + 1] - 1
             s == SubSeq(particles[r], m, l)
  <2>1. n \in Nat /\ particles[r] \in Seq(Hit)
    BY LenProperties
  <2>2. Splits(starts[r], n, sets)
    BY <2>1, AllSplit
  <2> HIDE DEF starts
  <2>3. m \in Int /\ l \in Int /\ 1 <= m /\ l <= n
    <3>1. /\ j \in 1 .. sets + 1 /\ j + 1 \in 1 .. sets + 1 /\ 1 \in 1 .. sets + 1
          /\ sets + 1 \in 1 .. sets + 1 /\ 1 <= j /\ j + 1 <= sets + 1
      OBVIOUS
    <3>2. /\ starts[r][j] \in Int /\ starts[r][j + 1] \in Int
          /\ starts[r][1] <= starts[r][j] /\ starts[r][j + 1] <= starts[r][sets + 1]
      BY <2>2, <3>1 DEF Splits
    <3>3. starts[r][1] = 1 /\ starts[r][sets + 1] = n + 1
      BY <2>2 DEF Splits
    <3> HIDE DEF n
    <3> QED BY <2>1, <3>2, <3>3
  <2> HIDE DEF n, m, l
  <2>4. \A i \in m .. l : i \in 1 .. n
    BY <2>1, <2>3
  <2>5. \A i \in m .. l : particles[r][i] \in Hit
    BY <2>1, <2>4, ElementOfSeq DEF n
  <2>6. /\ s \in Seq(Hit) /\ Len(s) = IF m <= l THEN l - m + 1 ELSE 0
        /\ \A i \in 1 .. l - m + 1 : s[i] = particles[r][m + i - 1]
    BY <2>3, <2>5, SubSeqProperties
  <2>7. DOMAIN s = 1 .. Len(s)
    BY <2>6, LenProperties
  <2> HIDE DEF s
  <2>8. DOMAIN s = 1 .. l - m + 1
    BY <2>3, <2>6, <2>7
  <2>9. ASSUME NEW h \in ToSet(s), idOf(h) = c PROVE In(r)
    <3>1. PICK k \in 1 .. l - m + 1 : h = s[k]
      BY <2>8, <2>9 DEF ToSet
    <3>2. m + k - 1 \in m .. l /\ s[k] = particles[r][m + k - 1]
      BY <2>3, <2>6, <3>1
    <3> QED BY <2>4, <2>9, <3>1, <3>2 DEF n, m, l
  <2>10. ASSUME NEW i \in 1 .. n, i \in m .. l, idOf(particles[r][i]) = c
         PROVE  \E h \in ToSet(s) : idOf(h) = c
    <3>1. i - m + 1 \in 1 .. l - m + 1 /\ m + (i - m + 1) - 1 = i
      BY <2>3, <2>10
    <3>2. s[i - m + 1] = particles[r][i]
      BY <2>6, <3>1
    <3>3. s[i - m + 1] \in ToSet(s)
      BY <2>8, <3>1 DEF ToSet
    <3> QED BY <2>10, <3>2, <3>3
  <2>11. part(r, starts, j) = s
    BY DEF part, s, m, l
  <2> QED BY <2>9, <2>10, <2>11 DEF n, m, l
<1>2. setOf(starts, j).hits = UNION {ToSet(part(r, starts, j)) : r \in Ranks}
  BY DEF setOf
<1> HIDE DEF starts
<1>3. Holds(setOf(starts, j), c) <=> \E r \in Ranks : \E h \in ToSet(part(r, starts, j)) : idOf(h) = c
  BY <1>2 DEF Holds
<1> QED BY <1>1, <1>3 DEF starts

\* What is said of the records in memory: each of them is a crossing of the job, and
\* no crossing was recorded twice.
RecordedOnce ==
    /\ \A c : c \in crossed <=>
          \E r \in Ranks : \E i \in 1 .. Len(particles[r]) : idOf(particles[r][i]) = c
    /\ \A q, r \in Ranks : \A i \in 1 .. Len(particles[q]) : \A k \in 1 .. Len(particles[r]) :
          idOf(particles[q][i]) = idOf(particles[r][k]) => q = r /\ i = k

\* A crossing is in one set of the split.
LEMMA CrossingInOneSet ==
    ASSUME NEW sets \in Nat \ {0}, particles \in [Ranks -> Seq(Hit)], RecordedOnce,
           NEW c \in crossed
    PROVE  \E j \in 1 .. sets : HeldBy(j, sets, c)
<1>1. PICK r \in Ranks : \E i \in 1 .. Len(particles[r]) : idOf(particles[r][i]) = c
  BY DEF RecordedOnce
<1>2. PICK i \in 1 .. Len(particles[r]) : idOf(particles[r][i]) = c
  BY <1>1
<1> DEFINE st == splitSets(sets)[r]
           n == Len(particles[r])
<1>3. n \in Nat /\ i \in 1 .. n
  BY LenProperties
<1>4. Splits(st, n, sets)
  BY <1>3, AllSplit
<1> HIDE DEF st, n
<1>5. PICK j \in 1 .. sets : \A k \in 1 .. sets : (i \in st[k] .. st[k + 1] - 1) <=> k = j
  <2>1. InOneOf(st, sets, i)
    BY <1>3, <1>4, InOneSet
  <2> QED BY <2>1 DEF InOneOf
<1>6. ASSUME NEW k \in 1 .. sets
      PROVE  Holds(setOf(splitSets(sets), k), c) <=> i \in st[k] .. st[k + 1] - 1
  <2>1. Holds(setOf(splitSets(sets), k), c) <=>
              \E q \in Ranks : \E l \in 1 .. Len(particles[q]) :
                 /\ l \in splitSets(sets)[q][k] .. splitSets(sets)[q][k + 1] - 1
                 /\ idOf(particles[q][l]) = c
    BY HitsOfSet
  <2>2. \A q \in Ranks : \A l \in 1 .. Len(particles[q]) :
           idOf(particles[q][l]) = c => q = r /\ l = i
    BY <1>2 DEF RecordedOnce
  <2> QED BY <1>2, <2>1, <2>2 DEF st
<1> QED BY <1>5, <1>6 DEF HeldBy

\* The sets that are written hold a crossing once, if one of the split does.
LEMMA WrittenOnce ==
    ASSUME references \in Seq(0 .. Steps - 1),
           \A i, j \in DOMAIN references : i < j => references[i] <= references[j],
           NEW n \in Nat, n <= Len(references), NEW c, NEW j0 \in 1 .. n, HeldBy(j0, n, c)
    PROVE  \E i0 \in 1 .. Len(savedSets(n)) :
              \A i \in 1 .. Len(savedSets(n)) : Holds(savedSets(n)[i], c) <=> i = i0
<1> DEFINE Once(f, m) ==
              /\ m < j0 => \A i \in 1 .. Len(f) : ~Holds(f[i], c)
              /\ m >= j0 => \E i0 \in 1 .. Len(f) :
                               \A i \in 1 .. Len(f) : Holds(f[i], c) <=> i = i0
<1>1. Len(references) \in Nat
  BY LenProperties
<1>2. PICK g : /\ savedSets(n) = g[n] /\ g[0] = <<>>
               /\ \A j \in 1 .. n : g[j] = IF setOf(splitSets(n), j).hits = {} THEN g[j - 1]
                                           ELSE Append(g[j - 1], setOf(splitSets(n), j))
  BY SavedRecursion
<1> DEFINE T == {m \in Nat : m <= n => FromPassages(g[m], m) /\ Once(g[m], m)}
<1>3. 0 \in T
  <2>1. IsFile(<<>>) /\ monotonic(<<>>) /\ Len(<<>>) = 0
    BY EmptySeq DEF IsFile, IsSeq, monotonic
  <2>2. FromPassages(g[0], 0)
    BY <1>2, <2>1 DEF FromPassages
  <2>3. Once(g[0], 0)
    BY <1>2, <2>1
  <2> HIDE DEF Once
  <2> QED BY <2>2, <2>3
<1>4. ASSUME NEW m \in Nat, m \in T PROVE m + 1 \in T
  <2> SUFFICES ASSUME m + 1 <= n PROVE FromPassages(g[m + 1], m + 1) /\ Once(g[m + 1], m + 1)
    <3> HIDE DEF Once
    <3> QED OBVIOUS
  <2> DEFINE set == setOf(splitSets(n), m + 1)
             f == g[m]
             new == Append(f, set)
  <2>1. FromPassages(f, m) /\ Once(f, m)
    <3> HIDE DEF Once
    <3> QED BY <1>4
  <2>2. set.step = references[m + 1]
    BY DEF setOf
  <2>3. m + 1 \in 1 .. n /\ (m + 1) - 1 = m /\ m + 1 <= Len(references)
    BY <1>1
  <2>4. g[m + 1] = IF set.hits = {} THEN f ELSE new
    BY <1>2, <2>3
  <2>5. FromPassages(f, m + 1) /\ FromPassages(new, m + 1)
    BY <2>1, <2>2, <2>3, NextPassage
  <2>6. Holds(set, c) <=> m + 1 = j0
    BY <2>3 DEF HeldBy
  <2>7. set.hits = {} => ~Holds(set, c)
    BY DEF Holds
  <2> DEFINE l == Len(f)
  <2>8. l \in Nat /\ Len(new) = l + 1 /\ new[l + 1] = set /\ \A i \in 1 .. l : new[i] = f[i]
    <3>1. f \in Seq(ToSet(f) \cup {set}) /\ set \in ToSet(f) \cup {set}
      BY <2>1, SeqMonotonic DEF FromPassages, IsFile, IsSeq
    <3> HIDE DEF f, set
    <3> QED BY <3>1, AppendProperties, LenProperties
  <2> HIDE DEF new, l, set, f
  <2>9. \A i \in 1 .. l + 1 : i = l + 1 \/ i \in 1 .. l
    BY <2>8
  <2>10. l + 1 \in 1 .. l + 1 /\ \A i \in 1 .. l : i \in 1 .. l + 1 /\ i # l + 1
    BY <2>8
  <2>11. CASE set.hits = {}
    <3>1. m + 1 # j0 /\ (m + 1 < j0 => m < j0) /\ (m + 1 >= j0 => m >= j0)
      BY <2>6, <2>7, <2>11
    <3>2. Once(f, m + 1)
      BY <2>1, <3>1
    <3> HIDE DEF Once
    <3> QED BY <2>4, <2>5, <2>11, <3>2
  <2>12. CASE set.hits # {}
    <3>1. CASE m + 1 < j0
      <4>1. m < j0 /\ ~Holds(set, c) /\ ~(m + 1 >= j0)
        BY <2>6, <3>1
      <4>2. \A i \in 1 .. l : ~Holds(f[i], c)
        BY <2>1, <4>1 DEF l
      <4>3. \A i \in 1 .. Len(new) : ~Holds(new[i], c)
        BY <2>8, <2>9, <4>1, <4>2
      <4>4. Once(new, m + 1)
        BY <4>1, <4>3
      <4> HIDE DEF Once
      <4> QED BY <2>4, <2>5, <2>12, <4>4
    <3>2. CASE m + 1 = j0
      <4>1. m < j0 /\ Holds(set, c) /\ ~(m + 1 < j0)
        BY <2>6, <3>2
      <4>2. \A i \in 1 .. l : ~Holds(f[i], c)
        BY <2>1, <4>1 DEF l
      <4>3. \A i \in 1 .. Len(new) : Holds(new[i], c) <=> i = l + 1
        BY <2>8, <2>9, <2>10, <4>1, <4>2
      <4>4. Once(new, m + 1)
        BY <2>8, <2>10, <4>1, <4>3
      <4> HIDE DEF Once
      <4> QED BY <2>4, <2>5, <2>12, <4>4
    <3>3. CASE m + 1 > j0
      <4>1. m >= j0 /\ ~Holds(set, c) /\ ~(m + 1 < j0)
        BY <2>6, <3>3
      <4>2. PICK i0 \in 1 .. l : \A i \in 1 .. l : Holds(f[i], c) <=> i = i0
        BY <2>1, <4>1 DEF l
      <4>3. \A i \in 1 .. Len(new) : Holds(new[i], c) <=> i = i0
        BY <2>8, <2>9, <2>10, <4>1, <4>2
      <4>4. Once(new, m + 1)
        BY <2>8, <2>10, <4>1, <4>2, <4>3
      <4> HIDE DEF Once
      <4> QED BY <2>4, <2>5, <2>12, <4>4
    <3> QED BY <3>1, <3>2, <3>3
  <2> QED BY <2>11, <2>12
<1> HIDE DEF T
<1>5. n \in T
  BY <1>3, <1>4, Induction
<1>6. Once(g[n], n)
  <2> HIDE DEF Once
  <2> QED BY <1>5 DEF T
<1> QED BY <1>2, <1>6

\* Equal quotients of two multiples.
LEMMA Quotients ==
    ASSUME NEW a \in Int, NEW b \in Int, a % Period = 0, b % Period = 0,
           a \div Period = b \div Period
    PROVE  a = b
BY Numbers

\* A record of an earlier step: of a particle that crossed at its time.
Earlier(h) ==
    LET since == h.time - offset[h.id] - FirstPassage
    IN  h.time < step /\ since % Period = 0 /\ h.passage = since \div Period

\* A spatial monitor on its way keeps every crossing of its job in memory, once.
Recorded ==
    kind = "spatial" /\ phase = "tracking" =>
        /\ kept = Len(file)
        /\ RecordedOnce
        /\ \A r \in Ranks : \A i \in 1 .. Len(particles[r]) : Earlier(particles[r][i])

\* A step records the crossings of this step, which are none of the earlier ones: the
\* passages of a particle are a revolution apart.
LEMMA StepRecords ==
    ASSUME Types, Recorded, kind = "spatial", phase = "tracking", UNCHANGED offset,
           step' = step + 1, NEW holder \in [crossing -> Ranks],
           particles' = spatialHits(holder),
           crossed' = crossed \cup {<<p, passageOf(p)>> : p \in crossing}
    PROVE  /\ RecordedOnce'
           /\ \A r \in Ranks : \A i \in 1 .. Len(particles[r])' : Earlier(particles[r][i])'
<1> DEFINE n(r) == Len(particles[r])
           m(r) == Len(recorded(r, holder))
           old(r, i) == particles[r][i]
           new(r, i) == recorded(r, holder)[i]
           all(r, i) == particles'[r][i]
           hit(p) == [id |-> p, passage |-> passageOf(p), time |-> step]
<1>1. step \in Int /\ \A p \in crossing : p \in Particles /\ offset[p] \in Int /\ crosses(step - offset[p])
  <2>1. step \in 0 .. Steps /\ crossing \subseteq Particles /\ \A p \in Particles : offset[p] \in Offsets
    BY DEF Types, crossing
  <2>2. step \in Int /\ \A p \in crossing : p \in Particles /\ offset[p] \in Int
    <3>1. \A k \in 0 .. Steps : k \in Int
      OBVIOUS
    <3>2. \A k \in Offsets : k \in Int
      OBVIOUS
    <3> QED BY <2>1, <3>1, <3>2, Zenon
  <2> QED BY <2>2 DEF crossing
<1>2. ASSUME NEW r \in Ranks
      PROVE  /\ n(r) \in Nat /\ m(r) \in Nat /\ Len(particles'[r]) = n(r) + m(r)
             /\ \A i \in 1 .. n(r) + m(r) : all(r, i) = IF i <= n(r) THEN old(r, i) ELSE new(r, i - n(r))
  <2>1. particles[r] \in Seq(Hit) /\ recorded(r, holder) \in Seq(Hit)
    BY RecordedHits DEF Types
  <2>2. particles'[r] = particles[r] \o recorded(r, holder)
    BY DEF spatialHits
  <2> QED BY <2>1, <2>2, ConcatProperties, LenProperties
<1>3. ASSUME NEW r \in Ranks
      PROVE  /\ \A i \in 1 .. m(r) : \E p \in crossing : holder[p] = r /\ new(r, i) = hit(p)
             /\ \A p \in crossing : holder[p] = r => \E i \in 1 .. m(r) : new(r, i) = hit(p)
             /\ \A i, k \in 1 .. m(r) : new(r, i) = new(r, k) => i = k
  <2> DEFINE S == {hit(p) : p \in {q \in crossing : holder[q] = r}}
  <2>1. Lists(recorded(r, holder), S)
    BY RecordedHits
  <2>2. \A i \in 1 .. m(r) : new(r, i) \in S
    <3> HIDE DEF S
    <3> QED BY <2>1, ElementOfSeq DEF Lists
  <2> QED BY <2>1, <2>2 DEF Lists
<1> HIDE DEF new, m
<1>4. ASSUME NEW q \in Ranks, NEW i \in 1 .. n(q)
      PROVE  Earlier(old(q, i)) /\ old(q, i) \in Hit
  <2>1. particles[q] \in Seq(Hit)
    BY DEF Types
  <2> QED BY <2>1, ElementOfSeq DEF Recorded
<1>5. ASSUME NEW p \in crossing, NEW q \in Ranks, NEW i \in 1 .. n(q)
      PROVE  idOf(old(q, i)) # <<p, passageOf(p)>>
  <2> SUFFICES ASSUME idOf(old(q, i)) = <<p, passageOf(p)>> PROVE FALSE
    OBVIOUS
  <2> DEFINE h == old(q, i)
  <2>1. h.id = p /\ h.passage = passageOf(p) /\ h.time \in Int
    BY <1>4 DEF idOf, Hit
  <2>2. Earlier(h)
    BY <1>4
  <2> HIDE DEF h
  <2> DEFINE a == h.time - offset[p] - FirstPassage
             b == step - offset[p] - FirstPassage
  <2>3. a % Period = 0 /\ a \div Period = passageOf(p) /\ h.time < step
    BY <2>1, <2>2 DEF Earlier
  <2>4. b % Period = 0 /\ b \div Period = passageOf(p)
    BY <1>1, Zenon DEF crosses, passageOf
  <2>5. a \in Int /\ b \in Int
    BY <1>1, <2>1
  <2>6. a = b
    <3> HIDE DEF a, b
    <3> QED BY <2>3, <2>4, <2>5, Quotients
  <2> QED BY <1>1, <2>1, <2>3, <2>6
<1>6. ASSUME NEW r \in Ranks, NEW i \in 1 .. n(r) + m(r)
      PROVE  \/ i \in 1 .. n(r) /\ all(r, i) = old(r, i)
             \/ /\ i - n(r) \in 1 .. m(r) /\ all(r, i) = new(r, i - n(r))
                /\ \E p \in crossing : all(r, i) = hit(p)
  <2>1. n(r) \in Nat /\ m(r) \in Nat /\ all(r, i) = IF i <= n(r) THEN old(r, i) ELSE new(r, i - n(r))
    BY <1>2
  <2> HIDE DEF all, n, hit, old
  <2>2. CASE i <= n(r)
    BY <2>1, <2>2
  <2>3. CASE ~(i <= n(r))
    <3>1. i - n(r) \in 1 .. m(r) /\ all(r, i) = new(r, i - n(r))
      BY <2>1, <2>3
    <3> QED BY <1>3, <3>1
  <2> QED BY <2>2, <2>3
<1>7. \A p : /\ hit(p).id = p /\ hit(p).passage = passageOf(p) /\ hit(p).time = step
             /\ idOf(hit(p)) = <<p, passageOf(p)>>
  BY DEF idOf
<1> HIDE DEF old, n, all, hit
<1>8. ASSUME NEW q \in Ranks, NEW r \in Ranks, NEW i \in 1 .. n(q) + m(q), NEW k \in 1 .. n(r) + m(r),
             idOf(all(q, i)) = idOf(all(r, k))
      PROVE  q = r /\ i = k
  <2>1. CASE i \in 1 .. n(q) /\ all(q, i) = old(q, i) /\ k \in 1 .. n(r) /\ all(r, k) = old(r, k)
    BY <1>8, <2>1 DEF Recorded, RecordedOnce, old, n
  <2>2. ASSUME i \in 1 .. n(q), all(q, i) = old(q, i), NEW p \in crossing, all(r, k) = hit(p)
        PROVE  FALSE
    <3>1. idOf(old(q, i)) = <<p, passageOf(p)>>
      BY <1>8, <1>7, <2>2
    <3> QED BY <1>5, <2>2, <3>1
  <2>3. ASSUME k \in 1 .. n(r), all(r, k) = old(r, k), NEW p \in crossing, all(q, i) = hit(p)
        PROVE  FALSE
    <3>1. idOf(old(r, k)) = <<p, passageOf(p)>>
      BY <1>8, <1>7, <2>3
    <3> QED BY <1>5, <2>3, <3>1
  <2>4. CASE /\ i - n(q) \in 1 .. m(q) /\ all(q, i) = new(q, i - n(q))
             /\ k - n(r) \in 1 .. m(r) /\ all(r, k) = new(r, k - n(r))
    <3>1. PICK p1 \in crossing : holder[p1] = q /\ new(q, i - n(q)) = hit(p1)
      BY <1>3, <2>4
    <3>2. PICK p2 \in crossing : holder[p2] = r /\ new(r, k - n(r)) = hit(p2)
      BY <1>3, <2>4
    <3>3. p1 = p2
      BY <1>8, <1>7, <2>4, <3>1, <3>2
    <3>4. q = r /\ new(q, i - n(q)) = new(q, k - n(q))
      BY <3>1, <3>2, <3>3
    <3>5. i - n(q) = k - n(q)
      BY <1>3, <2>4, <3>4
    <3>6. i \in Int /\ k \in Int /\ n(q) \in Int
      BY <1>2
    <3> QED BY <3>4, <3>5, <3>6
  <2> QED BY <1>6, <2>1, <2>2, <2>3, <2>4
<1>9. ASSUME NEW c
      PROVE  c \in crossed' <=> \E r \in Ranks : \E i \in 1 .. n(r) + m(r) : idOf(all(r, i)) = c
  <2>1. ASSUME c \in crossed PROVE \E r \in Ranks : \E i \in 1 .. n(r) + m(r) : idOf(all(r, i)) = c
    <3>1. PICK r \in Ranks : \E i \in 1 .. n(r) : idOf(old(r, i)) = c
      BY <2>1 DEF Recorded, RecordedOnce, old, n
    <3>2. PICK i \in 1 .. n(r) : idOf(old(r, i)) = c
      BY <3>1
    <3>3. i \in 1 .. n(r) + m(r) /\ all(r, i) = old(r, i)
      BY <1>2
    <3> QED BY <3>2, <3>3
  <2>2. ASSUME NEW p \in crossing, c = <<p, passageOf(p)>>
        PROVE  \E r \in Ranks : \E i \in 1 .. n(r) + m(r) : idOf(all(r, i)) = c
    <3>1. holder[p] \in Ranks
      OBVIOUS
    <3>2. PICK k \in 1 .. m(holder[p]) : new(holder[p], k) = hit(p)
      BY <1>3, <3>1
    <3> DEFINE r == holder[p]
    <3>3. n(r) + k \in 1 .. n(r) + m(r) /\ all(r, n(r) + k) = new(r, k)
      BY <1>2, <3>1
    <3> QED BY <1>7, <2>2, <3>1, <3>2, <3>3
  <2>3. ASSUME NEW r \in Ranks, NEW i \in 1 .. n(r) + m(r), idOf(all(r, i)) = c PROVE c \in crossed'
    <3>1. CASE i \in 1 .. n(r) /\ all(r, i) = old(r, i)
      <4>1. c \in crossed
        BY <2>3, <3>1 DEF Recorded, RecordedOnce, old, n
      <4> QED BY <4>1
    <3>2. CASE \E p \in crossing : all(r, i) = hit(p)
      BY <1>7, <2>3, <3>2
    <3> QED BY <1>6, <3>1, <3>2
  <2> QED BY <2>1, <2>2, <2>3
<1>10. ASSUME NEW r \in Ranks, NEW i \in 1 .. n(r) + m(r)
      PROVE  LET h == all(r, i)
                 since == h.time - offset[h.id] - FirstPassage
             IN  h.time < step + 1 /\ since % Period = 0 /\ h.passage = since \div Period
  <2>1. CASE i \in 1 .. n(r) /\ all(r, i) = old(r, i)
    <3>1. Earlier(old(r, i)) /\ old(r, i).time \in Int
      BY <1>4, <2>1 DEF Hit
    <3> QED BY <1>1, <2>1, <3>1 DEF Earlier
  <2>2. CASE \E p \in crossing : all(r, i) = hit(p)
    BY <1>1, <1>7, <2>2 DEF crosses, passageOf
  <2> QED BY <1>6, <2>1, <2>2
<1>11. \A r \in Ranks : Len(particles[r])' = n(r) + m(r)
  BY <1>2
<1>12. RecordedOnce'
  BY <1>8, <1>9, <1>11 DEF RecordedOnce, all
<1>13. \A r \in Ranks : \A i \in 1 .. Len(particles[r])' : Earlier(particles[r][i])'
  BY <1>10, <1>11 DEF Earlier, all
<1> QED BY <1>12, <1>13

\* Every step keeps them.
LEMMA NextRecorded == Types /\ Recorded /\ [Next]_vars => Recorded'
<1> SUFFICES ASSUME Types, Recorded, [Next]_vars, kind' = "spatial", phase' = "tracking"
             PROVE  /\ kept' = Len(file)'
                    /\ RecordedOnce'
                    /\ \A r \in Ranks : \A i \in 1 .. Len(particles[r])' : Earlier(particles[r][i])'
  BY DEF Recorded
<1>1. ASSUME particles' = Empty, crossed' = {}
      PROVE  /\ RecordedOnce'
             /\ \A r \in Ranks : \A i \in 1 .. Len(particles[r])' : Earlier(particles[r][i])'
  <2>1. \A r \in Ranks : Len(particles[r])' = 0
    BY <1>1, EmptySeq DEF Empty
  <2>2. 1 .. 0 = {}
    OBVIOUS
  <2> QED BY <1>1, <2>1, <2>2 DEF RecordedOnce
<1>2. CASE TimeStep
  <2>1. kind = "spatial" /\ phase = "tracking" /\ UNCHANGED offset /\ kept' = kept /\ step' = step + 1
    BY <1>2, TimeStepEffect
  <2>2. PICK holder \in [crossing -> Ranks] :
           /\ particles' = spatialHits(holder) /\ file' = file
           /\ crossed' = crossed \cup {<<p, passageOf(p)>> : p \in crossing}
    BY <1>2, <2>1 DEF TimeStep
  <2>3. kept' = Len(file)'
    BY <2>1, <2>2 DEF Recorded
  <2> QED BY <2>1, <2>2, <2>3, StepRecords
<1>3. CASE Restart
  BY <1>1, <1>3 DEF Restart
<1>4. CASE StartAfresh
  <2>1. kept' = 0 /\ file' = <<>> /\ particles' = Empty /\ crossed' = {}
    BY <1>4 DEF StartAfresh, fileOfFreshJob
  <2> QED BY <1>1, <2>1, EmptySeq
<1>5. CASE GoOffline \/ Kill
  BY <1>5 DEF GoOffline, Kill
<1>6. CASE UNCHANGED vars
  BY <1>6 DEF vars, job, beam, sink, history, Recorded, RecordedOnce, Earlier
<1> QED BY <1>2, <1>3, <1>4, <1>5, <1>6 DEF Next

\* When the run ends, every crossing goes into one set behind those that were there.
LEMMA NextWritten == Types /\ Ordered /\ Recorded /\ CrossingsWrittenOnce /\ [Next]_vars
                        => CrossingsWrittenOnce'
<1> SUFFICES ASSUME Types, Ordered, Recorded, CrossingsWrittenOnce, [Next]_vars,
                    kind' = "spatial", phase' = "ended", passages' > 0, NEW c \in crossed'
             PROVE  Cardinality({i \in newSets' : \E h \in file'[i].hits : idOf(h) = c}) = 1
  BY DEF CrossingsWrittenOnce, idOf
<1>1. CASE GoOffline
  <2>1. /\ kind = "spatial" /\ phase = "tracking" /\ passages' = passages /\ crossed' = crossed
        /\ kept' = kept
    BY <1>1 DEF GoOffline, job, history
  <2>2. /\ kept = Len(file) /\ RecordedOnce /\ particles \in [Ranks -> Seq(Hit)]
        /\ passages \in Nat \ {0} /\ Len(references) = passages /\ references \in Seq(0 .. Steps - 1)
        /\ \A i, j \in DOMAIN references : i < j => references[i] <= references[j]
    BY <2>1 DEF Recorded, Types, Ordered
  <2>3. ~noParticlesToDump
    <3>1. PICK r \in Ranks : \E i \in 1 .. Len(particles[r]) : idOf(particles[r][i]) = c
      BY <2>1, <2>2 DEF RecordedOnce
    <3>2. particles[r] # <<>>
      <4>1. 1 .. 0 = {} /\ Len(<<>>) = 0
        BY EmptySeq
      <4> QED BY <3>1, <4>1
    <3> QED BY <3>2 DEF noParticlesToDump
  <2> DEFINE g == savedSets(passages)
             k == Len(file)
  <2>4. file' = file \o g
    BY <1>1, <2>1, <2>3 DEF GoOffline
  <2>5. PICK i0 \in 1 .. Len(g) : \A i \in 1 .. Len(g) : Holds(g[i], c) <=> i = i0
    <3>1. PICK j0 \in 1 .. passages : HeldBy(j0, passages, c)
      BY <2>1, <2>2, CrossingInOneSet
    <3>2. \E i0 \in 1 .. Len(savedSets(passages)) :
             \A i \in 1 .. Len(savedSets(passages)) : Holds(savedSets(passages)[i], c) <=> i = i0
      BY <2>2, <3>1, WrittenOnce
    <3> QED BY <3>2
  <2>6. IsFile(file) /\ IsFile(g)
    BY <2>2, SavedSets DEF Types, FromPassages
  <2> HIDE DEF g
  <2>7. /\ k \in Nat /\ Len(g) \in Nat /\ DOMAIN file' = 1 .. k + Len(g)
        /\ \A i \in 1 .. k + Len(g) : i > k => file'[i] = g[i - k]
    <3>1. file \in Seq(ToSet(file) \cup ToSet(g)) /\ g \in Seq(ToSet(file) \cup ToSet(g))
      BY <2>6, SeqMonotonic DEF IsFile, IsSeq
    <3> QED BY <2>4, <3>1, ConcatProperties, LenProperties
  <2>8. newSets' = k + 1 .. k + Len(g)
    BY <2>1, <2>2, <2>7 DEF newSets
  <2> DEFINE found == {i \in newSets' : \E h \in file'[i].hits : idOf(h) = c}
  <2>9. \A i \in newSets' : i - k \in 1 .. Len(g) /\ file'[i] = g[i - k]
    BY <2>7, <2>8
  <2>10. \A i \in newSets' : i \in found <=> i - k = i0
    BY <2>5, <2>9 DEF Holds
  <2>11. k + i0 \in newSets' /\ (k + i0) - k = i0 /\ \A i \in newSets' : i - k = i0 <=> i = k + i0
    BY <2>7, <2>8
  <2>12. found = {k + i0}
    BY <2>10, <2>11
  <2> HIDE DEF found
  <2>13. Cardinality(found) = 1
    BY <2>12, FS_Singleton
  <2> QED BY <2>13 DEF found
<1>2. CASE UNCHANGED vars
  BY <1>2 DEF vars, job, sink, history, CrossingsWrittenOnce, newSets, idOf
<1>3. CASE TimeStep \/ Kill \/ Restart \/ StartAfresh
  <2>1. TimeStep => phase' = "tracking"
    BY TimeStepEffect
  <2>2. Kill \/ Restart \/ StartAfresh => phase' # "ended"
    BY DEF Kill, Restart, StartAfresh
  <2> QED BY <1>3, <2>1, <2>2
<1> QED BY <1>1, <1>2, <1>3 DEF Next

\* For any ring, bunch, number of ranks, checkpoint frequency and sequence of kills,
\* restarts and fresh starts, the file of a monitor follows the run: that of a temporal
\* one has the passages of the bunch, and a spatial one writes every crossing of its job
\* into exactly one set, however splitSets guesses the passage.
THEOREM FileCorrect == Spec => []FileFollowsRun
<1>1. Init => Recorded /\ CrossingsWrittenOnce
  <2> SUFFICES ASSUME Init PROVE Recorded /\ CrossingsWrittenOnce
    OBVIOUS
  <2>1. \A r \in Ranks : Len(particles[r]) = 0
    BY EmptySeq DEF Init, Empty
  <2>2. 1 .. 0 = {} /\ Len(<<>>) = 0
    BY EmptySeq
  <2> QED BY <2>1, <2>2 DEF Init, Recorded, RecordedOnce, CrossingsWrittenOnce
<1>2. TypeOK /\ TemporalFollowsRun /\ CrossingsWrittenOnce => FileFollowsRun
  BY DEF FileFollowsRun
<1> QED BY <1>1, <1>2, MonitorTypeCorrect, TemporalCorrect, OrderedInvariant, NextRecorded,
           NextWritten, PTL DEF Spec
=============================================================================
