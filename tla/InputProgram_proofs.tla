------------------------ MODULE InputProgram_proofs -------------------------
(* InputProgram for any programs, called files and bound on values: the cached *)
(* values of expressions never get into what is executed or built once they    *)
(* are out of date, and the streams on the stack are those of the activations  *)
(* of run().                                                                   *)
EXTENDS InputProgram, FiniteSetTheorems, SequenceTheorems, WellFoundedInduction, TLAPS

-----------------------------------------------------------------------------
(* Recursion.                                                               *)

\* A set of natural numbers has a least element.
LEMMA Least ==
    ASSUME NEW T \in SUBSET Nat, T # {}
    PROVE  \E n \in T : \A m \in T : ~ (m < n)
<1>1. \E n \in T : \A m \in T : ~ (<<m, n>> \in OpToRel(<, Nat))
  BY NatLessThanWellFounded, WFMin
<1> QED BY <1>1 DEF OpToRel

\* Induction up to a number.
LEMMA InductionUpTo ==
    ASSUME NEW n \in Nat, NEW T, 0 \in T, \A i \in 0 .. n - 1 : i \in T => i + 1 \in T
    PROVE  \A i \in 0 .. n : i \in T
<1> DEFINE U == {i \in 0 .. n : i \notin T}
<1> SUFFICES ASSUME U # {} PROVE FALSE
  OBVIOUS
<1>1. U \in SUBSET Nat
  OBVIOUS
<1>2. \E i \in U : \A j \in U : ~ (j < i)
  <2> HIDE DEF U
  <2> QED BY <1>1, Least
<1>3. PICK i \in U : \A j \in U : ~ (j < i)
  BY <1>2
<1>4. i # 0 /\ i - 1 \in 0 .. n - 1 /\ (i - 1) + 1 = i
  BY <1>3
<1>5. i - 1 \in T
  BY <1>3, <1>4
<1> QED BY <1>3, <1>4, <1>5

\* The functions of a set to itself.
Operations(S) == [S -> S]

\* What n iterations of f on a give.
Iterates(S, f, a, n) ==
    \E g \in [0 .. n -> S] : g[0] = a /\ \A k \in 1 .. n : g[k] = f[g[k - 1]]

\* A function is iterated up to any number of times.
LEMMA Iteration ==
    ASSUME NEW S, NEW f \in Operations(S), NEW a \in S, NEW n \in Nat
    PROVE  Iterates(S, f, a, n)
<1>0. f \in [S -> S]
  BY DEF Operations
<1> DEFINE T == {m \in 0 .. n : \E g \in [0 .. m -> S] :
                                   g[0] = a /\ \A k \in 1 .. m : g[k] = f[g[k - 1]]}
<1>1. 0 \in T
  <2> DEFINE g == [k \in 0 .. 0 |-> a]
  <2>1. g \in [0 .. 0 -> S] /\ g[0] = a /\ 1 .. 0 = {}
    OBVIOUS
  <2> HIDE DEF g
  <2>2. \A k \in 1 .. 0 : g[k] = f[g[k - 1]]
    BY <2>1
  <2> QED BY <2>1, <2>2
<1>2. ASSUME NEW m \in 0 .. n - 1, m \in T PROVE m + 1 \in T
  <2>1. PICK g \in [0 .. m -> S] : g[0] = a /\ \A k \in 1 .. m : g[k] = f[g[k - 1]]
    BY <1>2
  <2> DEFINE h == [k \in 0 .. m + 1 |-> IF k <= m THEN g[k] ELSE f[g[m]]]
  <2>2. h \in [0 .. m + 1 -> S] /\ h[0] = a
    BY <1>0, <2>1
  <2>3. ASSUME NEW k \in 1 .. m + 1 PROVE h[k] = f[h[k - 1]]
    <3>1. h[k - 1] = g[k - 1]
      OBVIOUS
    <3>2. CASE k \in 1 .. m
      <4>1. h[k] = g[k]
        BY <3>2
      <4> QED BY <2>1, <3>1, <3>2, <4>1
    <3>3. CASE k = m + 1
      <4>1. h[k] = f[g[m]] /\ k - 1 = m
        BY <3>3
      <4> QED BY <3>1, <4>1
    <3> QED BY <3>2, <3>3
  <2> HIDE DEF h
  <2>4. m + 1 \in 0 .. n
    OBVIOUS
  <2> QED BY <2>2, <2>3, <2>4
<1>3. n \in T
  <2> HIDE DEF T
  <2>1. \A i \in 0 .. n : i \in T
    BY <1>1, <1>2, InductionUpTo
  <2> QED BY <2>1
<1> QED BY <1>3 DEF Iterates

-----------------------------------------------------------------------------
(* Evaluation.                                                              *)

Attributes == [value : 0 .. Cap, ref : STRING \cup {NoName}, plus : Nat, known : BOOLEAN]

\* What rounds of evaluation give the names of a directory.
Valuations(D) == [D -> Attributes]

\* A directory of attributes.
IsStore(s) == /\ IsFiniteSet(DOMAIN s) /\ \A n \in DOMAIN s : IsName(n)
              /\ s \in Valuations(DOMAIN s)

\* Caching an attribute.
LEMMA Cached ==
    ASSUME NEW x \in Attributes, NEW v \in 0 .. Cap
    PROVE  /\ cached(x, v) \in Attributes
           /\ cached(x, v).value = v /\ cached(x, v).known
           /\ cached(x, v).ref = x.ref /\ cached(x, v).plus = x.plus
BY DEF cached, Attributes

\* Sums stay in bounds.
LEMMA Capped == \A v \in Nat : capped(v) \in 0 .. Cap
BY InputAssumption DEF capped

\* One round of evaluation keeps the definition and a known value.
LEMMA Settled ==
    ASSUME NEW D, NEW x \in Attributes, NEW v \in Valuations(D)
    PROVE  /\ settled(x, v) \in Attributes
           /\ settled(x, v).ref = x.ref /\ settled(x, v).plus = x.plus
           /\ x.known => settled(x, v) = x
           /\ settled(x, v) = x \/ settled(x, v).known
<1>0. v \in [D -> Attributes]
  BY DEF Valuations
<1>1. x.plus \in Nat /\ capped(x.plus) \in 0 .. Cap
  BY Capped DEF Attributes
<1>2. x.ref \in D => v[x.ref].value \in Nat /\ capped(v[x.ref].value + x.plus) \in 0 .. Cap
  <2>1. x.ref \in D => v[x.ref].value \in 0 .. Cap
    BY <1>0 DEF Attributes
  <2> QED BY <1>1, <2>1, Capped
<1>3. x.known => settled(x, v) = x
  BY DEF settled
<1>4. ~x.known => settled(x, v) =
                 IF x.ref = NoName THEN cached(x, capped(x.plus))
                 ELSE IF x.ref \in D /\ v[x.ref].known
                 THEN cached(x, capped(v[x.ref].value + x.plus)) ELSE x
  BY <1>0 DEF settled
<1>5. /\ settled(x, v) \in Attributes
      /\ settled(x, v).ref = x.ref /\ settled(x, v).plus = x.plus
      /\ settled(x, v) = x \/ settled(x, v).known
  <2>1. CASE x.known
    BY <1>3, <2>1
  <2>2. CASE ~x.known /\ x.ref = NoName
    BY <1>1, <1>4, <2>2, Cached
  <2>3. CASE ~x.known /\ x.ref # NoName /\ x.ref \in D /\ v[x.ref].known
    BY <1>2, <1>4, <2>3, Cached
  <2>4. CASE ~x.known /\ x.ref # NoName /\ ~ (x.ref \in D /\ v[x.ref].known)
    BY <1>4, <2>4
  <2> QED BY <2>1, <2>2, <2>3, <2>4
<1> QED BY <1>3, <1>5

\* What a round finds stays so in a later round, which knows more.
LEMMA SettledAgain ==
    ASSUME NEW D, NEW x \in Attributes, NEW v \in Valuations(D), NEW w \in Valuations(D),
           \A n \in D : v[n].known => w[n] = v[n], settled(x, v).known
    PROVE  settled(x, w) = settled(x, v)
<1>1. CASE x.known
  BY <1>1, Settled
<1>2. CASE ~x.known /\ x.ref = NoName
  BY <1>2 DEF settled
<1>3. CASE ~x.known /\ x.ref # NoName
  <2>0. DOMAIN v = D /\ DOMAIN w = D
    BY DEF Valuations
  <2>1. x.ref \in D /\ v[x.ref].known
    <3> SUFFICES ASSUME ~ (x.ref \in D /\ v[x.ref].known) PROVE FALSE
      OBVIOUS
    <3>1. settled(x, v) = x
      BY <1>3, <2>0 DEF settled
    <3> QED BY <1>3, <3>1
  <2>2. w[x.ref] = v[x.ref]
    BY <2>1
  <2> QED BY <1>3, <2>0, <2>1, <2>2 DEF settled
<1> QED BY <1>1, <1>2, <1>3


\* The rounds of an evaluation.
IsEvaluation(s, g) ==
    /\ g \in [0 .. Cardinality(DOMAIN s) -> Valuations(DOMAIN s)]
    /\ g[0] = s
    /\ \A k \in 1 .. Cardinality(DOMAIN s), n \in DOMAIN s : g[k][n] = settled(s[n], g[k - 1])
    /\ evaluated(s) = g[Cardinality(DOMAIN s)]

\* The recursion of evaluated is defined.
LEMMA Rounds ==
    ASSUME NEW s, IsStore(s)
    PROVE  \E g : IsEvaluation(s, g)
<1> DEFINE D == DOMAIN s
           N == Cardinality(D)
           S == Valuations(D)
           f == [v \in S |-> [n \in D |-> settled(s[n], v)]]
           Step(g) == [k \in 0 .. N |-> IF k = 0 THEN s ELSE [n \in D |-> settled(s[n], g[k - 1])]]
<1>1. N \in Nat /\ s \in S
  BY FS_CardinalityType DEF IsStore
<1>2. \A n \in D : s[n] \in Attributes
  BY DEF IsStore, Valuations
<1>3. ASSUME NEW v \in S PROVE f[v] = [n \in D |-> settled(s[n], v)] /\ f[v] \in S
  <2>1. \A n \in D : settled(s[n], v) \in Attributes
    BY <1>2, Settled
  <2> QED BY <2>1 DEF Valuations
<1>4. f \in Operations(S)
  BY <1>3 DEF Operations
<1>5. \A v \in S : f[v] = [n \in D |-> settled(s[n], v)]
  BY <1>3
<1> HIDE DEF f, S, N
<1>6. PICK g \in [0 .. N -> S] : g[0] = s /\ \A k \in 1 .. N : g[k] = f[g[k - 1]]
  <2>1. \E g \in [0 .. N -> S] : g[0] = s /\ \A k \in 1 .. N : g[k] = f[g[k - 1]]
    <3>1. Iterates(S, f, s, N)
      BY <1>1, <1>4, Iteration
    <3> QED BY <3>1 DEF Iterates
  <2> QED BY <2>1
<1>7. ASSUME NEW k \in 1 .. N PROVE g[k] = [n \in D |-> settled(s[n], g[k - 1])]
  <2>1. g[k - 1] \in S
    BY <1>1, <1>6
  <2> QED BY <1>5, <1>6, <2>1
<1>8. g = Step(g)
  <2>1. ASSUME NEW k \in 0 .. N PROVE g[k] = Step(g)[k]
    <3>1. CASE k = 0
      BY <1>6, <3>1
    <3>2. CASE k # 0
      <4>1. k \in 1 .. N
        BY <1>1, <3>2
      <4>2. g[k] = [n \in D |-> settled(s[n], g[k - 1])]
        BY <1>7, <4>1
      <4>3. Step(g)[k] = [n \in D |-> settled(s[n], g[k - 1])]
        BY <3>2
      <4> HIDE DEF Step
      <4> QED BY <4>2, <4>3
    <3> QED BY <3>1, <3>2
  <2>2. DOMAIN g = 0 .. N /\ DOMAIN Step(g) = 0 .. N
    BY <1>6
  <2>3. g = [k \in 0 .. N |-> g[k]]
    BY <1>6
  <2>4. Step(g) = [k \in 0 .. N |-> Step(g)[k]]
    OBVIOUS
  <2> HIDE DEF Step
  <2> QED BY <2>1, <2>3, <2>4
<1> DEFINE h == CHOOSE h : h = Step(h)
<1>9. h = Step(h)
  <2> HIDE DEF Step
  <2> QED BY <1>8
<1>10. evaluated(s) = h[N]
  BY DEF evaluated, N
<1> HIDE DEF h
<1> DEFINE T == {k \in 0 .. N : h[k] = g[k]}
<1>11. 0 \in T
  <2>1. h[0] = s
    BY <1>1, <1>9
  <2> QED BY <1>1, <1>6, <2>1
<1>12. ASSUME NEW k \in 0 .. N - 1, k \in T PROVE k + 1 \in T
  <2>1. k + 1 \in 1 .. N /\ k + 1 \in 0 .. N /\ (k + 1) - 1 = k /\ k + 1 # 0
    BY <1>1
  <2>2. h[k + 1] = [n \in D |-> settled(s[n], h[k])]
    BY <1>9, <2>1
  <2>3. g[k + 1] = [n \in D |-> settled(s[n], g[k])]
    BY <1>7, <2>1
  <2> QED BY <1>12, <2>1, <2>2, <2>3
<1>13. N \in T
  <2> HIDE DEF T
  <2>1. \A k \in 0 .. N : k \in T
    BY <1>1, <1>11, <1>12, InductionUpTo
  <2> QED BY <1>1, <2>1
<1>14. evaluated(s) = g[N]
  BY <1>10, <1>13
<1>15. \A k \in 1 .. N, n \in D : g[k][n] = settled(s[n], g[k - 1])
  BY <1>7
<1>16. IsEvaluation(s, g)
  BY <1>6, <1>14, <1>15 DEF IsEvaluation, S, N
<1> QED BY <1>16

\* What an evaluation finds: definitions and known values are kept, and what is found
\* is what the expressions give for it. No more rounds would find any more.
LEMMA Evaluated ==
    ASSUME NEW s, IsStore(s)
    PROVE  /\ evaluated(s) \in Valuations(DOMAIN s)
           /\ \A n \in DOMAIN s : evaluated(s)[n] = settled(s[n], evaluated(s))
<1> DEFINE D == DOMAIN s
           N == Cardinality(D)
           S == Valuations(D)
<1>1. N \in Nat /\ s \in S /\ IsFiniteSet(D)
  BY FS_CardinalityType DEF IsStore
<1>2. \A n \in D : s[n] \in Attributes
  BY DEF IsStore, Valuations
<1>3. PICK g : IsEvaluation(s, g)
  BY Rounds
<1>4. /\ g \in [0 .. N -> S] /\ g[0] = s
      /\ \A k \in 1 .. N, n \in D : g[k][n] = settled(s[n], g[k - 1])
      /\ evaluated(s) = g[N]
  BY <1>3 DEF IsEvaluation
<1> HIDE DEF N
<1>5. \A k \in 0 .. N : g[k] \in S
  BY <1>4
<1> HIDE DEF S
<1> DEFINE Kept(k) == \A n \in D : g[k][n].known => g[k + 1][n] = g[k][n]
           T == {k \in 0 .. N - 1 : Kept(k)}
<1>6. \A k \in 0 .. N - 1 : k \in 0 .. N /\ k + 1 \in 1 .. N /\ k + 1 \in 0 .. N /\ (k + 1) - 1 = k
  BY <1>1
<1>7. \A k \in 0 .. N - 1, n \in D : g[k + 1][n] = settled(s[n], g[k])
  BY <1>4, <1>6
<1>8. ASSUME NEW k \in 0 .. N, NEW n \in D, s[n].known PROVE g[k][n] = s[n]
  <2>1. CASE k = 0
    BY <1>4, <2>1
  <2>2. CASE k # 0
    <3>1. k - 1 \in 0 .. N - 1 /\ (k - 1) + 1 = k /\ k - 1 \in 0 .. N
      BY <1>1, <2>2
    <3>2. g[k][n] = settled(s[n], g[k - 1])
      BY <1>7, <3>1
    <3>3. g[k - 1] \in Valuations(D)
      BY <1>5, <3>1 DEF S
    <3> QED BY <1>8, <3>2 DEF settled
  <2> QED BY <2>1, <2>2
\* A value stays known.
<1>9. ASSUME NEW k \in 0 .. N - 1, k = 0 \/ Kept(k - 1) PROVE Kept(k)
  <2> SUFFICES ASSUME NEW n \in D, g[k][n].known PROVE g[k + 1][n] = g[k][n]
    OBVIOUS
  <2>0. g[k] \in Valuations(D) /\ k \in Nat /\ s[n] \in Attributes
    BY <1>2, <1>5, <1>6 DEF S
  <2>1. CASE s[n].known
    BY <1>6, <1>8, <2>1
  <2>2. CASE ~s[n].known
    <3>1. k # 0
      BY <1>4, <2>2
    <3>2. Kept(k - 1) /\ k - 1 \in 0 .. N - 1 /\ (k - 1) + 1 = k /\ k - 1 \in 0 .. N
      <4>1. k - 1 \in 0 .. N - 1 /\ (k - 1) + 1 = k /\ k - 1 \in 0 .. N
        <5> HIDE DEF Kept
        <5> QED BY <1>1, <2>0, <3>1
      <4>2. Kept(k - 1)
        <5> HIDE DEF Kept
        <5> QED BY <1>9, <3>1
      <4> QED BY <4>1, <4>2
    <3>3. g[k - 1] \in Valuations(D)
      BY <1>5, <3>2 DEF S
    <3>4. g[k][n] = settled(s[n], g[k - 1]) /\ g[k + 1][n] = settled(s[n], g[k])
      BY <1>7, <3>2
    <3>5. \A m \in D : g[k - 1][m].known => g[k][m] = g[k - 1][m]
      BY <3>2
    <3> QED BY <2>0, <3>3, <3>4, <3>5, SettledAgain
  <2> QED BY <2>1, <2>2
<1>10. \A k \in 0 .. N - 1 : Kept(k)
  <2> DEFINE U == {k \in 0 .. N : k = N \/ Kept(k)}
  <2>1. 0 \in U
    <3> HIDE DEF Kept
    <3> QED BY <1>1, <1>9
  <2>2. ASSUME NEW k \in 0 .. N - 1, k \in U PROVE k + 1 \in U
    <3>1. Kept(k) /\ (k + 1) - 1 = k /\ k + 1 \in 0 .. N
      <4> HIDE DEF Kept
      <4> QED BY <1>1, <2>2
    <3>2. k + 1 # N => k + 1 \in 0 .. N - 1
      BY <1>1
    <3> HIDE DEF Kept
    <3> QED BY <1>9, <3>1, <3>2
  <2>3. \A k \in 0 .. N : k \in U
    <3> HIDE DEF U
    <3> QED BY <1>1, <2>1, <2>2, InductionUpTo
  <2> HIDE DEF Kept
  <2> QED BY <1>1, <2>3
\* After k rounds k names are known, or a round has changed nothing.
<1> DEFINE K(k) == {n \in D : g[k][n].known}
           Stable(k) == \E j \in 0 .. k - 1 : g[j + 1] = g[j]
           V == {k \in 0 .. N : Stable(k) \/ Cardinality(K(k)) >= k}
<1>11. \A k \in 0 .. N : IsFiniteSet(K(k)) /\ Cardinality(K(k)) \in Nat /\ Cardinality(K(k)) <= N
  <2> SUFFICES ASSUME NEW k \in 0 .. N
               PROVE  IsFiniteSet(K(k)) /\ Cardinality(K(k)) \in Nat /\ Cardinality(K(k)) <= N
    OBVIOUS
  <2>1. K(k) \in SUBSET D
    OBVIOUS
  <2> HIDE DEF K
  <2> QED BY <1>1, <2>1, FS_Subset, FS_CardinalityType DEF N
<1>12. \A k \in 0 .. N - 1 : K(k) \subseteq K(k + 1)
  BY <1>10
<1>13. ASSUME NEW k \in 0 .. N, NEW n \in D PROVE g[k][n] = s[n] \/ g[k][n].known
  <2>1. CASE k = 0
    BY <1>4, <2>1
  <2>2. CASE k # 0
    <3>1. k - 1 \in 0 .. N - 1 /\ (k - 1) + 1 = k /\ k - 1 \in 0 .. N
      BY <1>1, <2>2
    <3>2. g[k][n] = settled(s[n], g[k - 1]) /\ g[k - 1] \in Valuations(D)
      BY <1>5, <1>7, <3>1 DEF S
    <3> QED BY <1>2, <3>2, Settled
  <2> QED BY <2>1, <2>2
<1>14. ASSUME NEW k \in 0 .. N - 1, K(k) = K(k + 1) PROVE g[k + 1] = g[k]
  <2>1. g[k] \in Valuations(D) /\ g[k + 1] \in Valuations(D)
    BY <1>5, <1>6 DEF S
  <2>2. ASSUME NEW n \in D PROVE g[k + 1][n] = g[k][n]
    <3>1. CASE g[k][n].known
      BY <1>10, <3>1
    <3>2. CASE ~g[k][n].known
      <4>1. ~g[k + 1][n].known
        BY <1>14, <3>2
      <4> QED BY <1>6, <1>13, <3>2, <4>1
    <3> QED BY <3>1, <3>2
  <2> QED BY <2>1, <2>2 DEF Valuations
<1>15. ASSUME NEW k \in 0 .. N - 1, k \in V PROVE k + 1 \in V
  <2>0. k \in Nat /\ k \in 0 .. N /\ k + 1 \in 0 .. N
    BY <1>6
  <2>1. CASE Stable(k)
    <3>1. Stable(k + 1)
      BY <2>0, <2>1
    <3> HIDE DEF Stable, K
    <3> QED BY <2>0, <3>1
  <2>2. CASE K(k) = K(k + 1)
    <3>1. g[k + 1] = g[k]
      <4> HIDE DEF K
      <4> QED BY <1>14, <2>2
    <3>2. Stable(k + 1)
      BY <2>0, <3>1
    <3> HIDE DEF Stable, K
    <3> QED BY <2>0, <3>2
  <2>3. CASE ~Stable(k) /\ K(k) # K(k + 1)
    <3> HIDE DEF Stable, K
    <3>1. Cardinality(K(k)) >= k
      BY <1>15, <2>3
    <3>2. K(k) \in SUBSET K(k + 1)
      BY <1>12
    <3>3. /\ IsFiniteSet(K(k + 1)) /\ Cardinality(K(k + 1)) \in Nat
          /\ Cardinality(K(k)) \in Nat
      BY <1>11, <2>0
    <3>4. Cardinality(K(k)) <= Cardinality(K(k + 1)) /\ Cardinality(K(k)) # Cardinality(K(k + 1))
      BY <2>3, <3>2, <3>3, FS_Subset
    <3>5. Cardinality(K(k + 1)) >= k + 1
      BY <2>0, <3>1, <3>3, <3>4
    <3> QED BY <2>0, <3>5
  <2> QED BY <2>1, <2>2, <2>3
<1>16. Stable(N) \/ Cardinality(K(N)) >= N
  <2>1. 0 \in V
    <3> HIDE DEF K, Stable
    <3>1. 0 \in 0 .. N /\ Cardinality(K(0)) \in Nat
      BY <1>1, <1>11
    <3> QED BY <3>1
  <2>2. \A k \in 0 .. N : k \in V
    <3> HIDE DEF V
    <3> QED BY <1>1, <1>15, <2>1, InductionUpTo
  <2> HIDE DEF K, Stable
  <2> QED BY <1>1, <2>2
<1>17. CASE Stable(N)
  <2>1. PICK j \in 0 .. N - 1 : g[j + 1] = g[j]
    BY <1>17
  <2> DEFINE W == {k \in 0 .. N : k >= j => g[k] = g[j]}
  <2>2. 0 \in W
    BY <1>1
  <2>3. ASSUME NEW k \in 0 .. N - 1, k \in W PROVE k + 1 \in W
    <3>1. CASE k < j
      <4>1. k + 1 >= j => k + 1 = j
        BY <3>1
      <4> QED BY <1>6, <4>1
    <3>2. CASE k >= j
      <4>1. g[k] = g[j]
        BY <2>3, <3>2
      <4>2. \A n \in D : g[k + 1][n] = g[j + 1][n]
        BY <1>7, <4>1
      <4>3. g[k + 1] \in Valuations(D) /\ g[j + 1] \in Valuations(D)
        BY <1>5, <1>6 DEF S
      <4>4. g[k + 1] = g[j + 1]
        BY <4>2, <4>3 DEF Valuations
      <4> QED BY <1>6, <2>1, <4>4
    <3> QED BY <3>1, <3>2
  <2>4. \A k \in 0 .. N : k \in W
    <3> HIDE DEF W
    <3> QED BY <1>1, <2>2, <2>3, InductionUpTo
  <2>5. g[N] = g[j] /\ g[N - 1] = g[j] /\ N - 1 \in 0 .. N - 1 /\ (N - 1) + 1 = N
    <3>1. N \in 0 .. N /\ N - 1 \in 0 .. N /\ N >= j /\ N - 1 >= j /\ N - 1 \in 0 .. N - 1
      BY <1>1
    <3> QED BY <1>1, <2>4, <3>1
  <2>6. \A n \in D : g[N][n] = settled(s[n], g[N])
    BY <1>7, <2>5
  <2> QED BY <1>1, <1>4, <1>5, <2>6 DEF S
<1>18. CASE Cardinality(K(N)) >= N
  <2>1. K(N) = D
    <3>1. K(N) \in SUBSET D
      OBVIOUS
    <3>2. Cardinality(K(N)) = N
      <4> HIDE DEF K
      <4> QED BY <1>1, <1>11, <1>18
    <3> HIDE DEF K
    <3> QED BY <1>1, <3>1, <3>2, FS_Subset DEF N
  <2>2. ASSUME NEW n \in D PROVE g[N][n] = settled(s[n], g[N])
    <3>1. N # 0
      <4> SUFFICES ASSUME N = 0 PROVE FALSE
        OBVIOUS
      <4>1. D = {}
        BY <1>1, FS_EmptySet DEF N
      <4> QED BY <4>1
    <3>2. N - 1 \in 0 .. N - 1 /\ (N - 1) + 1 = N /\ N - 1 \in 0 .. N /\ N \in 0 .. N
      BY <1>1, <3>1
    <3>3. g[N][n] = settled(s[n], g[N - 1]) /\ g[N][n].known
      BY <1>7, <2>1, <3>2
    <3>4. g[N] \in Valuations(D) /\ g[N - 1] \in Valuations(D)
      BY <1>5, <3>2 DEF S
    <3>5. \A m \in D : g[N - 1][m].known => g[N][m] = g[N - 1][m]
      BY <1>10, <3>2
    <3> QED BY <1>2, <3>3, <3>4, <3>5, SettledAgain
  <2> QED BY <1>1, <1>4, <1>5, <2>2 DEF S
<1> QED BY <1>16, <1>17, <1>18

\* What is found for an expression is found with the same value where more is known.
LEMMA SettledMore ==
    ASSUME NEW D, NEW x \in Attributes, NEW v \in Valuations(D), NEW w \in Valuations(D),
           \A n \in D : v[n].known => w[n].known /\ w[n].value = v[n].value,
           settled(x, v).known
    PROVE  settled(x, w).known /\ settled(x, w).value = settled(x, v).value
<1>1. CASE x.known
  BY <1>1 DEF settled
<1>2. CASE ~x.known /\ x.ref = NoName
  BY <1>2 DEF settled
<1>3. CASE ~x.known /\ x.ref # NoName
  <2>0. DOMAIN v = D /\ DOMAIN w = D
    BY DEF Valuations
  <2>1. x.ref \in D /\ v[x.ref].known
    <3> SUFFICES ASSUME ~ (x.ref \in D /\ v[x.ref].known) PROVE FALSE
      OBVIOUS
    <3>1. settled(x, v) = x
      BY <1>3, <2>0 DEF settled
    <3> QED BY <1>3, <3>1
  <2>2. w[x.ref].known /\ w[x.ref].value = v[x.ref].value
    BY <2>1
  <2>3. settled(x, w) = settled(x, v)
    BY <1>3, <2>0, <2>1, <2>2 DEF settled
  <2> QED BY <2>3
<1> QED BY <1>1, <1>2, <1>3

\* An evaluation finds no more than any valuation that satisfies the definitions.
LEMMA LeastValuation ==
    ASSUME NEW s, IsStore(s), NEW v \in Valuations(DOMAIN s),
           \A n \in DOMAIN s : settled(s[n], v).known =>
               v[n].known /\ v[n].value = settled(s[n], v).value
    PROVE  \A n \in DOMAIN s : evaluated(s)[n].known =>
               v[n].known /\ v[n].value = evaluated(s)[n].value
<1> DEFINE D == DOMAIN s
           N == Cardinality(D)
           Below(u) == \A n \in D : u[n].known => v[n].known /\ v[n].value = u[n].value
<1>1. N \in Nat /\ \A n \in D : s[n] \in Attributes
  BY FS_CardinalityType DEF IsStore, Valuations
<1>2. PICK g : IsEvaluation(s, g)
  BY Rounds
<1>3. /\ \A k \in 0 .. N : g[k] \in Valuations(D)
      /\ g[0] = s
      /\ \A k \in 1 .. N, n \in D : g[k][n] = settled(s[n], g[k - 1])
      /\ evaluated(s) = g[N]
  BY <1>2 DEF IsEvaluation
<1> HIDE DEF N
<1> DEFINE T == {k \in 0 .. N : Below(g[k])}
<1>4. 0 \in T
  <2>1. Below(s)
    BY DEF settled
  <2> HIDE DEF Below
  <2> QED BY <1>1, <1>3, <2>1
<1>5. ASSUME NEW k \in 0 .. N - 1, k \in T PROVE k + 1 \in T
  <2>1. k \in 0 .. N /\ k + 1 \in 1 .. N /\ k + 1 \in 0 .. N /\ (k + 1) - 1 = k
    BY <1>1
  <2>2. Below(g[k]) /\ g[k] \in Valuations(D)
    <3> HIDE DEF Below
    <3> QED BY <1>3, <1>5, <2>1
  <2>3. ASSUME NEW n \in D, g[k + 1][n].known
        PROVE  v[n].known /\ v[n].value = g[k + 1][n].value
    <3>1. g[k + 1][n] = settled(s[n], g[k])
      BY <1>3, <2>1
    <3>2. settled(s[n], g[k]).known
      BY <2>3, <3>1
    <3>3. s[n] \in Attributes
      BY <1>1
    <3>4. \A m \in D : g[k][m].known => v[m].known /\ v[m].value = g[k][m].value
      BY <2>2
    <3>5. settled(s[n], v).known /\ settled(s[n], v).value = settled(s[n], g[k]).value
      BY <2>2, <3>2, <3>3, <3>4, SettledMore
    <3> QED BY <3>1, <3>5
  <2>4. Below(g[k + 1])
    BY <2>3
  <2> HIDE DEF Below
  <2> QED BY <2>1, <2>4
<1>6. N \in T
  <2> HIDE DEF T
  <2>1. \A k \in 0 .. N : k \in T
    BY <1>1, <1>4, <1>5, InductionUpTo
  <2> QED BY <1>1, <2>1
<1> QED BY <1>3, <1>6

\* A directory that has the definitions of s and whose known values are those of s
\* or what its expressions give.
MoreCached(s, t) ==
    /\ DOMAIN t = DOMAIN s
    /\ \A n \in DOMAIN s : /\ t[n].ref = s[n].ref /\ t[n].plus = s[n].plus
                           /\ s[n].known => t[n].known
                           /\ t[n].known => evaluated(s)[n].known /\ t[n].value = evaluated(s)[n].value

\* The names of s have values in t, and those they have in s.
SubValues(s, t) ==
    \A n \in DOMAIN s : evaluated(s)[n].known =>
        evaluated(t)[n].known /\ evaluated(t)[n].value = evaluated(s)[n].value

SameValues(s, t) == DOMAIN t = DOMAIN s /\ SubValues(s, t) /\ SubValues(t, s)

\* What evaluation makes of an attribute with a known value.
LEMMA KnownKept ==
    ASSUME NEW s, IsStore(s), NEW n \in DOMAIN s, s[n].known
    PROVE  evaluated(s)[n] = s[n]
<1>1. evaluated(s)[n] = settled(s[n], evaluated(s))
  BY Evaluated
<1> QED BY <1>1 DEF settled

\* Caching values changes nothing about the values of expressions.
LEMMA CachingKeepsValues ==
    ASSUME NEW s, NEW t, IsStore(s), IsStore(t), MoreCached(s, t)
    PROVE  SameValues(s, t)
<1> DEFINE D == DOMAIN s
<1>1. DOMAIN t = D
  BY DEF MoreCached
<1>2. /\ evaluated(s) \in Valuations(D) /\ evaluated(t) \in Valuations(D)
      /\ \A n \in D : /\ evaluated(s)[n] = settled(s[n], evaluated(s))
                      /\ evaluated(t)[n] = settled(t[n], evaluated(t))
  BY <1>1, Evaluated
<1>3. \A n \in D : s[n] \in Attributes /\ t[n] \in Attributes
  BY <1>1 DEF IsStore, Valuations
<1>4. SubValues(t, s)
  <2>1. ASSUME NEW n \in D, settled(t[n], evaluated(s)).known
        PROVE  /\ evaluated(s)[n].known
               /\ evaluated(s)[n].value = settled(t[n], evaluated(s)).value
    <3>1. CASE t[n].known
      <4>1. settled(t[n], evaluated(s)) = t[n]
        BY <3>1 DEF settled
      <4> QED BY <3>1, <4>1 DEF MoreCached
    <3>2. CASE ~t[n].known
      <4>1. ~s[n].known /\ t[n].ref = s[n].ref /\ t[n].plus = s[n].plus
        BY <3>2 DEF MoreCached
      <4>2. settled(t[n], evaluated(s)).value = settled(s[n], evaluated(s)).value
            /\ settled(s[n], evaluated(s)).known
        BY <2>1, <3>2, <4>1, <1>3 DEF settled, cached, Attributes
      <4> QED BY <1>2, <4>2
    <3> QED BY <3>1, <3>2
  <2>2. \A n \in DOMAIN t : evaluated(t)[n].known =>
            evaluated(s)[n].known /\ evaluated(s)[n].value = evaluated(t)[n].value
    BY <1>1, <1>2, <2>1, LeastValuation
  <2> QED BY <2>2 DEF SubValues
<1>5. SubValues(s, t)
  <2>1. ASSUME NEW n \in D, settled(s[n], evaluated(t)).known
        PROVE  /\ evaluated(t)[n].known
               /\ evaluated(t)[n].value = settled(s[n], evaluated(t)).value
    <3>1. /\ settled(s[n], evaluated(s)).known
          /\ settled(s[n], evaluated(s)).value = settled(s[n], evaluated(t)).value
      <4>1. \A m \in D : evaluated(t)[m].known =>
                evaluated(s)[m].known /\ evaluated(s)[m].value = evaluated(t)[m].value
        BY <1>1, <1>4 DEF SubValues
      <4>2. s[n] \in Attributes
        BY <1>3
      <4> QED BY <1>2, <2>1, <4>1, <4>2, SettledMore
    <3>2. CASE t[n].known
      <4>1. evaluated(t)[n] = t[n]
        BY <1>1, <3>2, KnownKept
      <4>2. t[n].value = evaluated(s)[n].value
        BY <3>2 DEF MoreCached
      <4> QED BY <1>2, <3>1, <3>2, <4>1, <4>2
    <3>3. CASE ~t[n].known
      <4>1. ~s[n].known /\ t[n].ref = s[n].ref /\ t[n].plus = s[n].plus
        BY <3>3 DEF MoreCached
      <4>2. settled(t[n], evaluated(t)).value = settled(s[n], evaluated(t)).value
            /\ settled(t[n], evaluated(t)).known
        BY <2>1, <3>3, <4>1, <1>3 DEF settled, cached, Attributes
      <4> QED BY <1>2, <4>2
    <3> QED BY <3>2, <3>3
  <2>2. \A n \in DOMAIN s : evaluated(s)[n].known =>
            evaluated(t)[n].known /\ evaluated(t)[n].value = evaluated(s)[n].value
    BY <1>1, <1>2, <2>1, LeastValuation
  <2> QED BY <2>2 DEF SubValues
<1> QED BY <1>1, <1>4, <1>5 DEF SameValues

\* What an evaluation caches.
LEMMA CachedFor ==
    ASSUME NEW s, IsStore(s), NEW names
    PROVE  /\ IsStore(cachedFor(s, names)) /\ MoreCached(s, cachedFor(s, names))
           /\ SameValues(s, cachedFor(s, names))
<1> DEFINE D == DOMAIN s
           t == cachedFor(s, names)
<1>1. DOMAIN t = D /\ \A n \in D : t[n] = s[n] \/ t[n] = evaluated(s)[n]
  BY DEF cachedFor
<1>2. /\ evaluated(s) \in Valuations(D)
      /\ \A n \in D : evaluated(s)[n] = settled(s[n], evaluated(s))
  BY Evaluated
<1>3. \A n \in D : s[n] \in Attributes
  BY DEF IsStore, Valuations
<1>4. t \in Valuations(D)
  <2>1. \A n \in D : t[n] \in Attributes
    BY <1>1, <1>2, <1>3 DEF Valuations
  <2>2. t = [n \in D |-> t[n]]
    BY DEF cachedFor
  <2> HIDE DEF t
  <2> QED BY <2>1, <2>2 DEF Valuations
<1>5. IsStore(t)
  <2> HIDE DEF t
  <2> QED BY <1>1, <1>4 DEF IsStore
<1>6. MoreCached(s, t)
  <2> SUFFICES ASSUME NEW n \in D
               PROVE  /\ t[n].ref = s[n].ref /\ t[n].plus = s[n].plus
                      /\ s[n].known => t[n].known
                      /\ t[n].known => evaluated(s)[n].known /\ t[n].value = evaluated(s)[n].value
    <3> HIDE DEF t
    <3> QED BY <1>1 DEF MoreCached
  <2> HIDE DEF t
  <2>1. /\ evaluated(s)[n].ref = s[n].ref /\ evaluated(s)[n].plus = s[n].plus
        /\ s[n].known => evaluated(s)[n] = s[n]
    <3>1. s[n] \in Attributes /\ evaluated(s) \in Valuations(D)
      BY <1>2, <1>3
    <3>2. /\ settled(s[n], evaluated(s)).ref = s[n].ref
          /\ settled(s[n], evaluated(s)).plus = s[n].plus
          /\ s[n].known => settled(s[n], evaluated(s)) = s[n]
      BY <3>1, Settled
    <3> QED BY <1>2, <3>2
  <2>2. CASE t[n] = s[n]
    <3>1. /\ t[n].ref = s[n].ref /\ t[n].plus = s[n].plus
          /\ s[n].known => t[n].known
      BY <2>2
    <3>2. ASSUME t[n].known PROVE evaluated(s)[n].known /\ t[n].value = evaluated(s)[n].value
      <4>1. s[n].known
        BY <2>2, <3>2
      <4>2. evaluated(s)[n] = s[n]
        BY <2>1, <4>1
      <4> QED BY <2>2, <4>1, <4>2
    <3> QED BY <3>1, <3>2
  <2>3. CASE t[n] = evaluated(s)[n]
    BY <2>1, <2>3
  <2> QED BY <1>1, <2>2, <2>3
<1>7. SameValues(s, t)
  <2> HIDE DEF t
  <2> QED BY <1>5, <1>6, CachingKeepsValues
<1> QED BY <1>5, <1>6, <1>7

-----------------------------------------------------------------------------
(* Forgetting.                                                              *)

\* Same values is symmetric and transitive.
LEMMA SameValuesEquivalence ==
    ASSUME NEW s, NEW t, NEW u, SameValues(s, t)
    PROVE  SameValues(t, s) /\ (SameValues(t, u) => SameValues(s, u))
<1>1. SameValues(t, s)
  BY DEF SameValues
<1>2. ASSUME SameValues(t, u) PROVE SameValues(s, u)
  <2>1. DOMAIN u = DOMAIN s /\ DOMAIN t = DOMAIN s
    BY <1>2 DEF SameValues
  <2>2. SubValues(s, t) /\ SubValues(t, u) /\ SubValues(u, t) /\ SubValues(t, s)
    BY <1>2 DEF SameValues
  <2>3. SubValues(s, u)
    BY <2>1, <2>2 DEF SubValues
  <2>4. SubValues(u, s)
    BY <2>1, <2>2 DEF SubValues
  <2> QED BY <2>1, <2>3, <2>4 DEF SameValues
<1> QED BY <1>1, <1>2

\* A directory without its cache.
LEMMA Forgotten ==
    ASSUME NEW s, IsStore(s)
    PROVE  /\ IsStore(forgotten(s)) /\ DOMAIN forgotten(s) = DOMAIN s
           /\ \A n \in DOMAIN s :
                 /\ forgotten(s)[n].ref = s[n].ref /\ forgotten(s)[n].plus = s[n].plus
                 /\ forgotten(s)[n].value = s[n].value
                 /\ forgotten(s)[n].known <=> s[n].known /\ s[n].ref = NoName
<1>1. \A n \in DOMAIN s : s[n] \in Attributes
  BY DEF IsStore, Valuations
<1>2. DOMAIN forgotten(s) = DOMAIN s
  BY DEF forgotten
<1>3. ASSUME NEW n \in DOMAIN s
      PROVE  /\ forgotten(s)[n] \in Attributes
             /\ forgotten(s)[n].ref = s[n].ref /\ forgotten(s)[n].plus = s[n].plus
             /\ forgotten(s)[n].value = s[n].value
             /\ forgotten(s)[n].known <=> s[n].known /\ s[n].ref = NoName
  BY <1>1 DEF forgotten, Attributes
<1>4. forgotten(s) \in Valuations(DOMAIN s)
  <2>1. forgotten(s) = [n \in DOMAIN s |-> forgotten(s)[n]]
    BY DEF forgotten
  <2> QED BY <1>3, <2>1 DEF Valuations
<1>5. IsStore(forgotten(s))
  BY <1>2, <1>4 DEF IsStore
<1> QED BY <1>2, <1>3, <1>5

\* The cache of a directory is right: its values are those the definitions give.
Sound(s) == MoreCached(forgotten(s), s)

\* Evaluation with a right cache gives what the definitions give.
LEMMA SoundValues ==
    ASSUME NEW s, IsStore(s), Sound(s)
    PROVE  SameValues(forgotten(s), s)
<1>1. IsStore(forgotten(s))
  BY Forgotten
<1> QED BY <1>1, CachingKeepsValues DEF Sound

\* No cache is a right cache.
LEMMA ForgottenSound ==
    ASSUME NEW s, IsStore(s)
    PROVE  IsStore(forgotten(s)) /\ Sound(forgotten(s))
<1> DEFINE f == forgotten(s)
<1>1. IsStore(f) /\ DOMAIN f = DOMAIN s
  BY Forgotten
<1>2. IsStore(forgotten(f)) /\ DOMAIN forgotten(f) = DOMAIN f
  <2> HIDE DEF f
  <2> QED BY <1>1, Forgotten
<1>3. ASSUME NEW n \in DOMAIN f
      PROVE  /\ f[n].ref = forgotten(f)[n].ref /\ f[n].plus = forgotten(f)[n].plus
             /\ f[n].value = forgotten(f)[n].value
             /\ f[n].known <=> forgotten(f)[n].known
  <2>1. f[n].known <=> s[n].known /\ s[n].ref = NoName
    BY <1>1, Forgotten
  <2>2. f[n].ref = s[n].ref
    BY <1>1, Forgotten
  <2>3. /\ f[n].ref = forgotten(f)[n].ref /\ f[n].plus = forgotten(f)[n].plus
        /\ f[n].value = forgotten(f)[n].value
        /\ forgotten(f)[n].known <=> f[n].known /\ f[n].ref = NoName
    <3> HIDE DEF f
    <3> QED BY <1>1, Forgotten
  <2> HIDE DEF f
  <2> QED BY <2>1, <2>2, <2>3
<1>4. \A n \in DOMAIN f : f[n].known => evaluated(forgotten(f))[n] = forgotten(f)[n]
  <2> HIDE DEF f
  <2> QED BY <1>2, <1>3, KnownKept
<1>5. MoreCached(forgotten(f), f)
  <2> HIDE DEF f
  <2> QED BY <1>2, <1>3, <1>4 DEF MoreCached
<1> QED BY <1>1, <1>5 DEF Sound

\* A right cache stays right when more of what is found with it is cached.
LEMMA SoundCaching ==
    ASSUME NEW s, NEW t, IsStore(s), IsStore(t), Sound(s), MoreCached(s, t)
    PROVE  Sound(t) /\ SameValues(forgotten(s), forgotten(t))
<1> DEFINE f == forgotten(s)
           g == forgotten(t)
           D == DOMAIN s
<1>1. DOMAIN t = D /\ DOMAIN f = D /\ DOMAIN g = D /\ IsStore(f) /\ IsStore(g)
  BY Forgotten DEF MoreCached
<1>2. ASSUME NEW n \in D
      PROVE  /\ f[n].ref = s[n].ref /\ f[n].plus = s[n].plus
             /\ f[n].known <=> s[n].known /\ s[n].ref = NoName
             /\ g[n].ref = t[n].ref /\ g[n].plus = t[n].plus /\ g[n].value = t[n].value
             /\ g[n].known <=> t[n].known /\ t[n].ref = NoName
             /\ t[n].ref = s[n].ref /\ t[n].plus = s[n].plus
             /\ s[n].known => t[n].known
  <2>1. /\ f[n].ref = s[n].ref /\ f[n].plus = s[n].plus
        /\ f[n].known <=> s[n].known /\ s[n].ref = NoName
    BY Forgotten
  <2>2. /\ g[n].ref = t[n].ref /\ g[n].plus = t[n].plus /\ g[n].value = t[n].value
        /\ g[n].known <=> t[n].known /\ t[n].ref = NoName
    BY <1>1, Forgotten
  <2>3. /\ t[n].ref = s[n].ref /\ t[n].plus = s[n].plus
        /\ s[n].known => t[n].known
    BY DEF MoreCached
  <2> HIDE DEF f, g
  <2> QED BY <2>1, <2>2, <2>3
<1>3. SameValues(f, s)
  BY SoundValues
<1>4. ASSUME NEW n \in D, t[n].known
      PROVE  evaluated(f)[n].known /\ t[n].value = evaluated(f)[n].value
  <2>1. evaluated(s)[n].known /\ t[n].value = evaluated(s)[n].value
    BY <1>4 DEF MoreCached
  <2> HIDE DEF f
  <2> QED BY <1>3, <2>1 DEF SameValues, SubValues
<1> HIDE DEF f, g
<1>5. MoreCached(f, g)
  BY <1>1, <1>2, <1>4 DEF MoreCached
<1>6. SameValues(f, g)
  BY <1>1, <1>5, CachingKeepsValues
<1>7. ASSUME NEW n \in D, t[n].known
      PROVE  evaluated(g)[n].known /\ t[n].value = evaluated(g)[n].value
  BY <1>1, <1>4, <1>6, <1>7 DEF SameValues, SubValues
<1>8. MoreCached(g, t)
  BY <1>1, <1>2, <1>7 DEF MoreCached
<1> QED BY <1>6, <1>8 DEF Sound, f, g

-----------------------------------------------------------------------------
(* Expressions and updates.                                                 *)

\* A directory is no less cached than itself.
LEMMA MoreCachedReflexive == ASSUME NEW s, IsStore(s) PROVE MoreCached(s, s)
<1>1. \A n \in DOMAIN s : s[n].known => evaluated(s)[n] = s[n]
  BY KnownKept
<1> QED BY <1>1 DEF MoreCached

\* The value of an expression is in bounds, and its evaluation caches values that are right
\* if those it started from were.
LEMMA EvaluateFacts ==
    ASSUME NEW s, IsStore(s), NEW x, IsExpression(x), evaluate(s, x).ok
    PROVE  /\ evaluate(s, x).value \in 0 .. Cap
           /\ IsStore(evaluate(s, x).store) /\ MoreCached(s, evaluate(s, x).store)
<1>1. x.plus \in Nat
  BY DEF IsExpression
<1>2. CASE x.ref = NoName
  <2>1. evaluate(s, x) = [ok |-> TRUE, value |-> capped(x.plus), store |-> s]
    BY <1>2 DEF evaluate
  <2> QED BY <1>1, <2>1, Capped, MoreCachedReflexive
<1>3. CASE x.ref # NoName
  <2>1. hasValue(s, x.ref)
    BY <1>3 DEF evaluate, Failed
  <2>2. evaluate(s, x) = [ok |-> TRUE, value |-> capped(evaluated(s)[x.ref].value + x.plus),
                          store |-> cachedFor(s, {x.ref})]
    BY <1>3, <2>1 DEF evaluate
  <2>3. evaluated(s)[x.ref].value \in 0 .. Cap
    BY <2>1, Evaluated DEF Valuations, Attributes, hasValue
  <2>4. capped(evaluated(s)[x.ref].value + x.plus) \in 0 .. Cap
    <3>1. evaluated(s)[x.ref].value + x.plus \in Nat
      BY <1>1, <2>3, InputAssumption
    <3> QED BY <3>1, Capped
  <2> QED BY <2>2, <2>4, CachedFor
<1> QED BY <1>2, <1>3

\* An expression has the same value in directories with the same values.
LEMMA SameOutcome ==
    ASSUME NEW s, NEW t, SameValues(s, t), NEW x
    PROVE  /\ evaluate(s, x).ok <=> evaluate(t, x).ok
           /\ evaluate(s, x).ok => evaluate(s, x).value = evaluate(t, x).value
<1>1. CASE x.ref = NoName
  BY <1>1 DEF evaluate
<1>2. CASE x.ref # NoName
  <2>1. /\ hasValue(s, x.ref) <=> hasValue(t, x.ref)
        /\ hasValue(s, x.ref) => evaluated(s)[x.ref].value = evaluated(t)[x.ref].value
    <3>1. ASSUME hasValue(s, x.ref)
          PROVE  hasValue(t, x.ref) /\ evaluated(s)[x.ref].value = evaluated(t)[x.ref].value
      BY <3>1 DEF hasValue, SameValues, SubValues
    <3>2. ASSUME hasValue(t, x.ref) PROVE hasValue(s, x.ref)
      BY <3>2 DEF hasValue, SameValues, SubValues
    <3> QED BY <3>1, <3>2
  <2>2. CASE hasValue(s, x.ref)
    BY <1>2, <2>1, <2>2 DEF evaluate
  <2>3. CASE ~hasValue(s, x.ref)
    BY <1>2, <2>1, <2>3 DEF evaluate, Failed
  <2> QED BY <2>2, <2>3
<1> QED BY <1>1, <1>2

\* The elements have been updated to what the definitions give.
BuiltRight(b, s) ==
    \A e \in DOMAIN b : /\ e \in DOMAIN s /\ evaluated(forgotten(s))[e].known
                        /\ b[e] = evaluated(forgotten(s))[e].value

\* They stay right as long as the definitions give the same values.
LEMMA BuiltStaysRight ==
    ASSUME NEW b, NEW s, NEW t, BuiltRight(b, s), DOMAIN t = DOMAIN s,
           DOMAIN forgotten(s) = DOMAIN s, SameValues(forgotten(s), forgotten(t))
    PROVE  BuiltRight(b, t)
BY DEF BuiltRight, SameValues, SubValues

\* An update leaves a right cache and right elements, and the definitions as they were.
LEMMA UpdateFacts ==
    ASSUME NEW store, IsStore(store), DOMAIN built \subseteq DOMAIN store,
           modified \/ (Sound(store) /\ BuiltRight(built, store)), update(store).ok
    PROVE  /\ IsStore(update(store).defs) /\ DOMAIN update(store).defs = DOMAIN store
           /\ Sound(update(store).defs)
           /\ SameValues(forgotten(store), forgotten(update(store).defs))
           /\ DOMAIN update(store).built = DOMAIN built
           /\ BuiltRight(update(store).built, update(store).defs)
<1>1. CASE ~modified
  <2>1. update(store) = [ok |-> TRUE, defs |-> store, built |-> built]
    BY <1>1 DEF update
  <2>2. SameValues(forgotten(store), forgotten(store))
    BY DEF SameValues, SubValues
  <2> QED BY <1>1, <2>1, <2>2
<1>2. CASE modified
  <2> DEFINE f == forgotten(store)
             t == cachedFor(f, DOMAIN built)
             b == [e \in DOMAIN built |-> evaluated(f)[e].value]
  <2>1. (\A e \in DOMAIN built : hasValue(f, e)) /\ update(store) = [ok |-> TRUE, defs |-> t, built |-> b]
    BY <1>2 DEF update, Failed
  <2>2. IsStore(f) /\ Sound(f) /\ DOMAIN f = DOMAIN store
    BY Forgotten, ForgottenSound
  <2> HIDE DEF f
  <2>3. IsStore(t) /\ MoreCached(f, t)
    BY <2>2, CachedFor
  <2>4. DOMAIN t = DOMAIN store
    BY <2>2, <2>3 DEF MoreCached
  <2> HIDE DEF t
  <2>5. Sound(t) /\ SameValues(forgotten(f), forgotten(t))
    BY <2>2, <2>3, SoundCaching
  <2>6. SameValues(f, forgotten(f))
    BY <2>2, SoundValues, SameValuesEquivalence
  <2>7. SameValues(f, forgotten(t))
    BY <2>5, <2>6, SameValuesEquivalence
  <2>8. BuiltRight(b, t)
    <3> SUFFICES ASSUME NEW e \in DOMAIN built
                 PROVE  /\ e \in DOMAIN t /\ evaluated(forgotten(t))[e].known
                        /\ b[e] = evaluated(forgotten(t))[e].value
      BY DEF BuiltRight
    <3>1. e \in DOMAIN f /\ evaluated(f)[e].known
      BY <2>1 DEF hasValue
    <3>2. b[e] = evaluated(f)[e].value
      OBVIOUS
    <3> QED BY <2>2, <2>4, <2>7, <3>1, <3>2 DEF SameValues, SubValues
  <2>9. DOMAIN b = DOMAIN built
    OBVIOUS
  <2> HIDE DEF b
  <2> QED BY <2>1, <2>3, <2>4, <2>5, <2>7, <2>8, <2>9 DEF f
<1> QED BY <1>1, <1>2

-----------------------------------------------------------------------------
(* The stack of activations.                                                *)

Frames ==
    [kind : {"run"}, parser : Nat, track : BOOLEAN, root : BOOLEAN, owns : BOOLEAN, busy : BOOLEAN]
    \cup [kind : {"do"}, parser : Nat, track : BOOLEAN, statement : Statements]
    \cup {f \in [kind : {"while"}, parser : Nat, track : BOOLEAN, statement : Statements,
                 last : {"unknown", "true"}] : f.statement.op = "while"}

Owns(f) == f.kind = "run" /\ f.owns

\* At the bottom is the run() of the main file.
IsStack(c) == c \in Seq(Frames) /\ (c # <<>> => Owns(c[1]))

owning(c) == {i \in DOMAIN c : c[i].kind = "run" /\ c[i].owns}
depth(c)  == Cardinality(owning(c))

\* What a loop remembers of its condition is what the definitions give for it.
LoopRight(f, s) ==
    f.kind = "while" /\ f.last # "unknown" =>
        LET x == expression(f.statement.condition.name)
        IN  /\ f.last = "true" /\ evaluate(forgotten(s), x).ok
            /\ holds(f.statement.condition, evaluate(forgotten(s), x).value)

LoopsRight(c, s) == \A i \in DOMAIN c : LoopRight(c[i], s)

\* The streams of a stack can be counted.
LEMMA Depth ==
    ASSUME NEW c \in Seq(Frames)
    PROVE  depth(c) \in Nat /\ IsFiniteSet(owning(c)) /\ owning(c) \in SUBSET (1 .. Len(c))
<1>1. DOMAIN c = 1 .. Len(c) /\ Len(c) \in Nat
  OBVIOUS
<1>2. owning(c) \in SUBSET (1 .. Len(c))
  BY <1>1 DEF owning
<1>3. IsFiniteSet(1 .. Len(c))
  BY <1>1, FS_Interval
<1>4. IsFiniteSet(owning(c))
  BY <1>2, <1>3, FS_Subset
<1> QED BY <1>2, <1>4, FS_CardinalityType DEF depth

\* A frame put on top of a stack.
LEMMA Pushed ==
    ASSUME NEW c, IsStack(c), NEW f \in Frames, c # <<>> \/ Owns(f)
    PROVE  /\ IsStack(Append(c, f)) /\ Append(c, f) # <<>>
           /\ depth(Append(c, f)) = depth(c) + (IF Owns(f) THEN 1 ELSE 0) /\ depth(c) \in Nat
<1> DEFINE d == Append(c, f)
<1>1. c \in Seq(Frames) /\ Len(c) \in Nat
  BY DEF IsStack
<1>2. /\ d \in Seq(Frames) /\ d # <<>> /\ Len(d) = Len(c) + 1 /\ DOMAIN d = 1 .. Len(c) + 1
      /\ DOMAIN c = 1 .. Len(c)
      /\ d[Len(c) + 1] = f /\ \A i \in 1 .. Len(c) : d[i] = c[i]
  BY <1>1
<1>3. IsStack(d)
  <2>1. CASE c = <<>>
    <3>1. d[1] = f
      BY <1>1, <1>2, <2>1
    <3> HIDE DEF d
    <3> QED BY <1>2, <2>1, <3>1 DEF IsStack
  <2>2. CASE c # <<>>
    <3>1. d[1] = c[1]
      BY <1>1, <2>2
    <3> HIDE DEF d
    <3> QED BY <1>2, <2>2, <3>1 DEF IsStack
  <2> QED BY <2>1, <2>2
<1> HIDE DEF d
<1>4. depth(c) \in Nat /\ IsFiniteSet(owning(c)) /\ owning(c) \in SUBSET (1 .. Len(c))
  BY <1>1, Depth
<1>5. depth(d) = depth(c) + (IF Owns(f) THEN 1 ELSE 0)
  <2>1. CASE Owns(f)
    <3>1. owning(d) = owning(c) \cup {Len(c) + 1}
      BY <1>1, <1>2, <2>1 DEF owning, Owns
    <3>2. Len(c) + 1 \notin owning(c)
      BY <1>1, <1>4
    <3> QED BY <1>4, <2>1, <3>1, <3>2, FS_AddElement DEF depth
  <2>2. CASE ~Owns(f)
    <3>1. owning(d) = owning(c)
      BY <1>1, <1>2, <2>2 DEF owning, Owns
    <3> QED BY <1>4, <2>2, <3>1 DEF depth
  <2> QED BY <2>1, <2>2
<1> QED BY <1>2, <1>3, <1>4, <1>5 DEF d

\* The loops of a stack with a frame put on top.
LEMMA LoopsPushed ==
    ASSUME NEW c, IsStack(c), NEW f, NEW s
    PROVE  LoopsRight(Append(c, f), s) <=> LoopsRight(c, s) /\ LoopRight(f, s)
<1> DEFINE d == Append(c, f)
<1>1. c \in Seq(Frames) /\ Len(c) \in Nat
  BY DEF IsStack
<1>2. /\ DOMAIN d = 1 .. Len(c) + 1 /\ DOMAIN c = 1 .. Len(c)
      /\ d[Len(c) + 1] = f /\ \A i \in 1 .. Len(c) : d[i] = c[i]
  BY <1>1
<1> HIDE DEF d
<1>3. ASSUME LoopsRight(d, s) PROVE LoopsRight(c, s) /\ LoopRight(f, s)
  BY <1>1, <1>2, <1>3 DEF LoopsRight
<1>4. ASSUME LoopsRight(c, s), LoopRight(f, s) PROVE LoopsRight(d, s)
  <2> SUFFICES ASSUME NEW i \in 1 .. Len(c) + 1 PROVE LoopRight(d[i], s)
    BY <1>2 DEF LoopsRight
  <2>1. CASE i = Len(c) + 1
    BY <1>2, <1>4, <2>1
  <2>2. CASE i # Len(c) + 1
    <3>1. i \in 1 .. Len(c)
      BY <1>1, <2>2
    <3> QED BY <1>2, <1>4, <3>1 DEF LoopsRight
  <2> QED BY <2>1, <2>2
<1> QED BY <1>3, <1>4 DEF d

\* What is below the top of a stack.
LEMMA Popped ==
    ASSUME NEW c, IsStack(c), c # <<>>
    PROVE  /\ c[Len(c)] \in Frames
           /\ IsStack(SubSeq(c, 1, Len(c) - 1))
           /\ SubSeq(c, 1, Len(c) - 1) # <<>> \/ Owns(c[Len(c)])
           /\ c = Append(SubSeq(c, 1, Len(c) - 1), c[Len(c)])
<1> DEFINE b == SubSeq(c, 1, Len(c) - 1)
<1>1. c \in Seq(Frames) /\ Len(c) \in Nat \ {0} /\ Owns(c[1])
  BY DEF IsStack
<1>2. c[Len(c)] \in Frames
  BY <1>1
<1>3. b \in Seq(Frames) /\ Len(b) = Len(c) - 1 /\ \A i \in 1 .. Len(c) - 1 : b[i] = c[i]
  <2>1. 1 \in 1 .. Len(c) + 1 /\ Len(c) - 1 \in 1 - 1 .. Len(c) /\ (Len(c) - 1) - 1 + 1 = Len(c) - 1
    BY <1>1
  <2>2. /\ b \in Seq(Frames) /\ Len(b) = (Len(c) - 1) - 1 + 1
        /\ \A i \in 1 .. (Len(c) - 1) - 1 + 1 : b[i] = c[1 + i - 1]
    BY <1>1, <2>1, SubSeqProperties
  <2>3. \A i \in 1 .. Len(c) - 1 : 1 + i - 1 = i
    BY <1>1
  <2> HIDE DEF b
  <2> QED BY <2>1, <2>2, <2>3
<1>4. c = Append(b, c[Len(c)])
  BY <1>1
<1>5. CASE Len(c) = 1
  <2>1. b = <<>> /\ Owns(c[Len(c)])
    BY <1>1, <1>3, <1>5
  <2> HIDE DEF b
  <2>2. IsStack(b)
    BY <1>3, <2>1 DEF IsStack
  <2> QED BY <1>2, <1>4, <2>1, <2>2 DEF b
<1>6. CASE Len(c) # 1
  <2> HIDE DEF b
  <2>1. b # <<>> /\ b[1] = c[1]
    <3>0. Len(c) \in Nat /\ Len(c) # 0 /\ Len(c) # 1
      BY <1>1, <1>6
    <3>1. Len(c) - 1 # 0 /\ 1 \in 1 .. Len(c) - 1
      <4> DEFINE l == Len(c)
      <4> HIDE DEF l
      <4>1. l \in Nat /\ l # 0 /\ l # 1 => l - 1 # 0 /\ 1 \in 1 .. l - 1
        OBVIOUS
      <4> QED BY <3>0, <4>1 DEF l
    <3>2. Len(b) # 0 /\ b[1] = c[1]
      BY <1>3, <3>1
    <3> QED BY <3>2
  <2>2. IsStack(b)
    BY <1>1, <1>3, <2>1 DEF IsStack
  <2> QED BY <1>2, <1>4, <2>1, <2>2 DEF b
<1> QED BY <1>5, <1>6

\* What an update makes of a stack: the loops remember what is right, or nothing.
LEMMA Refreshed ==
    ASSUME NEW c, IsStack(c), modified \in BOOLEAN
    PROVE  /\ IsStack(refreshed(c)) /\ (refreshed(c) = <<>>) = (c = <<>>)
           /\ Len(refreshed(c)) = Len(c)
           /\ depth(refreshed(c)) = depth(c)
           /\ \A s : modified \/ LoopsRight(c, s) => LoopsRight(refreshed(c), s)
<1>1. CASE ~modified
  BY <1>1 DEF refreshed
<1>2. CASE modified
  <2> DEFINE d == refreshed(c)
  <2>1. c \in Seq(Frames) /\ Len(c) \in Nat /\ DOMAIN c = 1 .. Len(c)
    BY DEF IsStack
  <2>2. d = [i \in 1 .. Len(c) |-> IF c[i].kind = "while" THEN [c[i] EXCEPT !.last = "unknown"]
                                                          ELSE c[i]]
    BY <1>2, <2>1 DEF refreshed
  <2> HIDE DEF d
  <2>3. ASSUME NEW i \in 1 .. Len(c)
        PROVE  /\ d[i] \in Frames /\ Owns(d[i]) = Owns(c[i])
               /\ d[i].kind = "while" => d[i].last = "unknown"
    <3>1. c[i] \in Frames
      BY <2>1
    <3>2. CASE c[i].kind = "while"
      <4>1. d[i] = [c[i] EXCEPT !.last = "unknown"]
        BY <2>2, <3>2
      <4> QED BY <3>1, <3>2, <4>1 DEF Frames, Owns
    <3>3. CASE c[i].kind # "while"
      <4>1. d[i] = c[i]
        BY <2>2, <3>3
      <4> QED BY <3>1, <3>3, <4>1
    <3> QED BY <3>2, <3>3
  <2>4. d \in Seq(Frames) /\ Len(d) = Len(c) /\ DOMAIN d = 1 .. Len(c)
    <3>1. d \in [1 .. Len(c) -> Frames]
      BY <2>2, <2>3
    <3> QED BY <2>1, <3>1
  <2>5. (d = <<>>) = (c = <<>>)
    BY <2>1, <2>4
  <2>6. c # <<>> => 1 \in 1 .. Len(c)
    BY <2>1
  <2>7. IsStack(d)
    BY <2>3, <2>4, <2>5, <2>6 DEF IsStack
  <2>8. owning(d) = owning(c)
    BY <2>1, <2>3, <2>4 DEF owning, Owns
  <2>9. \A s : LoopsRight(d, s)
    BY <2>3, <2>4 DEF LoopsRight, LoopRight
  <2> QED BY <2>4, <2>5, <2>7, <2>8, <2>9 DEF d, depth
<1> QED BY <1>1, <1>2

-----------------------------------------------------------------------------
(* The invariant.                                                           *)

\* Types; the main file's activation of run() is at the bottom of the stack, and there is a
\* stream for each activation that owns one.
Types ==
    /\ phase \in {"running", "done", "aborted"} /\ modified \in BOOLEAN
    /\ IsStore(defs) /\ DOMAIN built \subseteq DOMAIN defs /\ constants \subseteq DOMAIN defs
    /\ IsStack(control) /\ (phase = "running" => control # <<>>)
    /\ inputs \in Seq(Seq(Statements)) /\ Len(inputs) = depth(control)

\* As long as nothing is modified, whatever has been worked out is right.
Current == ~modified => Sound(defs) /\ BuiltRight(built, defs) /\ LoopsRight(control, defs)

InputInv == Types /\ Current

\* The invariant holds at first: nothing is defined, and the main file is read.
LEMMA InitInv == Init => InputInv
<1> SUFFICES ASSUME Init PROVE InputInv
  OBVIOUS
<1>1. PICK p \in Programs : inputs = <<p>>
  BY DEF Init
<1>2. /\ phase = "running" /\ modified = FALSE /\ constants = {}
      /\ DOMAIN defs = {} /\ DOMAIN built = {} /\ defs = [n \in {} |-> 0]
      /\ control = <<Run(1, FALSE, TRUE, TRUE)>>
  BY DEF Init
<1>3. Run(1, FALSE, TRUE, TRUE) \in Frames /\ Owns(Run(1, FALSE, TRUE, TRUE))
  BY DEF Run, Frames, Owns
<1>4. IsStore(defs)
  <2>1. defs \in Valuations({})
    BY <1>2 DEF Valuations
  <2>2. IsFiniteSet(DOMAIN defs)
    BY <1>2, FS_EmptySet
  <2> QED BY <1>2, <2>1, <2>2 DEF IsStore
<1>5. IsStack(control) /\ control # <<>> /\ depth(control) = 1
  <2>1. IsStack(<<>>)
    BY DEF IsStack
  <2>2. depth(<<>>) = 0
    <3>1. owning(<<>>) = {}
      BY DEF owning
    <3> QED BY <3>1, FS_EmptySet DEF depth
  <2>3. control = Append(<<>>, Run(1, FALSE, TRUE, TRUE))
    BY <1>2
  <2>4. /\ IsStack(control) /\ control # <<>>
        /\ depth(control) = depth(<<>>) + (IF Owns(Run(1, FALSE, TRUE, TRUE)) THEN 1 ELSE 0)
    BY <1>3, <2>1, <2>3, Pushed
  <2> QED BY <1>3, <2>2, <2>4
<1>6. inputs \in Seq(Seq(Statements)) /\ Len(inputs) = 1
  BY <1>1, InputAssumption
<1>7. Types
  BY <1>2, <1>4, <1>5, <1>6 DEF Types
<1>8. Sound(defs)
  <2>1. DOMAIN forgotten(defs) = {}
    BY <1>2 DEF forgotten
  <2> QED BY <1>2, <2>1 DEF Sound, MoreCached
<1>9. BuiltRight(built, defs)
  BY <1>2 DEF BuiltRight
<1>10. LoopsRight(control, defs)
  <2>1. DOMAIN control = {1} /\ control[1].kind # "while"
    BY <1>2 DEF Run
  <2> QED BY <2>1 DEF LoopsRight, LoopRight
<1> QED BY <1>7, <1>8, <1>9, <1>10 DEF InputInv, Current

\* The top of the stack and what is below it.
LEMMA TopFacts ==
    ASSUME InputInv, phase = "running"
    PROVE  /\ top \in Frames /\ IsStack(below) /\ depth(below) \in Nat
           /\ below # <<>> \/ Owns(top)
           /\ depth(control) = depth(below) + (IF Owns(top) THEN 1 ELSE 0)
           /\ \A s : LoopsRight(control, s) => LoopsRight(below, s) /\ LoopRight(top, s)
<1>1. IsStack(control) /\ control # <<>>
  BY DEF InputInv, Types
<1>2. /\ top \in Frames /\ IsStack(below) /\ (below # <<>> \/ Owns(top))
      /\ control = Append(below, top)
  BY <1>1, Popped DEF top, below
<1> HIDE DEF top, below
<1>3. /\ depth(Append(below, top)) = depth(below) + (IF Owns(top) THEN 1 ELSE 0)
      /\ depth(below) \in Nat
  BY <1>2, Pushed
<1>4. \A s : LoopsRight(Append(below, top), s) => LoopsRight(below, s) /\ LoopRight(top, s)
  BY <1>2, LoopsPushed
<1> QED BY <1>2, <1>3, <1>4

\* A statement is executed above an activation of run().
LEMMA DoFacts ==
    ASSUME InputInv, phase = "running", top.kind = "do" \/ top.kind = "while"
    PROVE  /\ below # <<>> /\ depth(control) = depth(below)
           /\ top.parser \in Nat /\ top.track \in BOOLEAN /\ top.statement \in Statements
           /\ IsStatement(top.statement)
<1>1. top \in Frames /\ (below # <<>> \/ Owns(top)) /\ depth(below) \in Nat
      /\ depth(control) = depth(below) + (IF Owns(top) THEN 1 ELSE 0)
  BY TopFacts
<1>2. ~Owns(top)
  BY DEF Owns
<1>3. top.parser \in Nat /\ top.track \in BOOLEAN /\ top.statement \in Statements
  BY <1>1 DEF Frames
<1> QED BY <1>1, <1>2, <1>3, InputAssumption

\* Loops stay right as long as the definitions give the same values.
LEMMA LoopsStay ==
    ASSUME NEW c, NEW s, NEW t, LoopsRight(c, s), SameValues(forgotten(s), forgotten(t))
    PROVE  LoopsRight(c, t)
<1> SUFFICES ASSUME NEW i \in DOMAIN c, c[i].kind = "while", c[i].last # "unknown",
                    NEW x, x = expression(c[i].statement.condition.name)
             PROVE  /\ c[i].last = "true" /\ evaluate(forgotten(t), x).ok
                    /\ holds(c[i].statement.condition, evaluate(forgotten(t), x).value)
  BY DEF LoopsRight, LoopRight
<1>1. /\ c[i].last = "true" /\ evaluate(forgotten(s), x).ok
      /\ holds(c[i].statement.condition, evaluate(forgotten(s), x).value)
  BY DEF LoopsRight, LoopRight
<1>2. /\ evaluate(forgotten(s), x).ok <=> evaluate(forgotten(t), x).ok
      /\ evaluate(forgotten(s), x).ok => evaluate(forgotten(s), x).value = evaluate(forgotten(t), x).value
  BY SameOutcome
<1> QED BY <1>1, <1>2

\* A step of the parser that touches no definition.
LEMMA EngineStep ==
    ASSUME InputInv, UNCHANGED data, phase' \in {"running", "done", "aborted"},
           IsStack(control'), phase' = "running" => control' # <<>>,
           inputs' \in Seq(Seq(Statements)), Len(inputs') = depth(control'),
           \A s : LoopsRight(control, s) => LoopsRight(control', s)
    PROVE  InputInv'
<1>1. Types'
  BY DEF InputInv, Types, data
<1>2. Current'
  BY DEF InputInv, Current, data
<1> QED BY <1>1, <1>2 DEF InputInv

\* Evaluation and update leave the cache and the elements right, and what the loops remember:
\* p is what the evaluation of an attribute makes of the directory, t what further evaluation
\* makes of the update of p.
LEMMA ReadFacts ==
    ASSUME InputInv, NEW p, IsStore(p), MoreCached(defs, p), update(p).ok,
           NEW t, IsStore(t), MoreCached(update(p).defs, t)
    PROVE  /\ DOMAIN t = DOMAIN defs /\ DOMAIN update(p).built = DOMAIN built
           /\ Sound(t) /\ BuiltRight(update(p).built, t)
           /\ SameValues(forgotten(p), forgotten(t))
           /\ ~modified => SameValues(forgotten(defs), forgotten(t))
<1>1. /\ IsStore(defs) /\ DOMAIN built \subseteq DOMAIN defs /\ DOMAIN p = DOMAIN defs
      /\ modified \/ (Sound(defs) /\ BuiltRight(built, defs))
  BY DEF InputInv, Types, Current, MoreCached
<1>2. ~modified => /\ Sound(p) /\ BuiltRight(built, p)
                   /\ SameValues(forgotten(defs), forgotten(p))
  <2> SUFFICES ASSUME ~modified
               PROVE  /\ Sound(p) /\ BuiltRight(built, p)
                      /\ SameValues(forgotten(defs), forgotten(p))
    OBVIOUS
  <2>1. Sound(p) /\ SameValues(forgotten(defs), forgotten(p))
    BY <1>1, SoundCaching
  <2>2. DOMAIN forgotten(defs) = DOMAIN defs
    BY <1>1, Forgotten
  <2> QED BY <1>1, <2>1, <2>2, BuiltStaysRight
<1> DEFINE u == update(p).defs
           b == update(p).built
<1>3. /\ IsStore(u) /\ DOMAIN u = DOMAIN p /\ Sound(u)
      /\ SameValues(forgotten(p), forgotten(u))
      /\ DOMAIN b = DOMAIN built /\ BuiltRight(b, u)
  BY <1>1, <1>2, UpdateFacts
<1>4. MoreCached(u, t)
  OBVIOUS
<1> HIDE DEF u, b
<1>5. Sound(t) /\ SameValues(forgotten(u), forgotten(t)) /\ DOMAIN t = DOMAIN u
  BY <1>3, <1>4, SoundCaching DEF MoreCached
<1>6. DOMAIN forgotten(u) = DOMAIN u
  BY <1>3, Forgotten
<1>7. BuiltRight(b, t)
  BY <1>3, <1>5, <1>6, BuiltStaysRight
<1>8. SameValues(forgotten(p), forgotten(t))
  BY <1>3, <1>5, SameValuesEquivalence
<1>9. ~modified => SameValues(forgotten(defs), forgotten(t))
  BY <1>2, <1>8, SameValuesEquivalence
<1> QED BY <1>1, <1>3, <1>5, <1>7, <1>8, <1>9 DEF u, b

\* Without an evaluation before the update.
LEMMA UpdateOnly ==
    ASSUME InputInv, update(defs).ok, NEW t, IsStore(t), MoreCached(update(defs).defs, t)
    PROVE  /\ DOMAIN t = DOMAIN defs /\ DOMAIN update(defs).built = DOMAIN built
           /\ Sound(t) /\ BuiltRight(update(defs).built, t)
           /\ SameValues(forgotten(defs), forgotten(t))
<1>1. IsStore(defs)
  BY DEF InputInv, Types
<1>2. MoreCached(defs, defs)
  BY <1>1, MoreCachedReflexive
<1> QED BY <1>1, <1>2, ReadFacts

\* The update itself.
LEMMA Updated ==
    ASSUME InputInv, update(defs).ok
    PROVE  IsStore(update(defs).defs) /\ MoreCached(update(defs).defs, update(defs).defs)
<1>1. /\ IsStore(defs) /\ DOMAIN built \subseteq DOMAIN defs
      /\ modified \/ (Sound(defs) /\ BuiltRight(built, defs))
  BY DEF InputInv, Types, Current
<1> DEFINE u == update(defs).defs
<1>2. IsStore(u)
  BY <1>1, UpdateFacts
<1> HIDE DEF u
<1> QED BY <1>2, MoreCachedReflexive DEF u

\* What is read after an update is what the definitions give.
LEMMA ReadsDefinitive ==
    ASSUME InputInv, update(defs).ok, NEW x, evaluate(update(defs).defs, x).ok
    PROVE  /\ definitive(x).ok
           /\ definitive(x).value = evaluate(update(defs).defs, x).value
           /\ outcome(definitive(x)) = evaluate(update(defs).defs, x).value
<1> DEFINE u == update(defs).defs
<1>1. IsStore(u) /\ MoreCached(u, u)
  BY Updated
<1>2. Sound(u) /\ SameValues(forgotten(defs), forgotten(u))
  BY <1>1, UpdateOnly
<1> HIDE DEF u
<1>3. SameValues(forgotten(u), u)
  BY <1>1, <1>2, SoundValues
<1>4. SameValues(forgotten(defs), u)
  BY <1>2, <1>3, SameValuesEquivalence
<1>5. evaluate(u, x).ok
  BY DEF u
<1>6. /\ evaluate(forgotten(defs), x).ok
      /\ evaluate(forgotten(defs), x).value = evaluate(u, x).value
  BY <1>4, <1>5, SameOutcome
<1> QED BY <1>6 DEF definitive, outcome, u

\* The stack below the top after an update.
LEMMA RefreshedBelow ==
    ASSUME InputInv, phase = "running", top.kind = "do" \/ top.kind = "while",
           NEW t, ~modified => SameValues(forgotten(defs), forgotten(t))
    PROVE  /\ IsStack(refreshed(below)) /\ refreshed(below) # <<>>
           /\ depth(refreshed(below)) = depth(control)
           /\ LoopsRight(refreshed(below), t)
<1>1. IsStack(below) /\ modified \in BOOLEAN /\ below # <<>> /\ depth(control) = depth(below)
  BY TopFacts, DoFacts DEF InputInv, Types
<1>2. modified \/ LoopsRight(below, t)
  <2> SUFFICES ASSUME ~modified PROVE LoopsRight(below, t)
    OBVIOUS
  <2>1. LoopsRight(control, defs)
    BY DEF InputInv, Current
  <2>2. LoopsRight(below, defs)
    BY <2>1, TopFacts
  <2> QED BY <2>2, LoopsStay
<1> HIDE DEF below
<1> QED BY <1>1, <1>2, Refreshed

\* A step that reads: it updates first, which leaves nothing modified.
LEMMA ReadStep ==
    ASSUME InputInv, NEW p, IsStore(p), MoreCached(defs, p), update(p).ok,
           IsStore(defs'), MoreCached(update(p).defs, defs'), built' = update(p).built,
           ~modified', modified' \in BOOLEAN, constants' = constants, phase' = "running",
           IsStack(control'), control' # <<>>, LoopsRight(control', defs'),
           inputs' \in Seq(Seq(Statements)), Len(inputs') = depth(control')
    PROVE  InputInv'
<1>1. /\ DOMAIN defs' = DOMAIN defs /\ DOMAIN built' = DOMAIN built
      /\ Sound(defs') /\ BuiltRight(built', defs')
  BY ReadFacts
<1>2. DOMAIN built \subseteq DOMAIN defs /\ constants \subseteq DOMAIN defs
  BY DEF InputInv, Types
<1>3. Types'
  BY <1>1, <1>2 DEF Types
<1>4. Current'
  BY <1>1 DEF Current
<1> QED BY <1>3, <1>4 DEF InputInv

\* A step that defines something: from now on something is modified.
LEMMA DefineStep ==
    ASSUME InputInv, phase = "running", top.kind = "do",
           control' = below, inputs' = inputs, phase' = phase, modified' = TRUE,
           IsStore(defs'), DOMAIN built' \subseteq DOMAIN defs', constants' \subseteq DOMAIN defs'
    PROVE  InputInv'
<1>1. IsStack(below) /\ below # <<>> /\ depth(below) = depth(control)
  BY TopFacts, DoFacts
<1>2. inputs \in Seq(Seq(Statements)) /\ Len(inputs) = depth(control)
  BY DEF InputInv, Types
<1> HIDE DEF below
<1>3. Types'
  BY <1>1, <1>2 DEF Types
<1> QED BY <1>3 DEF InputInv, Current

\* There is a stream as long as anything runs.
LEMMA DepthPositive == ASSUME NEW c, IsStack(c), c # <<>> PROVE depth(c) # 0
<1>1. c \in Seq(Frames) /\ Owns(c[1]) /\ 1 \in DOMAIN c
  BY DEF IsStack
<1>2. 1 \in owning(c)
  BY <1>1 DEF owning, Owns
<1> QED BY <1>1, <1>2, Depth, FS_EmptySet DEF depth

\* A frame put on top of a stack, with what its loop remembers.
LEMMA Put ==
    ASSUME NEW c, IsStack(c), NEW f \in Frames, c # <<>> \/ Owns(f)
    PROVE  /\ IsStack(Append(c, f)) /\ Append(c, f) # <<>>
           /\ depth(Append(c, f)) = depth(c) + (IF Owns(f) THEN 1 ELSE 0) /\ depth(c) \in Nat
           /\ \A s : LoopsRight(c, s) /\ (f.kind # "while" \/ LoopRight(f, s))
                         => LoopsRight(Append(c, f), s)
<1>1. \A s : LoopsRight(Append(c, f), s) <=> LoopsRight(c, s) /\ LoopRight(f, s)
  BY LoopsPushed
<1>2. \A s : f.kind # "while" => LoopRight(f, s)
  BY DEF LoopRight
<1> QED BY <1>1, <1>2, Pushed

\* run() reads a statement, which is executed above it.
LEMMA ReadStatementInv == InputInv /\ ReadStatement => InputInv'
<1> SUFFICES ASSUME InputInv, ReadStatement PROVE InputInv'
  OBVIOUS
<1> DEFINE n == Len(inputs)
           f == [top EXCEPT !.busy = TRUE]
           g == Do(top, Head(inputs[n]))
           c == Append(below, f)
<1>1. /\ phase = "running" /\ top.kind = "run" /\ inputs[n] # <<>>
      /\ control' = Append(c, g) /\ inputs' = [inputs EXCEPT ![n] = Tail(@)]
      /\ UNCHANGED data /\ phase' = phase
  BY DEF ReadStatement, running
<1>2. /\ inputs \in Seq(Seq(Statements)) /\ n = depth(control) /\ IsStack(control) /\ control # <<>>
  BY <1>1 DEF InputInv, Types
<1>3. n \in 1 .. Len(inputs) /\ inputs[n] \in Seq(Statements)
  BY <1>2, DepthPositive
<1>4. /\ top \in Frames /\ IsStack(below) /\ (below # <<>> \/ Owns(top))
      /\ depth(control) = depth(below) + (IF Owns(top) THEN 1 ELSE 0)
      /\ \A s : LoopsRight(control, s) => LoopsRight(below, s)
  BY <1>1, TopFacts
<1>5. f \in Frames /\ Owns(f) = Owns(top) /\ f.kind = "run"
  BY <1>1, <1>4 DEF Frames, Owns
<1>6. g \in Frames /\ ~Owns(g) /\ g.kind = "do"
  <2>1. Head(inputs[n]) \in Statements
    BY <1>1, <1>3
  <2>2. top.parser \in Nat /\ top.track \in BOOLEAN
    BY <1>1, <1>4 DEF Frames
  <2> QED BY <2>1, <2>2 DEF Do, Frames, Owns
<1>7. inputs' \in Seq(Seq(Statements)) /\ Len(inputs') = n
  BY <1>1, <1>2, <1>3
<1> HIDE DEF f, g, n, below, top
<1>8. /\ IsStack(c) /\ c # <<>> /\ depth(c) = depth(control)
      /\ \A s : LoopsRight(control, s) => LoopsRight(c, s)
  BY <1>4, <1>5, Put
<1> HIDE DEF c
<1>9. /\ IsStack(Append(c, g)) /\ Append(c, g) # <<>> /\ depth(Append(c, g)) = depth(control)
      /\ \A s : LoopsRight(control, s) => LoopsRight(Append(c, g), s)
  BY <1>6, <1>8, Put
<1> QED BY <1>1, <1>2, <1>7, <1>9, EngineStep

\* run() returns, and its stream goes with it.
LEMMA ReturnInv == InputInv /\ Return => InputInv'
<1> SUFFICES ASSUME InputInv, Return PROVE InputInv'
  OBVIOUS
<1>1. /\ phase = "running" /\ top.kind = "run" /\ control' = below
      /\ inputs' = IF top.owns THEN SubSeq(inputs, 1, Len(inputs) - 1) ELSE inputs
      /\ UNCHANGED data
      /\ phase' = IF below = <<>> THEN "done" ELSE "running"
  BY DEF Return, running
<1>2. /\ inputs \in Seq(Seq(Statements)) /\ Len(inputs) = depth(control)
  BY DEF InputInv, Types
<1>3. /\ IsStack(below) /\ depth(below) \in Nat
      /\ depth(control) = depth(below) + (IF Owns(top) THEN 1 ELSE 0)
      /\ \A s : LoopsRight(control, s) => LoopsRight(below, s)
  BY <1>1, TopFacts
<1>4. inputs' \in Seq(Seq(Statements)) /\ Len(inputs') = depth(below)
  <2>1. CASE top.owns
    <3>1. Len(inputs) - 1 = depth(below)
      BY <1>1, <1>2, <1>3, <2>1 DEF Owns
    <3>2. inputs' = SubSeq(inputs, 1, Len(inputs) - 1)
      BY <1>1, <2>1
    <3>3. Len(inputs) - 1 \in 0 .. Len(inputs)
      BY <1>2, <1>3, <3>1
    <3> QED BY <1>2, <3>1, <3>2, <3>3
  <2>2. CASE ~top.owns
    BY <1>1, <1>2, <1>3, <2>2 DEF Owns
  <2> QED BY <2>1, <2>2
<1> HIDE DEF below, top
<1> QED BY <1>1, <1>3, <1>4, EngineStep

\* run() goes on after a statement.
LEMMA NextStatementInv == InputInv /\ NextStatement => InputInv'
<1> SUFFICES ASSUME InputInv, NextStatement PROVE InputInv'
  OBVIOUS
<1> DEFINE f == [top EXCEPT !.busy = FALSE]
<1>1. /\ phase = "running" /\ top.kind = "run" /\ control' = Append(below, f)
      /\ inputs' = inputs /\ UNCHANGED data /\ phase' = phase
  BY DEF NextStatement, running
<1>2. inputs \in Seq(Seq(Statements)) /\ Len(inputs) = depth(control)
  BY DEF InputInv, Types
<1>3. /\ top \in Frames /\ IsStack(below) /\ (below # <<>> \/ Owns(top))
      /\ depth(control) = depth(below) + (IF Owns(top) THEN 1 ELSE 0)
      /\ \A s : LoopsRight(control, s) => LoopsRight(below, s)
  BY <1>1, TopFacts
<1>4. f \in Frames /\ Owns(f) = Owns(top) /\ f.kind = "run"
  BY <1>1, <1>3 DEF Frames, Owns
<1> HIDE DEF f, below, top
<1>5. /\ IsStack(Append(below, f)) /\ Append(below, f) # <<>>
      /\ depth(Append(below, f)) = depth(control)
      /\ \A s : LoopsRight(control, s) => LoopsRight(Append(below, f), s)
  BY <1>3, <1>4, Put
<1> QED BY <1>1, <1>2, <1>5, EngineStep

\* A loop starts without a value of its condition.
LEMMA BeginWhileInv == InputInv /\ BeginWhile => InputInv'
<1> SUFFICES ASSUME InputInv, BeginWhile PROVE InputInv'
  OBVIOUS
<1> DEFINE f == Loop(top, top.statement)
<1>1. /\ phase = "running" /\ top.kind = "do" /\ top.statement.op = "while"
      /\ control' = Append(below, f)
      /\ inputs' = inputs /\ UNCHANGED data /\ phase' = phase
  BY DEF BeginWhile, executing, running
<1>2. inputs \in Seq(Seq(Statements)) /\ Len(inputs) = depth(control)
  BY DEF InputInv, Types
<1>3. /\ IsStack(below) /\ below # <<>> /\ depth(control) = depth(below)
      /\ \A s : LoopsRight(control, s) => LoopsRight(below, s)
      /\ top.parser \in Nat /\ top.track \in BOOLEAN /\ top.statement \in Statements
  BY <1>1, TopFacts, DoFacts
<1>4. f \in Frames /\ ~Owns(f) /\ \A s : LoopRight(f, s)
  BY <1>1, <1>3 DEF Loop, Frames, Owns, LoopRight
<1> HIDE DEF f, below, top
<1>5. /\ IsStack(Append(below, f)) /\ Append(below, f) # <<>>
      /\ depth(Append(below, f)) = depth(control)
      /\ \A s : LoopsRight(control, s) => LoopsRight(Append(below, f), s)
  BY <1>3, <1>4, Put
<1> QED BY <1>1, <1>2, <1>5, EngineStep

\* A block is read by an activation of run() that owns its stream.
LEMMA BlockInv == InputInv /\ Block => InputInv'
<1> SUFFICES ASSUME InputInv, Block PROVE InputInv'
  OBVIOUS
<1> DEFINE f == Run(top.parser, top.track, FALSE, TRUE)
<1>1. /\ phase = "running" /\ top.kind = "do" /\ top.statement.op = "block"
      /\ control' = Append(below, f)
      /\ inputs' = Append(inputs, top.statement.body) /\ UNCHANGED data /\ phase' = phase
  BY DEF Block, executing, running
<1>2. inputs \in Seq(Seq(Statements)) /\ Len(inputs) = depth(control)
  BY DEF InputInv, Types
<1>3. /\ IsStack(below) /\ below # <<>> /\ depth(control) = depth(below)
      /\ \A s : LoopsRight(control, s) => LoopsRight(below, s)
      /\ top.parser \in Nat /\ top.track \in BOOLEAN /\ IsStatement(top.statement)
  BY <1>1, TopFacts, DoFacts
<1>4. f \in Frames /\ Owns(f) /\ f.kind = "run"
  BY <1>3 DEF Run, Frames, Owns
<1>5. inputs' \in Seq(Seq(Statements)) /\ Len(inputs') = Len(inputs) + 1
  BY <1>1, <1>2, <1>3 DEF IsStatement
<1> HIDE DEF f, below, top
<1>6. /\ IsStack(Append(below, f)) /\ Append(below, f) # <<>>
      /\ depth(Append(below, f)) = depth(control) + 1
      /\ \A s : LoopsRight(control, s) => LoopsRight(Append(below, f), s)
  BY <1>3, <1>4, Put
<1> QED BY <1>1, <1>2, <1>5, <1>6, EngineStep

\* A STOP is done with at once.
LEMMA StopInv == InputInv /\ Stop => InputInv'
<1> SUFFICES ASSUME InputInv, Stop PROVE InputInv'
  OBVIOUS
<1>1. /\ phase = "running" /\ top.kind = "do" /\ control' = below
      /\ inputs' = inputs /\ UNCHANGED data /\ phase' = phase
  BY DEF Stop, executing, running
<1>2. inputs \in Seq(Seq(Statements)) /\ Len(inputs) = depth(control)
  BY DEF InputInv, Types
<1>3. /\ IsStack(below) /\ below # <<>> /\ depth(control) = depth(below)
      /\ \A s : LoopsRight(control, s) => LoopsRight(below, s)
  BY <1>1, TopFacts, DoFacts
<1> HIDE DEF below, top
<1> QED BY <1>1, <1>2, <1>3, EngineStep

\* Giving up leaves everything as it was.
LEMMA AbortInv == InputInv /\ abort => InputInv'
<1> SUFFICES ASSUME InputInv, abort PROVE InputInv'
  OBVIOUS
<1>1. /\ control' = control /\ inputs' = inputs /\ UNCHANGED data /\ phase' = "aborted"
  BY DEF abort, engine
<1>2. /\ inputs \in Seq(Seq(Statements)) /\ Len(inputs) = depth(control) /\ IsStack(control)
  BY DEF InputInv, Types
<1> QED BY <1>1, <1>2, EngineStep

-----------------------------------------------------------------------------
(* Definitions.                                                             *)

\* New attributes.
LEMMA Made ==
    /\ \A v \in 0 .. Cap : Plain(v) \in Attributes
    /\ \A x : IsExpression(x) => Automatic(x) \in Attributes
<1>1. \A v \in 0 .. Cap : Plain(v) \in Attributes
  BY DEF Plain, Attributes
<1>2. \A x : IsExpression(x) => Automatic(x) \in Attributes
  BY InputAssumption DEF Automatic, IsExpression, Attributes
<1> QED BY <1>1, <1>2

\* A directory with a new or another attribute.
LEMMA With ==
    ASSUME NEW s, IsStore(s), NEW name, IsName(name), NEW x \in Attributes
    PROVE  IsStore(with(s, name, x)) /\ DOMAIN with(s, name, x) = DOMAIN s \cup {name}
<1> DEFINE t == with(s, name, x)
           D == DOMAIN s \cup {name}
<1>1. DOMAIN t = D /\ t = [n \in D |-> t[n]]
  BY DEF with
<1>2. \A n \in D : t[n] \in Attributes
  BY DEF with, IsStore, Valuations
<1> HIDE DEF t
<1>3. t \in Valuations(D)
  BY <1>1, <1>2 DEF Valuations
<1>4. IsFiniteSet(D) /\ \A n \in D : IsName(n)
  BY FS_AddElement DEF IsStore
<1> QED BY <1>1, <1>3, <1>4 DEF IsStore, t

\* Another attribute for a name of the directory.
LEMMA Except ==
    ASSUME NEW s, IsStore(s), NEW name \in DOMAIN s, NEW x \in Attributes
    PROVE  IsStore([s EXCEPT ![name] = x]) /\ DOMAIN [s EXCEPT ![name] = x] = DOMAIN s
<1> DEFINE t == [s EXCEPT ![name] = x]
<1>1. s \in [DOMAIN s -> Attributes]
  BY DEF IsStore, Valuations
<1>2. t \in [DOMAIN s -> Attributes]
  BY <1>1
<1>3. DOMAIN t = DOMAIN s
  OBVIOUS
<1> HIDE DEF t
<1> QED BY <1>2, <1>3 DEF IsStore, Valuations, t

\* The directory an assignment starts from.
LEMMA WithObject ==
    ASSUME InputInv, NEW s, IsName(s.name)
    PROVE  /\ IsStore(withObject(s)) /\ s.name \in DOMAIN withObject(s)
           /\ DOMAIN defs \subseteq DOMAIN withObject(s)
<1>1. IsStore(defs) /\ Plain(0) \in Attributes
  BY Made, InputAssumption DEF InputInv, Types
<1>2. CASE s.name \in DOMAIN defs
  BY <1>1, <1>2 DEF withObject
<1>3. CASE s.name \notin DOMAIN defs
  <2>1. withObject(s) = with(defs, s.name, Plain(0))
    BY <1>3 DEF withObject
  <2>2. /\ IsStore(with(defs, s.name, Plain(0)))
        /\ DOMAIN with(defs, s.name, Plain(0)) = DOMAIN defs \cup {s.name}
    BY <1>1, With
  <2> QED BY <2>1, <2>2
<1> QED BY <1>2, <1>3

\* What an assignment leaves.
LEMMA AssignedFacts ==
    ASSUME InputInv, NEW s, IsName(s.name), NEW store, IsStore(store),
           DOMAIN store = DOMAIN withObject(s), NEW x \in Attributes, assigned(s, store, x)
    PROVE  /\ IsStore(defs') /\ modified' = TRUE
           /\ DOMAIN built \subseteq DOMAIN defs' /\ constants' \subseteq DOMAIN defs'
<1>1. s.name \in DOMAIN store /\ DOMAIN defs \subseteq DOMAIN store
  BY WithObject
<1>2. /\ defs' = [store EXCEPT ![s.name] = x] /\ modified' = TRUE
      /\ constants' \subseteq constants \cup {s.name}
  BY DEF assigned
<1>3. IsStore(defs') /\ DOMAIN defs' = DOMAIN store
  BY <1>1, <1>2, Except
<1>4. DOMAIN built \subseteq DOMAIN defs /\ constants \subseteq DOMAIN defs
  BY DEF InputInv, Types
<1> QED BY <1>1, <1>2, <1>3, <1>4

\* "=" gives a value; the definitions are modified.
LEMMA AssignInv == InputInv /\ Assign => InputInv'
<1> SUFFICES ASSUME InputInv, Assign PROVE InputInv'
  OBVIOUS
<1> DEFINE s == top.statement
           r == evaluate(withObject(s), s.expr)
<1>1. phase = "running" /\ top.kind = "do" /\ s.op = "assign"
  BY DEF Assign, executing, running
<1>2. IsName(s.name) /\ IsExpression(s.expr)
  BY <1>1, DoFacts DEF IsStatement
<1>3. CASE abort
  BY <1>3, AbortInv
<1>4. CASE ~abort
  <2>1. /\ r.ok /\ control' = below /\ assigned(s, r.store, Plain(r.value))
        /\ inputs' = inputs /\ built' = built /\ phase' = phase
    BY <1>4 DEF Assign
  <2>2. IsStore(withObject(s))
    BY <1>2, WithObject
  <2> HIDE DEF s
  <2>3. r.value \in 0 .. Cap /\ IsStore(r.store) /\ DOMAIN r.store = DOMAIN withObject(s)
    BY <1>2, <2>1, <2>2, EvaluateFacts DEF MoreCached
  <2>4. Plain(r.value) \in Attributes
    BY <2>3, Made
  <2> HIDE DEF r
  <2>5. /\ IsStore(defs') /\ modified' = TRUE
        /\ DOMAIN built \subseteq DOMAIN defs' /\ constants' \subseteq DOMAIN defs'
    BY <1>2, <2>1, <2>3, <2>4, AssignedFacts
  <2> QED BY <1>1, <2>1, <2>5, DefineStep
<1> QED BY <1>3, <1>4

\* ":=" gives an expression that is not known yet.
LEMMA DeferInv == InputInv /\ Defer => InputInv'
<1> SUFFICES ASSUME InputInv, Defer PROVE InputInv'
  OBVIOUS
<1> DEFINE s == top.statement
           x == IF s.expr.ref = NoName THEN Plain(capped(s.expr.plus)) ELSE Automatic(s.expr)
<1>1. phase = "running" /\ top.kind = "do" /\ s.op = "defer"
  BY DEF Defer, executing, running
<1>2. IsName(s.name) /\ IsExpression(s.expr)
  BY <1>1, DoFacts DEF IsStatement
<1>3. CASE abort
  BY <1>3, AbortInv
<1>4. CASE ~abort
  <2>1. /\ control' = below /\ assigned(s, withObject(s), x)
        /\ inputs' = inputs /\ built' = built /\ phase' = phase
    BY <1>4 DEF Defer
  <2>2. x \in Attributes
    <3>1. capped(s.expr.plus) \in 0 .. Cap
      BY <1>2, Capped DEF IsExpression
    <3> QED BY <1>2, <3>1, Made
  <2>3. IsStore(withObject(s))
    BY <1>2, WithObject
  <2> HIDE DEF s, x
  <2>4. /\ IsStore(defs') /\ modified' = TRUE
        /\ DOMAIN built \subseteq DOMAIN defs' /\ constants' \subseteq DOMAIN defs'
    BY <1>2, <2>1, <2>2, <2>3, AssignedFacts
  <2> QED BY <1>1, <2>1, <2>4, DefineStep
<1> QED BY <1>3, <1>4

\* A new element is not built before the next update.
LEMMA DefineElementInv == InputInv /\ DefineElement => InputInv'
<1> SUFFICES ASSUME InputInv, DefineElement PROVE InputInv'
  OBVIOUS
<1> DEFINE s == top.statement
           r == IF s.eager THEN evaluate(defs, s.expr)
                           ELSE [ok |-> TRUE, value |-> 0, store |-> defs]
           x == IF s.eager THEN Plain(r.value) ELSE Automatic(s.expr)
<1>1. phase = "running" /\ top.kind = "do" /\ s.op = "element"
  BY DEF DefineElement, executing, running
<1>2. IsName(s.name) /\ IsExpression(s.expr)
  BY <1>1, DoFacts DEF IsStatement
<1>3. CASE abort
  BY <1>3, AbortInv
<1>4. CASE ~abort
  <2>1. /\ r.ok /\ control' = below /\ defs' = with(r.store, s.name, x)
        /\ built' = with(built, s.name, 0) /\ modified' = TRUE
        /\ inputs' = inputs /\ constants' = constants /\ phase' = phase
    BY <1>4 DEF DefineElement
  <2>2. /\ IsStore(defs) /\ DOMAIN built \subseteq DOMAIN defs /\ constants \subseteq DOMAIN defs
    BY DEF InputInv, Types
  <2>3. IsStore(r.store) /\ DOMAIN r.store = DOMAIN defs /\ x \in Attributes
    <3> HIDE DEF s
    <3>1. CASE s.eager
      <4>1. r = evaluate(defs, s.expr) /\ x = Plain(r.value)
        BY <3>1
      <4> HIDE DEF r, x
      <4>2. r.value \in 0 .. Cap /\ IsStore(r.store) /\ MoreCached(defs, r.store)
        BY <1>2, <2>1, <2>2, <4>1, EvaluateFacts
      <4> QED BY <4>1, <4>2, Made DEF MoreCached
    <3>2. CASE ~s.eager
      <4>1. r.store = defs /\ x = Automatic(s.expr)
        BY <3>2
      <4> HIDE DEF r, x
      <4> QED BY <1>2, <2>2, <4>1, Made
    <3> QED BY <3>1, <3>2
  <2> HIDE DEF s, r, x
  <2>4. IsStore(defs') /\ DOMAIN defs' = DOMAIN defs \cup {s.name}
    BY <1>2, <2>1, <2>3, With
  <2>5. DOMAIN built' = DOMAIN built \cup {s.name}
    BY <2>1 DEF with
  <2>6. DOMAIN built' \subseteq DOMAIN defs' /\ constants' \subseteq DOMAIN defs'
    BY <2>1, <2>2, <2>4, <2>5
  <2> QED BY <1>1, <2>1, <2>4, <2>6, DefineStep
<1> QED BY <1>3, <1>4

-----------------------------------------------------------------------------
(* Commands and structured statements.                                      *)

\* The update after the evaluation of an attribute.
LEMMA UpdatedOf ==
    ASSUME InputInv, NEW p, IsStore(p), MoreCached(defs, p), update(p).ok
    PROVE  IsStore(update(p).defs) /\ MoreCached(update(p).defs, update(p).defs)
<1>1. /\ IsStore(defs) /\ DOMAIN built \subseteq DOMAIN defs /\ DOMAIN p = DOMAIN defs
      /\ modified \/ (Sound(defs) /\ BuiltRight(built, defs))
  BY DEF InputInv, Types, Current, MoreCached
<1>2. modified \/ (Sound(p) /\ BuiltRight(built, p))
  <2> SUFFICES ASSUME ~modified PROVE Sound(p) /\ BuiltRight(built, p)
    OBVIOUS
  <2>1. Sound(p) /\ SameValues(forgotten(defs), forgotten(p))
    BY <1>1, SoundCaching
  <2>2. DOMAIN forgotten(defs) = DOMAIN defs
    BY <1>1, Forgotten
  <2> QED BY <1>1, <2>1, <2>2, BuiltStaysRight
<1> DEFINE u == update(p).defs
<1>3. IsStore(u)
  BY <1>1, <1>2, UpdateFacts
<1> HIDE DEF u
<1> QED BY <1>3, MoreCachedReflexive DEF u

\* An evaluation after the update.
LEMMA EvaluatedAfter ==
    ASSUME InputInv, update(defs).ok, NEW x, IsExpression(x), evaluate(update(defs).defs, x).ok
    PROVE  /\ IsStore(evaluate(update(defs).defs, x).store)
           /\ MoreCached(update(defs).defs, evaluate(update(defs).defs, x).store)
<1> DEFINE u == update(defs).defs
<1>1. IsStore(u)
  BY Updated
<1>2. evaluate(u, x).ok
  OBVIOUS
<1> HIDE DEF u
<1>3. IsStore(evaluate(u, x).store) /\ MoreCached(u, evaluate(u, x).store)
  BY <1>1, <1>2, EvaluateFacts
<1> QED BY <1>3 DEF u

\* A step that updates without an evaluation before.
LEMMA UpdateStep ==
    ASSUME InputInv, update(defs).ok,
           IsStore(defs'), MoreCached(update(defs).defs, defs'), built' = update(defs).built,
           modified' = FALSE, constants' = constants, phase' = "running",
           IsStack(control'), control' # <<>>, LoopsRight(control', defs'),
           inputs' \in Seq(Seq(Statements)), Len(inputs') = depth(control')
    PROVE  InputInv'
<1>1. IsStore(defs) /\ MoreCached(defs, defs)
  BY MoreCachedReflexive DEF InputInv, Types
<1> QED BY <1>1, ReadStep

\* A command updates between its parsing and its execution.
LEMMA CommandInv == InputInv /\ Command => InputInv'
<1> SUFFICES ASSUME InputInv, Command PROVE InputInv'
  OBVIOUS
<1> DEFINE s == top.statement
           parsed == IF s.eager THEN evaluate(defs, s.expr)
                                ELSE [ok |-> TRUE, value |-> 0, store |-> defs]
           p == parsed.store
           u == update(p)
           r == IF s.eager THEN [parsed EXCEPT !.store = u.defs] ELSE evaluate(u.defs, s.expr)
<1>1. phase = "running" /\ top.kind = "do" /\ s.op = "command"
  BY DEF Command, executing, running
<1>2. IsExpression(s.expr)
  BY <1>1, DoFacts DEF IsStatement
<1>3. CASE abort
  BY <1>3, AbortInv
<1>4. CASE ~abort
  <2>1. /\ parsed.ok /\ u.ok /\ r.ok /\ control' = refreshed(below)
        /\ defs' = r.store /\ built' = u.built /\ modified' = FALSE
        /\ inputs' = inputs /\ constants' = constants /\ phase' = phase
    BY <1>4 DEF Command
  <2>2. /\ IsStore(defs) /\ inputs \in Seq(Seq(Statements)) /\ Len(inputs) = depth(control)
    BY DEF InputInv, Types
  <2>3. IsStore(p) /\ MoreCached(defs, p)
    <3> HIDE DEF s
    <3>1. CASE s.eager
      <4>1. parsed = evaluate(defs, s.expr)
        BY <3>1
      <4> HIDE DEF parsed
      <4> QED BY <1>2, <2>1, <2>2, <4>1, EvaluateFacts
    <3>2. CASE ~s.eager
      <4>1. p = defs
        BY <3>2
      <4> HIDE DEF p
      <4> QED BY <2>2, <4>1, MoreCachedReflexive
    <3> QED BY <3>1, <3>2
  <2>4. IsStore(defs') /\ MoreCached(u.defs, defs')
    <3> HIDE DEF s
    <3>1. CASE s.eager
      <4>1. r.store = u.defs
        <5>1. parsed = evaluate(defs, s.expr)
          BY <3>1
        <5>2. parsed.ok
          BY <2>1
        <5>3. \E a, b, c : parsed = [ok |-> a, value |-> b, store |-> c]
          BY <5>1, <5>2 DEF evaluate, Failed
        <5>4. r = [parsed EXCEPT !.store = u.defs]
          BY <3>1
        <5> HIDE DEF parsed, u, r
        <5> QED BY <5>3, <5>4
      <4>2. IsStore(u.defs) /\ MoreCached(u.defs, u.defs)
        <5> HIDE DEF p
        <5> QED BY <2>1, <2>3, UpdatedOf
      <4> HIDE DEF u, r
      <4> QED BY <2>1, <4>1, <4>2
    <3>2. CASE ~s.eager
      <4>1. p = defs /\ r = evaluate(u.defs, s.expr)
        BY <3>2
      <4>2. u = update(defs)
        BY <4>1
      <4> HIDE DEF u, r, p
      <4>3. IsStore(r.store) /\ MoreCached(u.defs, r.store)
        BY <1>2, <2>1, <4>1, <4>2, EvaluatedAfter
      <4> QED BY <2>1, <4>3
    <3> QED BY <3>1, <3>2
  <2> HIDE DEF s, parsed, p, r
  <2>5. ~modified => SameValues(forgotten(defs), forgotten(defs'))
    BY <2>1, <2>3, <2>4, ReadFacts
  <2>6. /\ IsStack(control') /\ control' # <<>> /\ depth(control') = depth(control)
        /\ LoopsRight(control', defs')
    BY <1>1, <2>1, <2>5, RefreshedBelow
  <2> QED BY <1>1, <2>1, <2>2, <2>3, <2>4, <2>6, ReadStep
<1> QED BY <1>3, <1>4

\* IF updates before it tests its condition.
LEMMA IfInv == InputInv /\ If => InputInv'
<1> SUFFICES ASSUME InputInv, If PROVE InputInv'
  OBVIOUS
<1> DEFINE s == top.statement
           x == expression(s.condition.name)
           r == readAfterUpdate(x)
           chosen == IF holds(s.condition, r.value) THEN s.then ELSE s.else
           b == refreshed(below)
           f == Do(top, chosen)
<1>1. phase = "running" /\ top.kind = "do" /\ s.op = "if"
  BY DEF If, executing, running
<1>2. /\ IsExpression(x) /\ chosen \in Statements \cup {Nothing}
      /\ top.parser \in Nat /\ top.track \in BOOLEAN
  <2>1. IsStatement(s) /\ top.parser \in Nat /\ top.track \in BOOLEAN
    BY <1>1, DoFacts
  <2>2. s.condition.name \in STRING /\ {s.then, s.else} \subseteq Statements \cup {Nothing}
    BY <1>1, <2>1 DEF IsStatement, IsName
  <2> HIDE DEF s
  <2> QED BY <2>1, <2>2 DEF expression, IsExpression
<1>3. CASE abort
  BY <1>3, AbortInv
<1>4. CASE ~abort
  <2>1. /\ r.ok /\ control' = IF chosen = Nothing THEN b ELSE Append(b, f)
        /\ defs' = r.store /\ built' = update(defs).built /\ modified' = FALSE
        /\ inputs' = inputs /\ constants' = constants /\ phase' = phase
    BY <1>4 DEF If
  <2>2. inputs \in Seq(Seq(Statements)) /\ Len(inputs) = depth(control)
    BY DEF InputInv, Types
  <2>3. update(defs).ok /\ r = evaluate(update(defs).defs, x)
    BY <2>1 DEF readAfterUpdate, Failed
  <2> HIDE DEF s, x, r, b, chosen, f
  <2>4. IsStore(defs') /\ MoreCached(update(defs).defs, defs')
    BY <1>2, <2>1, <2>3, EvaluatedAfter
  <2>5. SameValues(forgotten(defs), forgotten(defs'))
    BY <2>3, <2>4, UpdateOnly
  <2>6. /\ IsStack(b) /\ b # <<>> /\ depth(b) = depth(control) /\ LoopsRight(b, defs')
    BY <1>1, <2>5, RefreshedBelow DEF b
  <2>7. /\ IsStack(control') /\ control' # <<>> /\ depth(control') = depth(control)
        /\ LoopsRight(control', defs')
    <3>1. CASE chosen = Nothing
      BY <2>1, <2>6, <3>1
    <3>2. CASE chosen # Nothing
      <4>1. f \in Frames /\ ~Owns(f) /\ f.kind = "do"
        BY <1>2, <3>2 DEF f, Do, Frames, Owns
      <4>2. control' = Append(b, f)
        BY <2>1, <3>2
      <4>3. /\ IsStack(Append(b, f)) /\ Append(b, f) # <<>>
            /\ depth(Append(b, f)) = depth(control)
            /\ LoopsRight(Append(b, f), defs')
        BY <2>6, <4>1, Put
      <4> QED BY <4>2, <4>3
    <3> QED BY <3>1, <3>2
  <2> QED BY <1>1, <2>1, <2>2, <2>3, <2>4, <2>7, UpdateStep
<1> QED BY <1>3, <1>4

\* A loop goes on exactly as long as the definitions make its condition true, whether it is
\* evaluated again or not.
LEMMA WhileFacts ==
    ASSUME InputInv, phase = "running", top.kind = "while",
           NEW c, c = top.statement.condition, NEW x, x = expression(c.name),
           readAfterUpdate(x).ok,
           NEW frame, frame = refreshed(control)[Len(control)]
    PROVE  /\ update(defs).ok /\ readAfterUpdate(x) = evaluate(update(defs).defs, x)
           /\ definitive(x).ok /\ outcome(definitive(x)) = definitive(x).value
           /\ (IF frame.last # "unknown" THEN frame.last = "true"
                                         ELSE holds(c, readAfterUpdate(x).value))
                  = holds(c, definitive(x).value)
           /\ frame \in Frames /\ frame.kind = "while" /\ frame.statement = top.statement
<1>1. /\ top \in Frames /\ IsStack(control) /\ control # <<>> /\ modified \in BOOLEAN
      /\ ~modified => LoopsRight(control, defs)
  BY TopFacts DEF InputInv, Types, Current
<1>2. control \in Seq(Frames) /\ Len(control) \in DOMAIN control /\ top = control[Len(control)]
  BY <1>1 DEF IsStack, top
<1>3. /\ modified => frame = [top EXCEPT !.last = "unknown"]
      /\ ~modified => frame = top
  BY <1>2 DEF refreshed
<1>4. update(defs).ok /\ readAfterUpdate(x) = evaluate(update(defs).defs, x)
  BY DEF readAfterUpdate, Failed
<1>5. /\ definitive(x).ok /\ definitive(x).value = readAfterUpdate(x).value
      /\ outcome(definitive(x)) = definitive(x).value
  BY <1>4, ReadsDefinitive
<1> HIDE DEF top
<1>6. frame \in Frames /\ frame.kind = "while" /\ frame.statement = top.statement
  <2>1. CASE modified
    BY <1>1, <1>3, <2>1 DEF Frames
  <2>2. CASE ~modified
    BY <1>1, <1>3, <2>2
  <2> QED BY <2>1, <2>2
<1>7. CASE frame.last = "unknown"
  BY <1>4, <1>5, <1>6, <1>7
<1>8. CASE frame.last # "unknown"
  <2>1. ~modified
    <3> SUFFICES ASSUME modified PROVE FALSE
      BY <1>1
    <3>1. frame = [top EXCEPT !.last = "unknown"]
      BY <1>3
    <3>2. frame.last = "unknown"
      BY <1>1, <3>1 DEF Frames
    <3> QED BY <1>8, <3>2
  <2>2. frame = top
    BY <1>3, <2>1
  <2>3. LoopRight(top, defs)
    BY <1>1, <1>2, <2>1 DEF LoopsRight
  <2>4. /\ top.last = "true" /\ holds(c, evaluate(forgotten(defs), x).value)
    BY <1>8, <2>2, <2>3 DEF LoopRight
  <2>5. holds(c, definitive(x).value)
    BY <2>4 DEF definitive
  <2> QED BY <1>4, <1>5, <1>6, <1>8, <2>2, <2>4, <2>5 DEF holds
<1> QED BY <1>7, <1>8

\* A loop updates before it tests its condition, which the update has forgotten.
LEMMA TestWhileInv == InputInv /\ TestWhile => InputInv'
<1> SUFFICES ASSUME InputInv, TestWhile PROVE InputInv'
  OBVIOUS
<1> DEFINE c == top.statement.condition
           x == expression(c.name)
           r == readAfterUpdate(x)
           frame == refreshed(control)[Len(control)]
           known == frame.last # "unknown"
           passed == IF known THEN frame.last = "true" ELSE holds(c, r.value)
           b == refreshed(below)
           g == [frame EXCEPT !.last = "true"]
           f == Do(top, top.statement.body)
<1>1. phase = "running" /\ top.kind = "while"
  BY DEF TestWhile, running
<1>2. /\ IsExpression(x) /\ top.statement.op = "while" /\ top.statement.body \in Statements
      /\ top.parser \in Nat /\ top.track \in BOOLEAN
  <2>1. /\ IsStatement(top.statement) /\ top.parser \in Nat /\ top.track \in BOOLEAN
        /\ top \in Frames
    BY <1>1, DoFacts, TopFacts
  <2>2. top.statement.op = "while"
    BY <1>1, <2>1 DEF Frames
  <2>3. c.name \in STRING /\ top.statement.body \in Statements
    BY <2>1, <2>2 DEF IsStatement, IsName
  <2> HIDE DEF c
  <2> QED BY <2>1, <2>2, <2>3 DEF expression, IsExpression
<1>3. CASE abort
  BY <1>3, AbortInv
<1>4. CASE ~abort
  <2>1. /\ r.ok /\ control' = IF passed THEN Append(Append(b, g), f) ELSE b
        /\ defs' = IF known THEN update(defs).defs ELSE r.store
        /\ built' = update(defs).built /\ modified' = FALSE
        /\ inputs' = inputs /\ constants' = constants /\ phase' = phase
    BY <1>4 DEF TestWhile
  <2>2. inputs \in Seq(Seq(Statements)) /\ Len(inputs) = depth(control)
    BY DEF InputInv, Types
  <2>3. /\ update(defs).ok /\ r = evaluate(update(defs).defs, x)
        /\ definitive(x).ok /\ passed = holds(c, definitive(x).value)
        /\ frame \in Frames /\ frame.kind = "while" /\ frame.statement = top.statement
    <3>1. r.ok
      BY <2>1
    <3> QED BY <1>1, <3>1, WhileFacts
  <2>4. g \in Frames /\ ~Owns(g) /\ g.kind = "while" /\ g.statement = top.statement /\ g.last = "true"
    <3> HIDE DEF frame, top
    <3> QED BY <2>3 DEF Frames, Owns
  <2>5. f \in Frames /\ ~Owns(f) /\ f.kind = "do"
    BY <1>2 DEF Do, Frames, Owns
  <2> HIDE DEF r, b, f, g, known, passed, frame
  <2>6. IsStore(defs') /\ MoreCached(update(defs).defs, defs')
    <3>1. CASE known
      <4>1. defs' = update(defs).defs
        BY <2>1, <3>1
      <4> QED BY <2>3, <4>1, Updated
    <3>2. CASE ~known
      <4>1. defs' = r.store
        BY <2>1, <3>2
      <4> HIDE DEF x
      <4> QED BY <1>2, <2>1, <2>3, <4>1, EvaluatedAfter
    <3> QED BY <3>1, <3>2
  <2>7. SameValues(forgotten(defs), forgotten(defs'))
    BY <2>3, <2>6, UpdateOnly
  <2>8. /\ IsStack(b) /\ b # <<>> /\ depth(b) = depth(control) /\ LoopsRight(b, defs')
    BY <1>1, <2>7, RefreshedBelow DEF b
  <2>9. passed => LoopRight(g, defs')
    <3> SUFFICES ASSUME passed
                 PROVE  /\ evaluate(forgotten(defs'), x).ok
                        /\ holds(c, evaluate(forgotten(defs'), x).value)
      BY <2>4 DEF LoopRight
    <3>1. evaluate(forgotten(defs), x).ok /\ holds(c, evaluate(forgotten(defs), x).value)
      BY <2>3 DEF definitive
    <3>2. /\ evaluate(forgotten(defs), x).ok <=> evaluate(forgotten(defs'), x).ok
          /\ evaluate(forgotten(defs), x).ok =>
                 evaluate(forgotten(defs), x).value = evaluate(forgotten(defs'), x).value
      <4> HIDE DEF x
      <4> QED BY <2>7, SameOutcome
    <3> HIDE DEF c, x
    <3> QED BY <3>1, <3>2
  <2>10. /\ IsStack(control') /\ control' # <<>> /\ depth(control') = depth(control)
         /\ LoopsRight(control', defs')
    <3>1. CASE ~passed
      BY <2>1, <2>8, <3>1
    <3>2. CASE passed
      <4>1. control' = Append(Append(b, g), f)
        BY <2>1, <3>2
      <4>2. /\ IsStack(Append(b, g)) /\ Append(b, g) # <<>>
            /\ depth(Append(b, g)) = depth(control)
            /\ LoopsRight(Append(b, g), defs')
        BY <2>4, <2>8, <2>9, <3>2, Put
      <4> DEFINE d == Append(b, g)
      <4>3. IsStack(d) /\ d # <<>> /\ depth(d) = depth(control) /\ LoopsRight(d, defs')
        BY <4>2
      <4> HIDE DEF d
      <4>4. /\ IsStack(Append(d, f)) /\ Append(d, f) # <<>>
            /\ depth(Append(d, f)) = depth(control)
            /\ LoopsRight(Append(d, f), defs')
        BY <2>5, <4>3, Put
      <4> QED BY <4>1, <4>4 DEF d
    <3> QED BY <3>1, <3>2
  <2> QED BY <1>1, <2>1, <2>2, <2>3, <2>6, <2>10, UpdateStep
<1> QED BY <1>3, <1>4

\* CALL and TRACK, which let another parser run.
LEMMA CallInv == InputInv /\ Call => InputInv'
<1> SUFFICES ASSUME InputInv, Call PROVE InputInv'
  OBVIOUS
<1> DEFINE b == refreshed(below)
           f == Run(Len(control), FALSE, TRUE, TRUE)
<1>1. phase = "running" /\ top.kind = "do" /\ top.statement.op = "call"
  BY DEF Call, executing, running
<1>2. CASE abort
  BY <1>2, AbortInv
<1>3. CASE ~abort
  <2>1. /\ update(defs).ok /\ control' = Append(b, f)
        /\ inputs' = Append(inputs, Files[top.statement.file])
        /\ defs' = update(defs).defs /\ built' = update(defs).built /\ modified' = FALSE
        /\ constants' = constants /\ phase' = phase
    BY <1>3 DEF Call
  <2>2. /\ inputs \in Seq(Seq(Statements)) /\ Len(inputs) = depth(control)
        /\ IsStack(control)
    BY DEF InputInv, Types
  <2>3. IsStatement(top.statement)
    BY <1>1, DoFacts
  <2>4. Files[top.statement.file] \in Seq(Statements)
    BY <1>1, <2>3, InputAssumption DEF IsStatement
  <2>5. inputs' \in Seq(Seq(Statements)) /\ Len(inputs') = Len(inputs) + 1
    BY <2>1, <2>2, <2>4
  <2>6. f \in Frames /\ Owns(f) /\ f.kind = "run"
    <3>1. Len(control) \in Nat
      BY <2>2 DEF IsStack
    <3> QED BY <3>1 DEF Run, Frames, Owns
  <2> HIDE DEF b, f
  <2>7. IsStore(defs') /\ MoreCached(update(defs).defs, defs')
    BY <2>1, Updated
  <2>8. SameValues(forgotten(defs), forgotten(defs'))
    BY <2>1, <2>7, UpdateOnly
  <2>9. /\ IsStack(b) /\ b # <<>> /\ depth(b) = depth(control) /\ LoopsRight(b, defs')
    BY <1>1, <2>8, RefreshedBelow DEF b
  <2>10. /\ IsStack(Append(b, f)) /\ Append(b, f) # <<>>
         /\ depth(Append(b, f)) = depth(control) + 1
         /\ LoopsRight(Append(b, f), defs')
    BY <2>6, <2>9, Put
  <2> QED BY <1>1, <2>1, <2>2, <2>5, <2>7, <2>10, UpdateStep
<1> QED BY <1>2, <1>3

\* TRACK reads on in the current stream.
LEMMA TrackInv == InputInv /\ Track => InputInv'
<1> SUFFICES ASSUME InputInv, Track PROVE InputInv'
  OBVIOUS
<1> DEFINE b == refreshed(below)
           f == Run(Len(control), TRUE, TRUE, FALSE)
<1>1. phase = "running" /\ top.kind = "do"
  BY DEF Track, executing, running
<1>2. CASE abort
  BY <1>2, AbortInv
<1>3. CASE ~abort
  <2>1. /\ update(defs).ok /\ control' = Append(b, f) /\ inputs' = inputs
        /\ defs' = update(defs).defs /\ built' = update(defs).built /\ modified' = FALSE
        /\ constants' = constants /\ phase' = phase
    BY <1>3 DEF Track
  <2>2. /\ inputs \in Seq(Seq(Statements)) /\ Len(inputs) = depth(control)
        /\ IsStack(control)
    BY DEF InputInv, Types
  <2>3. f \in Frames /\ ~Owns(f) /\ f.kind = "run"
    <3>1. Len(control) \in Nat
      BY <2>2 DEF IsStack
    <3> QED BY <3>1 DEF Run, Frames, Owns
  <2> HIDE DEF b, f
  <2>4. IsStore(defs') /\ MoreCached(update(defs).defs, defs')
    BY <2>1, Updated
  <2>5. SameValues(forgotten(defs), forgotten(defs'))
    BY <2>1, <2>4, UpdateOnly
  <2>6. /\ IsStack(b) /\ b # <<>> /\ depth(b) = depth(control) /\ LoopsRight(b, defs')
    BY <1>1, <2>5, RefreshedBelow DEF b
  <2>7. /\ IsStack(Append(b, f)) /\ Append(b, f) # <<>>
        /\ depth(Append(b, f)) = depth(control)
        /\ LoopsRight(Append(b, f), defs')
    BY <2>3, <2>6, Put
  <2> QED BY <1>1, <2>1, <2>2, <2>4, <2>7, UpdateStep
<1> QED BY <1>2, <1>3

\* ENDTRACK ends the reading of a track block, and leaves its stream.
LEMMA EndTrackInv == InputInv /\ EndTrack => InputInv'
<1> SUFFICES ASSUME InputInv, EndTrack PROVE InputInv'
  OBVIOUS
<1> DEFINE b == refreshed(below)
<1>1. phase = "running" /\ top.kind = "do"
  BY DEF EndTrack, executing, running
<1>2. CASE abort
  BY <1>2, AbortInv
<1>3. CASE ~abort
  <2>1. /\ update(defs).ok /\ control' = b /\ inputs' = inputs
        /\ defs' = update(defs).defs /\ built' = update(defs).built /\ modified' = FALSE
        /\ constants' = constants /\ phase' = phase
    BY <1>3 DEF EndTrack
  <2>2. inputs \in Seq(Seq(Statements)) /\ Len(inputs) = depth(control)
    BY DEF InputInv, Types
  <2> HIDE DEF b
  <2>3. IsStore(defs') /\ MoreCached(update(defs).defs, defs')
    BY <2>1, Updated
  <2>4. SameValues(forgotten(defs), forgotten(defs'))
    BY <2>1, <2>3, UpdateOnly
  <2>5. /\ IsStack(b) /\ b # <<>> /\ depth(b) = depth(control) /\ LoopsRight(b, defs')
    BY <1>1, <2>4, RefreshedBelow DEF b
  <2> QED BY <1>1, <2>1, <2>2, <2>3, <2>5, UpdateStep
<1> QED BY <1>2, <1>3

-----------------------------------------------------------------------------
(* Theorems.                                                                *)

\* Each step keeps the invariant.
LEMMA NextInv == InputInv /\ [Next]_vars => InputInv'
<1>1. ASSUME InputInv, UNCHANGED vars PROVE InputInv'
  <2>1. /\ UNCHANGED <<control, inputs, phase>> /\ UNCHANGED <<defs, constants, built, modified>>
    BY <1>1 DEF vars, engine, data
  <2> QED BY <1>1, <2>1 DEF InputInv, Types, Current
<1> QED BY <1>1, ReadStatementInv, ReturnInv, NextStatementInv, AssignInv, DeferInv,
           DefineElementInv, CommandInv, IfInv, BeginWhileInv, TestWhileInv, BlockInv,
           CallInv, TrackInv, EndTrackInv, StopInv DEF Next

\* Whatever is executed, the invariant holds.
THEOREM InputInvariant == Spec => []InputInv
<1>1. Init => InputInv
  BY InitInv
<1>2. InputInv /\ [Next]_vars => InputInv'
  BY NextInv
<1> QED BY <1>1, <1>2, PTL DEF Spec

\* Types, and the stack discipline of inputStack: OpalParser pops a stream with the activation
\* of run() that pushed it, whichever of end, STOP and ENDTRACK ends it.
THEOREM InputTypeCorrect == Spec => []TypeOK
<1>1. InputInv => TypeOK
  <2> SUFFICES ASSUME InputInv PROVE TypeOK
    OBVIOUS
  <2>1. \A n \in DOMAIN defs : defs[n].value \in 0 .. Cap /\ defs[n].known \in BOOLEAN
    BY DEF InputInv, Types, IsStore, Valuations, Attributes
  <2>2. \A i \in DOMAIN control : control[i].kind \in {"run", "while", "do"}
    <3>1. control \in Seq(Frames)
      BY DEF InputInv, Types, IsStack
    <3>2. \A i \in DOMAIN control : control[i] \in Frames
      BY <3>1
    <3> QED BY <3>2 DEF Frames
  <2> QED BY <2>1, <2>2 DEF InputInv, Types, TypeOK, depth, owning
<1> QED BY <1>1, InputInvariant, PTL

\* The value of a name, as an expression refers to it.
LEMMA Definitive ==
    ASSUME InputInv, NEW n \in DOMAIN defs, evaluated(forgotten(defs))[n].known
    PROVE  outcome(definitive(expression(n))) = evaluated(forgotten(defs))[n].value
<1> DEFINE f == forgotten(defs)
           v == evaluated(f)[n].value
<1>1. IsStore(defs) /\ IsStore(f) /\ DOMAIN f = DOMAIN defs
  BY Forgotten DEF InputInv, Types
<1>2. n # NoName
  BY <1>1 DEF IsStore, IsName
<1>3. v \in 0 .. Cap
  <2> HIDE DEF f
  <2>1. evaluated(f) \in Valuations(DOMAIN f)
    BY <1>1, Evaluated
  <2> QED BY <1>1, <2>1 DEF Valuations, Attributes
<1>4. evaluate(f, expression(n)) =
          [ok |-> TRUE, value |-> capped(v + 0), store |-> cachedFor(f, {n})]
  BY <1>1, <1>2 DEF evaluate, expression, hasValue
<1>5. capped(v + 0) = v
  <2> HIDE DEF v
  <2> QED BY <1>3, InputAssumption DEF capped
<1> HIDE DEF v
<1> QED BY <1>4, <1>5 DEF outcome, definitive, v

\* Between an update (OpalData::update) and the next assignment every value cached by a
\* deferred expression, and every element, is what the definitions give now.
THEOREM InputUpdateRefreshes == Spec => []UpdateRefreshes
<1>1. InputInv => UpdateRefreshes
  <2> SUFFICES ASSUME InputInv, ~modified
               PROVE  /\ \A n \in DOMAIN defs : defs[n].known =>
                             defs[n].value = outcome(definitive(expression(n)))
                      /\ \A e \in DOMAIN built : built[e] = outcome(definitive(expression(e)))
    BY DEF UpdateRefreshes, CachesSound, ElementsCurrent
  <2>1. Sound(defs) /\ BuiltRight(built, defs) /\ IsStore(defs)
    BY DEF InputInv, Types, Current
  <2>2. DOMAIN forgotten(defs) = DOMAIN defs
    BY <2>1, Forgotten
  <2>3. ASSUME NEW n \in DOMAIN defs, defs[n].known
        PROVE  defs[n].value = outcome(definitive(expression(n)))
    <3>1. /\ evaluated(forgotten(defs))[n].known
          /\ defs[n].value = evaluated(forgotten(defs))[n].value
      BY <2>1, <2>2, <2>3 DEF Sound, MoreCached
    <3> QED BY <3>1, Definitive
  <2>4. ASSUME NEW e \in DOMAIN built PROVE built[e] = outcome(definitive(expression(e)))
    <3>1. /\ e \in DOMAIN defs /\ evaluated(forgotten(defs))[e].known
          /\ built[e] = evaluated(forgotten(defs))[e].value
      BY <2>1 DEF BuiltRight
    <3> QED BY <3>1, Definitive
  <2> QED BY <2>3, <2>4
<1> QED BY <1>1, InputInvariant, PTL

\* What a statement that is executed reads is what the definitions give.
LEMMA ReadsInv == InputInv /\ ReadsCurrent /\ [Next]_vars => ReadsCurrent'
<1> SUFFICES ASSUME InputInv, ReadsCurrent, [Next]_vars PROVE ReadsCurrent'
  OBVIOUS
<1>1. CASE UNCHANGED read
  BY <1>1 DEF ReadsCurrent
<1>2. CASE Assign
  <2>1. CASE abort
    BY <1>1, <2>1 DEF abort
  <2>2. CASE ~abort
    <3>1. read'.via = "parsing"
      BY <1>2, <2>2 DEF Assign
    <3> QED BY <3>1 DEF ReadsCurrent
  <2> QED BY <2>1, <2>2
<1>3. CASE DefineElement
  <2>1. CASE UNCHANGED read
    BY <1>1, <2>1
  <2>2. CASE read' # read
    <3>1. read'.via = "parsing"
      BY <1>3, <2>2 DEF DefineElement, abort, noteRead
    <3> QED BY <3>1 DEF ReadsCurrent
  <2> QED BY <2>1, <2>2
<1>4. CASE Command
  <2>1. CASE abort
    BY <1>1, <2>1 DEF abort
  <2>2. CASE ~abort
    <3> DEFINE s == top.statement
               u == update(defs)
    <3>1. CASE s.eager
      <4>1. read'.via = "parsing"
        BY <1>4, <2>2, <3>1 DEF Command, noteRead
      <4> QED BY <4>1 DEF ReadsCurrent
    <3>2. CASE ~s.eager
      <4>1. /\ u.ok /\ evaluate(u.defs, s.expr).ok
            /\ noteRead("execution", s.expr, evaluate(u.defs, s.expr).value)
        BY <1>4, <2>2, <3>2 DEF Command
      <4>2. outcome(definitive(s.expr)) = evaluate(u.defs, s.expr).value
        BY <4>1, ReadsDefinitive
      <4> HIDE DEF s, u
      <4> QED BY <4>1, <4>2 DEF noteRead, ReadsCurrent
    <3> QED BY <3>1, <3>2
  <2> QED BY <2>1, <2>2
<1>5. CASE If
  <2>1. CASE abort
    BY <1>1, <2>1 DEF abort
  <2>2. CASE ~abort
    <3> DEFINE x == expression(top.statement.condition.name)
               r == readAfterUpdate(x)
    <3>1. r.ok /\ noteRead("execution", x, r.value)
      BY <1>5, <2>2 DEF If
    <3>2. update(defs).ok /\ r = evaluate(update(defs).defs, x)
      BY <3>1 DEF readAfterUpdate, Failed
    <3>3. outcome(definitive(x)) = r.value
      <4> HIDE DEF x, r
      <4> QED BY <3>1, <3>2, ReadsDefinitive
    <3> HIDE DEF x, r
    <3> QED BY <3>1, <3>3 DEF noteRead, ReadsCurrent
  <2> QED BY <2>1, <2>2
<1>6. CASE TestWhile
  <2>1. CASE abort
    BY <1>1, <2>1 DEF abort
  <2>2. CASE ~abort
    <3> DEFINE c == top.statement.condition
               x == expression(c.name)
               r == readAfterUpdate(x)
               frame == refreshed(control)[Len(control)]
               passed == IF frame.last # "unknown" THEN frame.last = "true"
                                                   ELSE holds(c, r.value)
    <3>1. /\ phase = "running" /\ top.kind = "while" /\ r.ok
          /\ read' = [via |-> "execution", got |-> passed,
                      want |-> holds(c, outcome(definitive(x)))]
      BY <1>6, <2>2 DEF TestWhile, running
    <3>2. passed = holds(c, definitive(x).value) /\ outcome(definitive(x)) = definitive(x).value
      BY <3>1, WhileFacts
    <3> HIDE DEF passed, c, x, r
    <3> QED BY <3>1, <3>2 DEF ReadsCurrent
  <2> QED BY <2>1, <2>2
<1>7. ASSUME ~ (Assign \/ DefineElement \/ Command \/ If \/ TestWhile) PROVE UNCHANGED read
  BY <1>7 DEF Next, vars, ReadStatement, Return, NextStatement, Defer, BeginWhile, Block,
             Call, Track, EndTrack, Stop, abort
<1> QED BY <1>1, <1>2, <1>3, <1>4, <1>5, <1>6, <1>7

\* Commands, IF and WHILE never act on a value cached before a later assignment, in no round
\* of a loop and in no called file: OpalData::update has been called in time.
THEOREM InputReadsCurrent == Spec => []ReadsCurrent
<1>1. Init => ReadsCurrent
  BY DEF Init, ReadsCurrent
<1> QED BY <1>1, ReadsInv, InputInvariant, PTL DEF Spec

-----------------------------------------------------------------------------
(* Parsers and their stopFlag.                                              *)

IsRoot(f) == f.kind = "run" /\ f.root

\* What a frame does that is not at the top.
Waiting(f) == f.kind # "do" /\ (f.kind = "run" => f.busy)

\* Each parser is named by the place of its first activation; the frames above that, up to the
\* first activation of another parser, are its own. All but the top wait.
Ordered(c) ==
    \A i \in 1 .. Len(c) :
        /\ c[i].parser \in 1 .. i
        /\ IF IsRoot(c[i]) THEN c[i].parser = i ELSE i # 1 /\ c[i].parser = c[i - 1].parser
        /\ i # Len(c) => Waiting(c[i])

\* A frame that can be put on top of a stack.
Fits(c, f) ==
    /\ c # <<>> => Waiting(c[Len(c)])
    /\ f.parser \in 1 .. Len(c) + 1
    /\ IF IsRoot(f) THEN f.parser = Len(c) + 1 ELSE c # <<>> /\ f.parser = c[Len(c)].parser

\* An ordered stack is one that each of its frames fits on.
LEMMA OrderedAppend ==
    ASSUME NEW c, IsStack(c), NEW f
    PROVE  Ordered(Append(c, f)) <=> Ordered(c) /\ Fits(c, f)
<1> DEFINE d == Append(c, f)
           n == Len(c)
<1>1. c \in Seq(Frames) /\ n \in Nat /\ (c = <<>>) = (n = 0)
  BY DEF IsStack
<1>2. Len(d) = n + 1 /\ d[n + 1] = f /\ \A i \in 1 .. n : d[i] = c[i]
  BY <1>1
<1> HIDE DEF d, n
<1>3. ASSUME Ordered(d) PROVE Ordered(c) /\ Fits(c, f)
  <2>1. \A i \in 1 .. n : i \in 1 .. n + 1 /\ i # n + 1 /\ (i # 1 => i - 1 \in 1 .. n)
    BY <1>1
  <2>2. Ordered(c)
    <3> SUFFICES ASSUME NEW i \in 1 .. n
                 PROVE  /\ c[i].parser \in 1 .. i
                        /\ IF IsRoot(c[i]) THEN c[i].parser = i
                                           ELSE i # 1 /\ c[i].parser = c[i - 1].parser
                        /\ i # n => Waiting(c[i])
      BY DEF Ordered, n
    <3>1. /\ d[i].parser \in 1 .. i
          /\ IF IsRoot(d[i]) THEN d[i].parser = i ELSE i # 1 /\ d[i].parser = d[i - 1].parser
          /\ i # n + 1 => Waiting(d[i])
      BY <1>2, <1>3, <2>1 DEF Ordered
    <3>2. d[i] = c[i] /\ (i # 1 => d[i - 1] = c[i - 1])
      BY <1>2, <2>1
    <3> QED BY <2>1, <3>1, <3>2
  <2>3. /\ d[n + 1].parser \in 1 .. n + 1
        /\ IF IsRoot(d[n + 1]) THEN d[n + 1].parser = n + 1
                               ELSE n + 1 # 1 /\ d[n + 1].parser = d[(n + 1) - 1].parser
    <3>1. n + 1 \in 1 .. n + 1
      BY <1>1
    <3> QED BY <1>2, <1>3, <3>1 DEF Ordered
  <2>4. (n + 1) - 1 = n /\ (n + 1 # 1 => n # 0) /\ (n # 0 => n \in 1 .. n /\ n \in 1 .. n + 1 /\ n # n + 1)
    BY <1>1
  <2>5. n # 0 => Waiting(c[n]) /\ d[n] = c[n]
    <3>1. n # 0 => Waiting(d[n]) /\ d[n] = c[n]
      BY <1>2, <1>3, <2>4 DEF Ordered
    <3> QED BY <3>1
  <2>6. Fits(c, f)
    BY <1>1, <1>2, <2>3, <2>4, <2>5 DEF Fits, n
  <2> QED BY <2>2, <2>6
<1>4. ASSUME Ordered(c), Fits(c, f) PROVE Ordered(d)
  <2> SUFFICES ASSUME NEW i \in 1 .. n + 1
               PROVE  /\ d[i].parser \in 1 .. i
                      /\ IF IsRoot(d[i]) THEN d[i].parser = i
                                         ELSE i # 1 /\ d[i].parser = d[i - 1].parser
                      /\ i # n + 1 => Waiting(d[i])
    BY <1>2 DEF Ordered
  <2>1. CASE i = n + 1
    <3>1. i - 1 = n /\ (n # 0 => n \in 1 .. n) /\ (n # 0 => i # 1)
      BY <1>1, <2>1
    <3>2. d[i] = f /\ (n # 0 => d[i - 1] = c[n])
      BY <1>2, <2>1, <3>1
    <3> QED BY <1>1, <1>4, <2>1, <3>1, <3>2 DEF Fits, n
  <2>2. CASE i # n + 1
    <3>1. i \in 1 .. n /\ (i # 1 => i - 1 \in 1 .. n)
      BY <1>1, <2>2
    <3>2. d[i] = c[i] /\ (i # 1 => d[i - 1] = c[i - 1])
      BY <1>2, <3>1
    <3>3. /\ c[i].parser \in 1 .. i
          /\ IF IsRoot(c[i]) THEN c[i].parser = i ELSE i # 1 /\ c[i].parser = c[i - 1].parser
          /\ i # n => Waiting(c[i])
      BY <1>4, <3>1 DEF Ordered, n
    <3>4. i = n => Waiting(c[i])
      <4>1. n # 0 => Waiting(c[n])
        BY <1>1, <1>4 DEF Fits, n
      <4>2. i = n => n # 0
        BY <3>1
      <4> QED BY <4>1, <4>2
    <3> QED BY <3>2, <3>3, <3>4
  <2> QED BY <2>1, <2>2
<1> QED BY <1>3, <1>4 DEF d

\* An update leaves the order of a stack, and its parsers, as they are.
LEMMA OrderedRefreshed ==
    ASSUME NEW c, IsStack(c), modified \in BOOLEAN, Ordered(c)
    PROVE  /\ Ordered(refreshed(c)) /\ Len(refreshed(c)) = Len(c)
           /\ \A i \in 1 .. Len(c) : /\ refreshed(c)[i].parser = c[i].parser
                                     /\ Waiting(c[i]) => Waiting(refreshed(c)[i])
<1>1. CASE ~modified
  BY <1>1 DEF refreshed
<1>2. CASE modified
  <2> DEFINE d == refreshed(c)
             n == Len(c)
  <2>1. c \in Seq(Frames) /\ n \in Nat /\ DOMAIN c = 1 .. n
    BY DEF IsStack
  <2>2. d = [i \in 1 .. n |-> IF c[i].kind = "while" THEN [c[i] EXCEPT !.last = "unknown"]
                                                    ELSE c[i]]
    BY <1>2, <2>1 DEF refreshed
  <2> HIDE DEF d
  <2>3. ASSUME NEW i \in 1 .. n
        PROVE  /\ d[i].parser = c[i].parser /\ (IsRoot(d[i]) <=> IsRoot(c[i]))
               /\ Waiting(c[i]) => Waiting(d[i])
    <3>1. c[i] \in Frames
      BY <2>1
    <3>2. CASE c[i].kind = "while"
      <4>1. d[i] = [c[i] EXCEPT !.last = "unknown"]
        BY <2>2, <3>2
      <4> QED BY <3>1, <3>2, <4>1 DEF Frames, IsRoot, Waiting
    <3>3. CASE c[i].kind # "while"
      <4>1. d[i] = c[i]
        BY <2>2, <3>3
      <4> QED BY <4>1
    <3> QED BY <3>2, <3>3
  <2>4. Len(d) = n
    BY Refreshed DEF d
  <2>5. Ordered(d)
    <3> SUFFICES ASSUME NEW i \in 1 .. n
                 PROVE  /\ d[i].parser \in 1 .. i
                        /\ IF IsRoot(d[i]) THEN d[i].parser = i
                                           ELSE i # 1 /\ d[i].parser = d[i - 1].parser
                        /\ i # n => Waiting(d[i])
      BY <2>4 DEF Ordered
    <3>1. /\ c[i].parser \in 1 .. i
          /\ IF IsRoot(c[i]) THEN c[i].parser = i ELSE i # 1 /\ c[i].parser = c[i - 1].parser
          /\ i # n => Waiting(c[i])
      BY DEF Ordered
    <3>2. i # 1 => i - 1 \in 1 .. n
      BY <2>1
    <3>3. i # 1 => d[i - 1].parser = c[i - 1].parser
      BY <2>3, <3>2
    <3> QED BY <2>3, <3>1, <3>3
  <2> QED BY <2>3, <2>4, <2>5 DEF d
<1> QED BY <1>1, <1>2

\* A parser on the stack whose stopFlag is set has executed a STOP; one that has not tested a
\* loop since is at the top, and only gives up what it reads.
HaltsRight(c, st, h) ==
    /\ \A i \in 1 .. Len(c) : c[i].parser \in st => c[i].parser \in DOMAIN h
    /\ \A p \in DOMAIN h : h[p] = "stopped" =>
           p \in st /\ c # <<>> /\ c[Len(c)].parser = p /\ Waiting(c[Len(c)])

FlagsRight == Ordered(control) /\ HaltsRight(control, stopped, halted)

HaltInv == InputInv /\ FlagsRight

\* The top of the stack fits on what is below.
LEMMA OrderedTop ==
    ASSUME HaltInv, phase = "running"
    PROVE  /\ top \in Frames /\ IsStack(below) /\ Ordered(below) /\ Fits(below, top)
           /\ Len(control) = Len(below) + 1 /\ Len(below) \in Nat
           /\ (below = <<>>) = (Len(below) = 0)
           /\ \A i \in 1 .. Len(below) : below[i].parser = control[i].parser
<1>1. IsStack(control) /\ control # <<>> /\ Ordered(control)
  BY DEF HaltInv, FlagsRight, InputInv, Types
<1>2. top \in Frames /\ IsStack(below) /\ control = Append(below, top)
  BY <1>1, Popped DEF top, below
<1> HIDE DEF top, below
<1>3. Ordered(Append(below, top))
  BY <1>1, <1>2
<1>4. Ordered(below) /\ Fits(below, top)
  BY <1>2, <1>3, OrderedAppend
<1>5. below \in Seq(Frames)
  BY <1>2 DEF IsStack
<1>6. /\ Len(Append(below, top)) = Len(below) + 1 /\ Len(below) \in Nat
      /\ (below = <<>>) = (Len(below) = 0)
      /\ \A i \in 1 .. Len(below) : Append(below, top)[i] = below[i]
  BY <1>5
<1> QED BY <1>2, <1>4, <1>6

\* Nobody who has stopped is at the top, unless it only gives up what it reads.
LEMMA NoneHalted ==
    ASSUME HaltInv, ~Waiting(top) \/ top.parser \notin stopped
    PROVE  \A p \in DOMAIN halted : halted[p] # "stopped"
BY DEF HaltInv, FlagsRight, HaltsRight, top

\* Then a step that makes nobody stop keeps the flags right.
LEMMA QuietStep ==
    ASSUME NEW c, NEW d, NEW st, NEW su, NEW h,
           \A p \in DOMAIN h : h[p] # "stopped", su \subseteq st,
           HaltsRight(c, st, h),
           \A i \in 1 .. Len(d) : d[i].parser \in su =>
               \E j \in 1 .. Len(c) : c[j].parser = d[i].parser
    PROVE  HaltsRight(d, su, h)
BY DEF HaltsRight

\* A stack with a frame of the same parser, or of a new one, put on top.
LEMMA PutOrdered ==
    ASSUME NEW c, IsStack(c), Ordered(c), NEW f \in Frames, Fits(c, f), c # <<>> \/ Owns(f)
    PROVE  /\ Ordered(Append(c, f)) /\ IsStack(Append(c, f))
           /\ Len(Append(c, f)) = Len(c) + 1 /\ Append(c, f)[Len(c) + 1] = f
           /\ \A i \in 1 .. Len(c) : Append(c, f)[i] = c[i]
<1>1. c \in Seq(Frames)
  BY DEF IsStack
<1> QED BY <1>1, OrderedAppend, Pushed

\* What is below the top, after an update too, waits for the parser of the top.
LEMMA OrderedBelow ==
    ASSUME HaltInv, phase = "running", top.kind = "do" \/ top.kind = "while",
           NEW b, b = below \/ b = refreshed(below)
    PROVE  /\ IsStack(b) /\ Ordered(b) /\ b # <<>> /\ Len(b) = Len(below)
           /\ Waiting(b[Len(b)]) /\ b[Len(b)].parser = top.parser
           /\ Len(b) \in Nat /\ Len(control) = Len(b) + 1
           /\ \A i \in 1 .. Len(b) : i \in 1 .. Len(control) /\ b[i].parser = control[i].parser
<1>1. /\ IsStack(below) /\ Ordered(below) /\ Fits(below, top)
      /\ Len(control) = Len(below) + 1 /\ Len(below) \in Nat
      /\ (below = <<>>) = (Len(below) = 0)
      /\ \A i \in 1 .. Len(below) : below[i].parser = control[i].parser
  BY OrderedTop
<1>2. below # <<>>
  BY DoFacts DEF HaltInv
<1>3. Waiting(below[Len(below)]) /\ below[Len(below)].parser = top.parser
  BY <1>1, <1>2 DEF Fits, IsRoot
<1>4. modified \in BOOLEAN
  BY DEF HaltInv, FlagsRight, InputInv, Types
<1>5. Len(below) \in 1 .. Len(below) /\ \A i \in 1 .. Len(below) : i \in 1 .. Len(control)
  BY <1>1, <1>2
<1> HIDE DEF below, top
<1>6. /\ Ordered(refreshed(below)) /\ Len(refreshed(below)) = Len(below)
      /\ \A i \in 1 .. Len(below) :
            /\ refreshed(below)[i].parser = below[i].parser
            /\ Waiting(below[i]) => Waiting(refreshed(below)[i])
  BY <1>1, <1>4, OrderedRefreshed
<1>7. IsStack(refreshed(below)) /\ refreshed(below) # <<>>
  BY <1>1, <1>2, <1>4, Refreshed
<1>8. CASE b = below
  BY <1>1, <1>2, <1>3, <1>5, <1>8
<1>9. CASE b = refreshed(below)
  BY <1>1, <1>3, <1>5, <1>6, <1>7, <1>9
<1> QED BY <1>8, <1>9

\* A statement that makes nobody stop, and puts nothing or a frame of its parser, or of a new
\* one whose stopFlag is cleared, on what is below.
LEMMA StatementStep ==
    ASSUME HaltInv, phase = "running", top.kind = "do",
           NEW b, b = below \/ b = refreshed(below), stopped' \subseteq stopped, halted' = halted,
           \/ control' = b
           \/ \E f \in Frames : /\ control' = Append(b, f)
                                /\ \/ ~IsRoot(f) /\ f.parser = top.parser
                                   \/ IsRoot(f) /\ f.parser = Len(control) /\ f.parser \notin stopped'
    PROVE  Ordered(control') /\ HaltsRight(control', stopped', halted')
<1>1. /\ IsStack(b) /\ Ordered(b) /\ b # <<>> /\ Len(b) \in Nat
      /\ Waiting(b[Len(b)]) /\ b[Len(b)].parser = top.parser /\ Len(control) = Len(b) + 1
      /\ \A i \in 1 .. Len(b) : i \in 1 .. Len(control) /\ b[i].parser = control[i].parser
  BY OrderedBelow
<1>2. \A p \in DOMAIN halted : halted[p] # "stopped"
  BY NoneHalted DEF Waiting
<1>3. HaltsRight(control, stopped, halted)
  BY DEF HaltInv, FlagsRight
<1>4. Len(b) \in 1 .. Len(b)
  <2>1. Len(b) # 0
    BY <1>1 DEF IsStack
  <2> QED BY <1>1, <2>1
<1> HIDE DEF top
<1>5. CASE control' = b
  <2>1. \A i \in 1 .. Len(b) : b[i].parser \in stopped' =>
            \E j \in 1 .. Len(control) : control[j].parser = b[i].parser
    BY <1>1
  <2>2. HaltsRight(b, stopped', halted)
    BY <1>2, <1>3, <2>1, QuietStep
  <2> QED BY <1>1, <1>5, <2>2
<1>6. CASE control' # b
  <2>1. PICK f \in Frames : /\ control' = Append(b, f)
                            /\ \/ ~IsRoot(f) /\ f.parser = top.parser
                               \/ IsRoot(f) /\ f.parser = Len(control) /\ f.parser \notin stopped'
    BY <1>6
  <2>2. b[Len(b)].parser \in 1 .. Len(b)
    BY <1>1, <1>4 DEF Ordered
  <2>3. Fits(b, f)
    BY <1>1, <2>1, <2>2 DEF Fits
  <2>4. /\ Ordered(Append(b, f))
        /\ Len(Append(b, f)) = Len(b) + 1 /\ Append(b, f)[Len(b) + 1] = f
        /\ \A i \in 1 .. Len(b) : Append(b, f)[i] = b[i]
    BY <1>1, <2>3, PutOrdered
  <2> DEFINE d == Append(b, f)
  <2> HIDE DEF d
  <2>5. ASSUME NEW i \in 1 .. Len(d), d[i].parser \in stopped'
        PROVE  \E j \in 1 .. Len(control) : control[j].parser = d[i].parser
    <3>0. Len(d) = Len(b) + 1 /\ d[Len(b) + 1] = f /\ \A k \in 1 .. Len(b) : d[k] = b[k]
      BY <2>4 DEF d
    <3>1. CASE i = Len(b) + 1
      <4>1. f.parser = b[Len(b)].parser
        BY <1>1, <2>1, <2>5, <3>0, <3>1
      <4> QED BY <1>1, <1>4, <3>0, <3>1, <4>1
    <3>2. CASE i # Len(b) + 1
      <4>1. i \in 1 .. Len(b)
        BY <1>1, <3>0, <3>2
      <4> QED BY <1>1, <3>0, <4>1
    <3> QED BY <3>1, <3>2
  <2>6. HaltsRight(d, stopped', halted)
    BY <1>2, <1>3, <2>5, QuietStep
  <2> QED BY <2>1, <2>4, <2>6 DEF d
<1> QED BY <1>5, <1>6


\* Most statements are done with, or wait for the frame that they put on the stack.
LEMMA QuietStatements ==
    ASSUME HaltInv, Assign \/ Defer \/ DefineElement \/ Command \/ BeginWhile
    PROVE  FlagsRight'
<1>1. phase = "running" /\ top.kind = "do"
  BY DEF Assign, Defer, DefineElement, Command, BeginWhile, executing, running
<1>2. CASE stopped' = stopped /\ halted' = halted /\ control' \in {below, refreshed(below)}
  <2>1. Ordered(control') /\ HaltsRight(control', stopped', halted')
    BY <1>1, <1>2, StatementStep
  <2> QED BY <2>1 DEF FlagsRight
<1>3. CASE abort
  BY <1>3 DEF HaltInv, FlagsRight, abort, engine
<1>4. CASE Assign \/ Defer \/ DefineElement \/ Command
  BY <1>2, <1>3, <1>4 DEF Assign, Defer, DefineElement, Command
<1>5. CASE BeginWhile
  <2> DEFINE f == Loop(top, top.statement)
  <2>1. /\ control' = Append(below, f) /\ stopped' = stopped /\ halted' = halted
        /\ top.statement.op = "while"
    BY <1>5 DEF BeginWhile, executing
  <2>2. top.parser \in Nat /\ top.track \in BOOLEAN /\ top.statement \in Statements
    BY <1>1, DoFacts DEF HaltInv
  <2>3. f \in Frames /\ ~IsRoot(f) /\ f.parser = top.parser
    BY <2>1, <2>2 DEF Loop, Frames, IsRoot
  <2> HIDE DEF f
  <2>4. Ordered(control') /\ HaltsRight(control', stopped', halted')
    BY <1>1, <2>1, <2>3, StatementStep
  <2> QED BY <2>4 DEF FlagsRight
<1> QED BY <1>4, <1>5

\* IF puts the chosen statement on the stack.
LEMMA IfHalts == HaltInv /\ If => FlagsRight'
<1> SUFFICES ASSUME HaltInv, If PROVE FlagsRight'
  OBVIOUS
<1>1. phase = "running" /\ top.kind = "do" /\ top.statement.op = "if"
  BY DEF If, executing, running
<1>2. CASE abort
  BY <1>2 DEF HaltInv, FlagsRight, abort, engine
<1>3. CASE ~abort
  <2>1. /\ stopped' = stopped /\ halted' = halted
        /\ \/ control' = refreshed(below)
           \/ \E s \in {top.statement.then, top.statement.else} :
                 s # Nothing /\ control' = Append(refreshed(below), Do(top, s))
    BY <1>3 DEF If
  <2>2. /\ top.parser \in Nat /\ top.track \in BOOLEAN
        /\ {top.statement.then, top.statement.else} \subseteq Statements \cup {Nothing}
    BY <1>1, DoFacts DEF HaltInv, IsStatement
  <2>3. ASSUME NEW s \in Statements
        PROVE  Do(top, s) \in Frames /\ ~IsRoot(Do(top, s)) /\ Do(top, s).parser = top.parser
    BY <2>2 DEF Do, Frames, IsRoot
  <2>4. \/ control' = refreshed(below)
        \/ \E f \in Frames : /\ control' = Append(refreshed(below), f)
                             /\ ~IsRoot(f) /\ f.parser = top.parser
    BY <2>1, <2>2, <2>3
  <2> DEFINE b == refreshed(below)
  <2> HIDE DEF b
  <2>5. \/ control' = b
        \/ \E f \in Frames : control' = Append(b, f) /\ ~IsRoot(f) /\ f.parser = top.parser
    BY <2>4 DEF b
  <2>6. b = below \/ b = refreshed(below)
    BY DEF b
  <2>7. Ordered(control') /\ HaltsRight(control', stopped', halted')
    BY <1>1, <2>1, <2>5, <2>6, StatementStep
  <2> QED BY <2>7 DEF FlagsRight
<1> QED BY <1>2, <1>3

\* A new activation of run() clears the stopFlag of its parser.
LEMMA RunHalts ==
    ASSUME HaltInv, Block \/ Call \/ Track
    PROVE  FlagsRight'
<1>1. phase = "running" /\ top.kind = "do"
  BY DEF Block, Call, Track, executing, running
<1>2. top.parser \in Nat /\ top.track \in BOOLEAN
  BY <1>1, DoFacts DEF HaltInv
<1>3. Len(control) \in Nat
  <2>1. control \in Seq(Frames)
    BY DEF HaltInv, InputInv, Types, IsStack
  <2> QED BY <2>1
<1>4. CASE Block
  <2> DEFINE f == Run(top.parser, top.track, FALSE, TRUE)
  <2>1. control' = Append(below, f) /\ stopped' \subseteq stopped /\ halted' = halted
    BY <1>4 DEF Block, enter
  <2>2. f \in Frames /\ ~IsRoot(f) /\ f.parser = top.parser
    BY <1>2 DEF Run, Frames, IsRoot
  <2> HIDE DEF f
  <2>3. Ordered(control') /\ HaltsRight(control', stopped', halted')
    BY <1>1, <2>1, <2>2, StatementStep
  <2> QED BY <2>3 DEF FlagsRight
<1>5. CASE Call \/ Track
  <2>1. CASE abort
    BY <2>1 DEF HaltInv, FlagsRight, abort, engine
  <2>2. CASE ~abort
    <3>1. PICK f : /\ f = Run(Len(control), FALSE, TRUE, TRUE) \/ f = Run(Len(control), TRUE, TRUE, FALSE)
                   /\ control' = Append(refreshed(below), f)
                   /\ stopped' = stopped \ {Len(control)} /\ halted' = halted
      <4>1. CASE Call
        BY <2>2, <4>1 DEF Call, enter
      <4>2. CASE Track
        BY <2>2, <4>2 DEF Track, enter
      <4> QED BY <1>5, <4>1, <4>2
    <3>2. f \in Frames /\ IsRoot(f) /\ f.parser = Len(control)
      <4>1. CASE f = Run(Len(control), FALSE, TRUE, TRUE)
        BY <1>3, <4>1 DEF Run, Frames, IsRoot
      <4>2. CASE f = Run(Len(control), TRUE, TRUE, FALSE)
        BY <1>3, <4>2 DEF Run, Frames, IsRoot
      <4> QED BY <3>1, <4>1, <4>2
    <3> DEFINE b == refreshed(below)
    <3>3. b = below \/ b = refreshed(below)
      OBVIOUS
    <3>4. control' = Append(b, f)
      BY <3>1
    <3>5. f.parser \notin stopped' /\ stopped' \subseteq stopped
      BY <3>1, <3>2
    <3> HIDE DEF b
    <3>6. Ordered(control') /\ HaltsRight(control', stopped', halted')
      BY <1>1, <3>1, <3>2, <3>3, <3>4, <3>5, StatementStep
    <3> QED BY <3>6 DEF FlagsRight
  <2> QED BY <2>1, <2>2
<1> QED BY <1>4, <1>5

\* STOP and ENDTRACK leave their parser at the top, where it gives up what it reads.
LEMMA StopHalts ==
    ASSUME HaltInv, Stop \/ EndTrack
    PROVE  FlagsRight'
<1>1. phase = "running" /\ top.kind = "do"
  BY DEF Stop, EndTrack, executing, running
<1>2. CASE abort
  BY <1>2 DEF HaltInv, FlagsRight, abort, engine
<1>3. CASE ~abort
  <2>1. PICK b \in {below, refreshed(below)} :
           /\ control' = b /\ stopped' = stopped \cup {top.parser}
           /\ \/ halted' = with(with(halted, fileParser, "spared"), top.parser, "stopped")
              \/ halted' = with(halted, top.parser, "stopped")
    BY <1>3 DEF Stop, EndTrack
  <2>2. /\ IsStack(b) /\ Ordered(b) /\ b # <<>>
        /\ Waiting(b[Len(b)]) /\ b[Len(b)].parser = top.parser
        /\ \A i \in 1 .. Len(b) : i \in 1 .. Len(control) /\ b[i].parser = control[i].parser
    BY <1>1, OrderedBelow
  <2>3. \A p \in DOMAIN halted : halted[p] # "stopped"
    BY <1>1, NoneHalted DEF Waiting
  <2>4. \A i \in 1 .. Len(control) : control[i].parser \in stopped => control[i].parser \in DOMAIN halted
    BY DEF HaltInv, FlagsRight, HaltsRight
  <2> HIDE DEF top
  <2>5. /\ DOMAIN halted \cup {top.parser} \subseteq DOMAIN halted'
        /\ \A p \in DOMAIN halted' : p # top.parser => halted'[p] # "stopped"
    <3> DEFINE k == with(halted, fileParser, "spared")
    <3>1. /\ DOMAIN k = DOMAIN halted \cup {fileParser}
          /\ \A p \in DOMAIN k : k[p] # "stopped"
      BY <2>3 DEF with
    <3>2. PICK m \in {halted, k} : halted' = with(m, top.parser, "stopped")
      BY <2>1
    <3>3. DOMAIN halted \subseteq DOMAIN m /\ \A p \in DOMAIN m : m[p] # "stopped"
      BY <2>3, <3>1, <3>2
    <3> HIDE DEF k
    <3> QED BY <3>2, <3>3 DEF with
  <2>6. HaltsRight(b, stopped \cup {top.parser}, halted')
    BY <2>2, <2>4, <2>5 DEF HaltsRight
  <2> QED BY <2>1, <2>2, <2>6 DEF FlagsRight
<1> QED BY <1>2, <1>3

\* The condition of a loop is tested again, whoever has stopped.
LEMMA TestWhileHalts == HaltInv /\ TestWhile => FlagsRight'
<1> SUFFICES ASSUME HaltInv, TestWhile PROVE FlagsRight'
  OBVIOUS
<1>1. phase = "running" /\ top.kind = "while"
  BY DEF TestWhile, running
<1>2. CASE abort
  BY <1>2 DEF HaltInv, FlagsRight, abort, engine
<1>3. CASE ~abort
  <2> DEFINE c == top.statement.condition
             x == expression(c.name)
             frame == refreshed(control)[Len(control)]
             b == refreshed(below)
             g == [frame EXCEPT !.last = "true"]
             f == Do(top, top.statement.body)
  <2>1. /\ readAfterUpdate(x).ok
        /\ control' = b \/ control' = Append(Append(b, g), f)
        /\ stopped' = stopped /\ halted' = looping(top.parser)
    BY <1>3 DEF TestWhile
  <2>2. frame \in Frames /\ frame.kind = "while"
    <3>1. x = expression(c.name) /\ c = top.statement.condition
          /\ frame = refreshed(control)[Len(control)] /\ readAfterUpdate(x).ok /\ InputInv
      BY <2>1 DEF HaltInv
    <3> HIDE DEF c, x, frame
    <3> QED BY <1>1, <3>1, WhileFacts
  <2>3. frame.parser = top.parser
    <3>1. /\ IsStack(control) /\ control # <<>> /\ Ordered(control) /\ modified \in BOOLEAN
      BY <1>1 DEF HaltInv, FlagsRight, InputInv, Types
    <3>2. Len(control) \in 1 .. Len(control)
      BY <3>1 DEF IsStack
    <3>3. \A i \in 1 .. Len(control) : refreshed(control)[i].parser = control[i].parser
      BY <3>1, OrderedRefreshed
    <3> QED BY <3>2, <3>3 DEF top
  <2>4. /\ IsStack(b) /\ Ordered(b) /\ b # <<>> /\ Len(b) \in Nat
        /\ Waiting(b[Len(b)]) /\ b[Len(b)].parser = top.parser
        /\ \A i \in 1 .. Len(b) : i \in 1 .. Len(control) /\ b[i].parser = control[i].parser
    BY <1>1, OrderedBelow
  <2>5. /\ g \in Frames /\ ~IsRoot(g) /\ ~Owns(g) /\ Waiting(g) /\ g.parser = top.parser
    <3> HIDE DEF frame, top
    <3> QED BY <2>2, <2>3 DEF Frames, IsRoot, Owns, Waiting
  <2>6. f \in Frames /\ ~IsRoot(f) /\ f.parser = top.parser
    <3>1. /\ IsStatement(top.statement) /\ top.parser \in Nat /\ top.track \in BOOLEAN
          /\ top \in Frames
      BY <1>1, DoFacts, TopFacts DEF HaltInv
    <3>2. top.statement.op = "while"
      BY <1>1, <3>1 DEF Frames
    <3>3. top.statement.body \in Statements
      BY <3>1, <3>2 DEF IsStatement
    <3> QED BY <3>1, <3>3 DEF Do, Frames, IsRoot
  <2> DEFINE h == looping(top.parser)
  <2>7. DOMAIN h = DOMAIN halted /\ \A p \in DOMAIN h : h[p] # "stopped"
    <3>1. \A p \in DOMAIN halted : halted[p] = "stopped" => p = top.parser
      BY DEF HaltInv, FlagsRight, HaltsRight, top
    <3>2. CASE top.parser \in DOMAIN halted
      <4>1. h = with(halted, top.parser, "looped")
        BY <3>2 DEF looping
      <4>2. /\ DOMAIN h = DOMAIN halted \cup {top.parser}
            /\ \A p \in DOMAIN h : h[p] = IF p = top.parser THEN "looped" ELSE halted[p]
        BY <4>1 DEF with
      <4> HIDE DEF h, top
      <4> QED BY <3>1, <3>2, <4>2
    <3>3. CASE top.parser \notin DOMAIN halted
      <4>1. h = halted
        BY <3>3 DEF looping
      <4> HIDE DEF h, top
      <4> QED BY <3>1, <3>3, <4>1
    <3> QED BY <3>2, <3>3
  <2>8. \A i \in 1 .. Len(control) : control[i].parser \in stopped => control[i].parser \in DOMAIN halted
    BY DEF HaltInv, FlagsRight, HaltsRight
  <2>9. Len(b) \in 1 .. Len(b)
    <3>1. Len(b) # 0
      BY <2>4 DEF IsStack
    <3> QED BY <2>4, <3>1
  <2>10. \A i \in 1 .. Len(b) : b[i].parser \in stopped => b[i].parser \in DOMAIN h
    <3> HIDE DEF b, h
    <3> QED BY <2>4, <2>7, <2>8
  <2>11. top.parser \in stopped => top.parser \in DOMAIN h
    <3> HIDE DEF b, h
    <3> QED BY <2>4, <2>9, <2>10
  <2>12. b[Len(b)].parser \in 1 .. Len(b)
    <3> HIDE DEF b
    <3> QED BY <2>4, <2>9 DEF Ordered
  <2> HIDE DEF b, h, f, g, top
  <2>13. CASE control' = b
    <3>1. HaltsRight(b, stopped, h)
      BY <2>7, <2>10 DEF HaltsRight
    <3> QED BY <2>1, <2>4, <2>13, <3>1 DEF FlagsRight, h
  <2>14. CASE control' = Append(Append(b, g), f)
    <3> DEFINE d == Append(b, g)
               e == Append(d, f)
    <3>1. Fits(b, g)
      BY <2>4, <2>5, <2>12 DEF Fits
    <3>2. /\ Ordered(d) /\ IsStack(d) /\ Len(d) = Len(b) + 1 /\ d[Len(b) + 1] = g
          /\ \A i \in 1 .. Len(b) : d[i] = b[i]
      BY <2>4, <2>5, <3>1, PutOrdered
    <3> HIDE DEF d
    <3>3. d # <<>> /\ d[Len(d)] = g /\ Len(d) \in Nat
      <4>1. Len(d) # 0
        BY <2>4, <3>2
      <4> QED BY <2>4, <3>2, <4>1
    <3>4. g.parser \in 1 .. Len(d) + 1
      BY <2>4, <2>5, <2>12, <3>2
    <3>5. Fits(d, f)
      BY <2>5, <2>6, <3>3, <3>4 DEF Fits
    <3>6. /\ Ordered(e) /\ Len(e) = Len(d) + 1 /\ e[Len(d) + 1] = f
          /\ \A i \in 1 .. Len(d) : e[i] = d[i]
      BY <2>6, <3>2, <3>3, <3>5, PutOrdered
    <3> HIDE DEF e
    <3>7. ASSUME NEW i \in 1 .. Len(e), e[i].parser \in stopped PROVE e[i].parser \in DOMAIN h
      <4>1. i \in 1 .. Len(b) \/ i = Len(b) + 1 \/ i = Len(d) + 1
        BY <2>4, <3>2, <3>6
      <4>2. CASE i \in 1 .. Len(b)
        <5>1. i \in 1 .. Len(d)
          BY <2>4, <3>2, <4>2
        <5> QED BY <2>10, <3>2, <3>6, <3>7, <4>2, <5>1
      <4>3. CASE i = Len(b) + 1
        <5>1. i \in 1 .. Len(d)
          BY <2>4, <3>2, <4>3
        <5> QED BY <2>5, <2>11, <3>2, <3>6, <3>7, <4>3, <5>1
      <4>4. CASE i = Len(d) + 1
        BY <2>6, <2>11, <3>6, <3>7, <4>4
      <4> QED BY <4>1, <4>2, <4>3, <4>4
    <3>8. HaltsRight(e, stopped, h)
      BY <2>7, <3>7 DEF HaltsRight
    <3> QED BY <2>1, <2>14, <3>6, <3>8 DEF FlagsRight, d, e, h
  <2> QED BY <2>1, <2>13, <2>14
<1> QED BY <1>2, <1>3

\* The same activation of run(), between two statements.
SameRun(f, g) ==
    f \in Frames /\ f.kind = "run" /\ f.parser = g.parser /\ f.root = g.root /\ f.owns = g.owns

\* The stack with f for its top.
Replaced(d, f) ==
    /\ IsStack(d) /\ Ordered(d) /\ Len(d) = Len(control) /\ d[Len(d)] = f
    /\ \A i \in 1 .. Len(d) : d[i].parser = control[i].parser

\* Activations and parsers do not change from one statement to the next.
LEMMA ReplacedTop ==
    ASSUME HaltInv, phase = "running", top.kind = "run", NEW f, SameRun(f, top)
    PROVE  Replaced(Append(below, f), f)
<1> DEFINE d == Append(below, f)
<1>1. /\ top \in Frames /\ IsStack(below) /\ Ordered(below) /\ Fits(below, top)
      /\ Len(control) = Len(below) + 1 /\ Len(below) \in Nat
      /\ below # <<>> \/ Owns(top)
      /\ \A i \in 1 .. Len(below) : below[i].parser = control[i].parser
  BY OrderedTop, TopFacts DEF HaltInv
<1>2. top = control[Len(control)]
  BY DEF top
<1> HIDE DEF top, below
<1>3. f \in Frames /\ Fits(below, f) /\ (below # <<>> \/ Owns(f)) /\ f.parser = top.parser
  BY <1>1 DEF Fits, IsRoot, Owns, SameRun
<1>4. /\ Ordered(d) /\ IsStack(d) /\ Len(d) = Len(below) + 1 /\ d[Len(below) + 1] = f
      /\ \A i \in 1 .. Len(below) : d[i] = below[i]
  BY <1>1, <1>3, PutOrdered
<1> HIDE DEF d
<1>5. ASSUME NEW i \in 1 .. Len(d) PROVE d[i].parser = control[i].parser
  <2>1. i \in 1 .. Len(below) \/ i = Len(control)
    BY <1>1, <1>4
  <2>2. CASE i \in 1 .. Len(below)
    BY <1>1, <1>4, <2>2
  <2>3. CASE i = Len(control)
    BY <1>1, <1>2, <1>3, <1>4, <2>3
  <2> QED BY <2>1, <2>2, <2>3
<1>6. Replaced(d, f)
  BY <1>1, <1>4, <1>5 DEF Replaced
<1> QED BY <1>6 DEF d

\* The steps of run(): a parser that has stopped gives up what it reads, one activation after
\* the other, and is forgotten with the last.
LEMMA ReadHalts == HaltInv /\ (ReadStatement \/ NextStatement) => FlagsRight'
<1> SUFFICES ASSUME HaltInv, ReadStatement \/ NextStatement PROVE FlagsRight'
  OBVIOUS
<1>1. /\ phase = "running" /\ top.kind = "run" /\ stopped' = stopped /\ halted' = halted
      /\ ~top.busy \/ top.parser \notin stopped
  BY DEF ReadStatement, NextStatement, running
<1>2. /\ top \in Frames /\ IsStack(below) /\ Ordered(below) /\ Fits(below, top)
      /\ Len(control) = Len(below) + 1 /\ Len(below) \in Nat
      /\ below # <<>> \/ Owns(top)
      /\ \A i \in 1 .. Len(below) : below[i].parser = control[i].parser
  BY <1>1, OrderedTop, TopFacts DEF HaltInv
<1>3. \A p \in DOMAIN halted : halted[p] # "stopped"
  BY <1>1, NoneHalted DEF Waiting
<1>4. HaltsRight(control, stopped, halted)
  BY DEF HaltInv, FlagsRight
<1>5. top = control[Len(control)] /\ Len(control) \in 1 .. Len(control)
  BY <1>2 DEF top
<1>6. ASSUME NEW f, SameRun(f, top) PROVE Replaced(Append(below, f), f)
  BY <1>1, <1>6, ReplacedTop
<1> HIDE DEF top, below
<1>7. CASE NextStatement
  <2> DEFINE f == [top EXCEPT !.busy = FALSE]
             d == Append(below, f)
  <2>1. control' = d
    BY <1>7 DEF NextStatement
  <2>2. SameRun(f, top)
    BY <1>1, <1>2 DEF SameRun, Frames
  <2> HIDE DEF f
  <2>3. Replaced(d, f)
    BY <1>1, <2>2, <1>6
  <2> HIDE DEF d
  <2>4. Ordered(d) /\ Len(d) = Len(control) /\ \A i \in 1 .. Len(d) : d[i].parser = control[i].parser
    BY <2>3 DEF Replaced
  <2>5. HaltsRight(d, stopped, halted)
    BY <1>3, <1>4, <2>4 DEF HaltsRight
  <2> QED BY <1>1, <2>1, <2>4, <2>5 DEF FlagsRight
<1>8. CASE ReadStatement
  <2> DEFINE f == [top EXCEPT !.busy = TRUE]
             g == Do(top, Head(inputs[Len(inputs)]))
             d == Append(below, f)
             e == Append(d, g)
  <2>1. control' = e /\ inputs[Len(inputs)] # <<>>
    BY <1>8 DEF ReadStatement
  <2>2. SameRun(f, top) /\ Waiting(f) /\ f.parser = top.parser
    BY <1>1, <1>2 DEF SameRun, Frames, Waiting
  <2>3. g \in Frames /\ ~IsRoot(g) /\ g.parser = top.parser
    <3>1. inputs \in Seq(Seq(Statements)) /\ Len(inputs) = depth(control) /\ IsStack(control)
          /\ control # <<>>
      BY <1>1 DEF HaltInv, InputInv, Types
    <3>2. Len(inputs) \in 1 .. Len(inputs)
      BY <3>1, DepthPositive
    <3>3. Head(inputs[Len(inputs)]) \in Statements
      BY <2>1, <3>1, <3>2
    <3>4. top.parser \in Nat /\ top.track \in BOOLEAN
      BY <1>1, <1>2 DEF Frames
    <3> QED BY <3>3, <3>4 DEF Do, Frames, IsRoot
  <2> HIDE DEF f, g
  <2>4. Replaced(d, f)
    BY <1>1, <2>2, <1>6
  <2> HIDE DEF d
  <2>5. /\ Ordered(d) /\ IsStack(d) /\ Len(d) = Len(below) + 1 /\ d[Len(d)] = f
        /\ \A i \in 1 .. Len(d) : d[i].parser = control[i].parser
    BY <1>2, <2>4 DEF Replaced
  <2>6. d # <<>> /\ Len(d) \in 1 .. Len(d)
    <3>1. Len(d) # 0
      BY <1>2, <2>5
    <3> QED BY <1>2, <2>5, <3>1
  <2>7. Fits(d, g)
    <3>1. d[Len(d)].parser \in 1 .. Len(d)
      BY <2>5, <2>6 DEF Ordered
    <3> QED BY <1>2, <2>2, <2>3, <2>5, <2>6, <3>1 DEF Fits
  <2>8. /\ Ordered(e) /\ Len(e) = Len(d) + 1 /\ e[Len(d) + 1] = g
        /\ \A i \in 1 .. Len(d) : e[i] = d[i]
    BY <2>3, <2>5, <2>6, <2>7, PutOrdered
  <2> HIDE DEF e
  <2>9. ASSUME NEW i \in 1 .. Len(e), e[i].parser \in stopped
        PROVE  \E j \in 1 .. Len(control) : control[j].parser = e[i].parser
    <3>1. i \in 1 .. Len(d) \/ i = Len(d) + 1
      BY <1>2, <2>5, <2>8
    <3>2. CASE i \in 1 .. Len(d)
      BY <1>2, <2>5, <2>8, <3>2
    <3>3. CASE i = Len(d) + 1
      BY <1>5, <2>3, <2>8, <3>3
    <3> QED BY <3>1, <3>2, <3>3
  <2>10. HaltsRight(e, stopped, halted)
    BY <1>3, <1>4, <2>9, QuietStep
  <2> QED BY <1>1, <2>1, <2>8, <2>10 DEF FlagsRight
<1> QED BY <1>7, <1>8

\* An activation of run() that returns leaves its parser with what is below; the last forgets
\* that its parser has stopped.
LEMMA ReturnHalts == HaltInv /\ Return => FlagsRight'
<1> SUFFICES ASSUME HaltInv, Return PROVE FlagsRight'
  OBVIOUS
<1>1. /\ phase = "running" /\ top.kind = "run" /\ control' = below /\ stopped' = stopped
      /\ halted' = IF top.root THEN without(halted, top.parser) ELSE halted
  BY DEF Return, running
<1>2. /\ IsStack(below) /\ Ordered(below) /\ Fits(below, top)
      /\ Len(control) = Len(below) + 1 /\ Len(below) \in Nat
      /\ (below = <<>>) = (Len(below) = 0)
      /\ \A i \in 1 .. Len(below) : below[i].parser = control[i].parser
  BY <1>1, OrderedTop
<1>3. /\ \A i \in 1 .. Len(control) : control[i].parser \in stopped => control[i].parser \in DOMAIN halted
      /\ \A p \in DOMAIN halted : halted[p] = "stopped" => p \in stopped /\ p = top.parser
  BY DEF HaltInv, FlagsRight, HaltsRight, top
<1> HIDE DEF top, below
<1>4. \A i \in 1 .. Len(below) : below[i].parser \in stopped => below[i].parser \in DOMAIN halted
  <2>1. \A i \in 1 .. Len(below) : i \in 1 .. Len(control)
    BY <1>2
  <2> QED BY <1>2, <1>3, <2>1
<1>5. CASE top.root
  <2>1. top.parser = Len(below) + 1
    BY <1>1, <1>2, <1>5 DEF Fits, IsRoot
  <2>2. \A i \in 1 .. Len(below) : below[i].parser # top.parser
    <3>1. \A i \in 1 .. Len(below) : below[i].parser \in 1 .. i
      BY <1>2 DEF Ordered
    <3> QED BY <1>2, <2>1, <3>1
  <2> DEFINE h == without(halted, top.parser)
  <2>3. /\ DOMAIN h = DOMAIN halted \ {top.parser}
        /\ \A p \in DOMAIN h : h[p] = halted[p]
    BY DEF without
  <2> HIDE DEF h
  <2>4. HaltsRight(below, stopped, h)
    BY <1>3, <1>4, <2>2, <2>3 DEF HaltsRight
  <2> QED BY <1>1, <1>2, <1>5, <2>4 DEF FlagsRight, h
<1>6. CASE ~top.root
  <2>1. /\ below # <<>> /\ Waiting(below[Len(below)])
        /\ below[Len(below)].parser = top.parser
    BY <1>2, <1>6 DEF Fits, IsRoot
  <2>2. HaltsRight(below, stopped, halted)
    BY <1>3, <1>4, <2>1 DEF HaltsRight
  <2> QED BY <1>1, <1>2, <1>6, <2>2 DEF FlagsRight
<1> QED BY <1>5, <1>6

\* No parser has stopped at first.
LEMMA InitHalts == Init => FlagsRight
<1> SUFFICES ASSUME Init PROVE FlagsRight
  OBVIOUS
<1> DEFINE f == Run(1, FALSE, TRUE, TRUE)
<1>1. control = <<f>> /\ stopped = {} /\ DOMAIN halted = {}
  BY DEF Init
<1>2. IsRoot(f) /\ f.parser = 1
  BY DEF Run, IsRoot
<1> HIDE DEF f
<1>3. Len(control) = 1 /\ control[1] = f /\ 1 .. 1 = {1}
  BY <1>1
<1>4. Ordered(control)
  BY <1>2, <1>3 DEF Ordered
<1>5. HaltsRight(control, stopped, halted)
  BY <1>1 DEF HaltsRight
<1> QED BY <1>4, <1>5 DEF FlagsRight

\* Each step keeps the flags right.
LEMMA NextHalts == HaltInv /\ [Next]_vars => HaltInv'
<1>1. HaltInv /\ [Next]_vars => FlagsRight'
  <2>1. ASSUME HaltInv, UNCHANGED vars PROVE FlagsRight'
    BY <2>1 DEF HaltInv, FlagsRight, vars, engine
  <2> QED BY <2>1, QuietStatements, IfHalts, RunHalts, StopHalts, TestWhileHalts, ReadHalts,
             ReturnHalts DEF Next
<1> QED BY <1>1, NextInv DEF HaltInv

\* What has stopped executes nothing: the top of the stack would wait.
LEMMA HaltInvStops == HaltInv => NothingAfterStop
<1> SUFFICES ASSUME HaltInv, running("do")
             PROVE  \A p \in DOMAIN halted : halted[p] # "stopped"
  BY DEF NothingAfterStop
<1>1. ~Waiting(top)
  BY DEF running, Waiting
<1> QED BY <1>1, NoneHalted

\* Only run() takes a stream off the stack, and one with statements left only because of the
\* stopFlag of its parser.
LEMMA StepDrops ==
    ASSUME HaltInv, Next, Len(inputs') < Len(inputs), inputs[Len(inputs)] # <<>>
    PROVE  top.parser \in DOMAIN halted
<1>0. inputs \in Seq(Seq(Statements)) /\ Len(inputs) \in Nat
  BY DEF HaltInv, InputInv, Types
<1>1. ~ (inputs' = inputs)
  BY <1>0
<1>2. ASSUME NEW x, inputs' = Append(inputs, x) PROVE FALSE
  BY <1>0, <1>2
<1>3. ASSUME ReadStatement PROVE FALSE
  <2>1. inputs' = [inputs EXCEPT ![Len(inputs)] = Tail(@)]
    BY <1>3 DEF ReadStatement
  <2>2. Len(inputs') = Len(inputs)
    BY <1>0, <2>1
  <2> QED BY <1>0, <2>2
<1>4. Return
  <2>1. abort => inputs' = inputs
    BY DEF abort, engine
  <2>2. ~NextStatement /\ ~Assign /\ ~Defer /\ ~DefineElement /\ ~Command
    BY <1>1, <2>1 DEF NextStatement, Assign, Defer, DefineElement, Command
  <2>3. ~If /\ ~BeginWhile /\ ~TestWhile /\ ~Track /\ ~EndTrack /\ ~Stop
    BY <1>1, <2>1 DEF If, BeginWhile, TestWhile, Track, EndTrack, Stop
  <2>4. ~Block /\ ~Call
    BY <1>1, <1>2, <2>1 DEF Block, Call
  <2> QED BY <1>3, <2>2, <2>3, <2>4 DEF Next
<1>5. top.parser \in stopped /\ phase = "running"
  BY <1>4 DEF Return, running
<1>6. Len(control) \in 1 .. Len(control)
  BY <1>5, OrderedTop
<1> QED BY <1>5, <1>6 DEF HaltInv, FlagsRight, HaltsRight, top

\* STOP and QUIT outside of loops and track blocks end the reading of their file, and ENDTRACK
\* that of its track block, in all nested blocks, and nothing of another parser:
\* OpalParser::run() tests and clears the stopFlag in time. That a STOP in a loop or a track
\* block ends its file, as Stop.cpp:22-23 says, is not claimed.
THEOREM InputStopIsExact == Spec => StopIsExact
<1>1. Init => HaltInv
  BY InitInv, InitHalts DEF HaltInv
<1>2. HaltInv /\ [Next]_vars => HaltInv'
  BY NextHalts
<1>3. HaltInv => NothingAfterStop
  BY HaltInvStops
<1>4. HaltInv /\ [Next]_vars =>
          [Len(inputs') < Len(inputs) /\ inputs[Len(inputs)] # <<>>
               => top.parser \in DOMAIN halted]_vars
  BY StepDrops
<1> QED BY <1>1, <1>2, <1>3, <1>4, PTL DEF Spec, StopIsExact, DroppedOnlyByStop

=============================================================================
