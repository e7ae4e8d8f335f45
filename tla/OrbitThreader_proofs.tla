------------------------ MODULE OrbitThreader_proofs ------------------------
(* OrbitThreader for every lattice, step and launch: the entries of the index  *)
(* follow each other along the whole path, the end of a line is told only past  *)
(* its last stop, and a ring is closed only by a turn.                         *)
EXTENDS OrbitThreader, WellFoundedInduction, FiniteSetTheorems, TLAPS

-----------------------------------------------------------------------------
(* Numbers.                                                                 *)

\* A set of natural numbers has a least element.
LEMMA Least ==
    ASSUME NEW T \in SUBSET Nat, T # {}
    PROVE  \E n \in T : \A m \in T : n <= m
<1>1. \E n \in T : \A m \in T : ~ (<<m, n>> \in OpToRel(<, Nat))
  BY NatLessThanWellFounded, WFMin
<1>2. \E n \in T : \A m \in T : ~ (m < n)
  BY <1>1 DEF OpToRel
<1> QED BY <1>2

\* Induction for a set of natural numbers.
LEMMA Induction ==
    ASSUME NEW T, 0 \in T, \A n \in Nat : n \in T => n + 1 \in T
    PROVE  Nat \subseteq T
<1> SUFFICES ASSUME Nat \ T # {} PROVE FALSE
  OBVIOUS
<1>1. PICK n \in Nat \ T : \A m \in Nat \ T : n <= m
  BY Least
<1>2. n # 0 /\ n - 1 \in Nat
  BY <1>1
<1>3. n - 1 \in T
  BY <1>1, <1>2
<1>4. (n - 1) + 1 \in T
  BY <1>2, <1>3
<1> QED BY <1>1, <1>4

\* Induction up to a number.
LEMMA InductionUpTo ==
    ASSUME NEW n \in Nat, NEW T, 0 \in T, \A i \in 0 .. n - 1 : i \in T => i + 1 \in T
    PROVE  \A i \in 0 .. n : i \in T
<1> DEFINE U == {i \in Nat : i <= n => i \in T}
<1>1. 0 \in U
  OBVIOUS
<1>2. ASSUME NEW i \in Nat, i \in U PROVE i + 1 \in U
  <2>1. CASE i + 1 <= n
    BY <1>2, <2>1
  <2>2. CASE ~ (i + 1 <= n)
    BY <2>2
  <2> QED BY <2>1, <2>2
<1> HIDE DEF U
<1>3. Nat \subseteq U
  BY <1>1, <1>2, Induction
<1> USE DEF U
<1> QED BY <1>3


\* Ends are counted in halves, and rounding takes less than a half.
LEMMA Rounded ==
    ASSUME NEW s \in Int
    PROVE  /\ rounded(s) \in Int /\ meets(s, rounded(s))
           /\ rounded(s) \div 2 <= s
           /\ s > 0 => rounded(s) = 2 * s - 1
           /\ \A r \in Int : r < s => 2 * r < rounded(s)
<1>1. CASE s > 0
  <2>1. rounded(s) = 2 * s - 1
    BY <1>1 DEF rounded
  <2> QED BY <1>1, <2>1 DEF meets
<1>2. CASE s = 0
  <2>1. rounded(s) = 0
    BY <1>2 DEF rounded
  <2> QED BY <1>2, <2>1 DEF meets
<1>3. CASE s < 0
  <2>1. rounded(s) = 2 * s + 1
    BY <1>3 DEF rounded
  <2> QED BY <1>3, <2>1 DEF meets
<1> QED BY <1>1, <1>2, <1>3

-----------------------------------------------------------------------------
(* The index.                                                               *)

Entries == [begin : Int, end : Int, elements : SUBSET Elements]

IsIndex(map) ==
    /\ map = [ranges |-> map.ranges, visits |-> map.visits,
              origin |-> map.origin, period |-> map.period]
    /\ map.ranges \in Seq(Entries)
    /\ DOMAIN map.visits \subseteq Elements

\* The entries follow each other from one position to another, those next to each
\* other with different elements.
Joined(r, from, to) ==
    /\ r = <<>> => from = to
    /\ r # <<>> => from < to /\ r[1].begin = 2 * from /\ r[Len(r)].end = rounded(to)
    /\ \A i \in 1 .. Len(r) : \E a, b \in Int :
          /\ a < b /\ r[i].begin = 2 * a /\ r[i].end = rounded(b)
          /\ i < Len(r) => /\ r[i + 1].begin = 2 * b
                           /\ r[i + 1].elements # r[i].elements

\* What TypeOK says of the entries.
Ascending(r) ==
    \A i \in DOMAIN r :
        /\ r[i].begin < r[i].end /\ r[i].elements \subseteq Elements
        /\ i > 1 => /\ r[i].begin \div 2 >= r[i - 1].end \div 2
                    /\ r[i].elements # r[i - 1].elements

\* Entries that follow each other ascend.
LEMMA JoinedAscends ==
    ASSUME NEW r \in Seq(Entries), NEW from \in Int, NEW to \in Int, Joined(r, from, to)
    PROVE  Ascending(r)
<1> SUFFICES ASSUME NEW i \in 1 .. Len(r)
             PROVE  /\ r[i].begin < r[i].end /\ r[i].elements \subseteq Elements
                    /\ i > 1 => /\ r[i].begin \div 2 >= r[i - 1].end \div 2
                                /\ r[i].elements # r[i - 1].elements
  BY DEF Ascending
<1>1. r[i] \in Entries
  OBVIOUS
<1>2. PICK a \in Int, b \in Int : a < b /\ r[i].begin = 2 * a /\ r[i].end = rounded(b)
  BY DEF Joined
<1>3. r[i].begin < r[i].end
  BY <1>2, Rounded
<1>4. ASSUME i > 1
      PROVE  r[i].begin \div 2 >= r[i - 1].end \div 2 /\ r[i].elements # r[i - 1].elements
  <2>1. i - 1 \in 1 .. Len(r) /\ i - 1 < Len(r) /\ (i - 1) + 1 = i
    BY <1>4
  <2>2. PICK c \in Int, d \in Int :
          /\ r[i - 1].end = rounded(d) /\ r[i].begin = 2 * d
          /\ r[i].elements # r[i - 1].elements
    BY <2>1 DEF Joined
  <2>3. (2 * d) \div 2 = d
    OBVIOUS
  <2>4. rounded(d) \div 2 <= d
    BY Rounded
  <2>5. r[i].begin \div 2 = d /\ r[i - 1].end \div 2 <= d
    BY <2>2, <2>3, <2>4, Zenon
  <2>6. r[i - 1].end \div 2 \in Int
    <3>1. rounded(d) \in Int
      BY Rounded
    <3> QED BY <2>2, <3>1
  <2> QED BY <2>2, <2>5, <2>6
<1> QED BY <1>1, <1>3, <1>4 DEF Entries

\* A stretch added at the end of the index joins on.
LEMMA Added ==
    ASSUME NEW map, IsIndex(map), NEW from \in Int, NEW a \in Int, NEW b \in Int, a < b,
           Joined(map.ranges, from, a), NEW val \in SUBSET Elements
    PROVE  /\ IsIndex(add(map, a, b, val))
           /\ add(map, a, b, val).period = map.period
           /\ Joined(add(map, a, b, val).ranges, from, b)
           /\ add(map, a, b, val).ranges # <<>>
           /\ LET r == add(map, a, b, val).ranges IN r[Len(r)].elements = val
<1> DEFINE r == map.ranges
           merged == continues(map, a, val)
           key == [begin |-> IF merged THEN Last(r).begin ELSE 2 * a, end |-> rounded(b)]
           entry == [begin |-> key.begin, end |-> key.end, elements |-> val]
           kept == IF merged THEN Front(r) ELSE r
           new == Append(kept, entry)
           visits == visited(map.visits, a, key, val)
<1>1. add(map, a, b, val) = [map EXCEPT !.ranges = new, !.visits = visits]
  BY DEF add
<1>2. add(map, a, b, val) = [ranges |-> new, visits |-> visits,
                            origin |-> map.origin, period |-> map.period]
  BY <1>1 DEF IsIndex
<1>3. DOMAIN visits \subseteq Elements
  BY DEF IsIndex, visited
<1>4. r \in Seq(Entries) /\ Len(r) \in Nat /\ rounded(b) \in Int /\ rounded(a) \in Int
  BY Rounded DEF IsIndex
<1>8. from < b
  BY DEF Joined
<1>5. new \in Seq(Entries) /\ new # <<>> /\ new[Len(new)].elements = val
  <2>1. merged => r # <<>> /\ Last(r).begin \in Int
    <3> SUFFICES ASSUME r # <<>> PROVE Last(r).begin \in Int
      BY DEF continues
    <3>1. Len(r) \in 1 .. Len(r)
      BY <1>4
    <3>2. r[Len(r)] \in Entries
      BY <1>4, <3>1
    <3> QED BY <3>2 DEF Entries, Last
  <2>2. key.begin \in Int /\ key.end \in Int
    BY <1>4, <2>1
  <2>3. entry \in Entries
    BY <2>2 DEF Entries
  <2>4. kept \in Seq(Entries)
    BY <1>4, <2>1 DEF Front
  <2> HIDE DEF entry, kept
  <2>5. entry.elements = val
    BY DEF entry
  <2> QED BY <2>3, <2>4, <2>5
<1>6. CASE ~merged
  <2>1. new = Append(r, [begin |-> 2 * a, end |-> rounded(b), elements |-> val])
    BY <1>6
  <2> DEFINE n == Len(r)
  <2>2. /\ Len(new) = n + 1 /\ n \in Nat
        /\ \A i \in 1 .. n : new[i] = r[i]
        /\ new[n + 1] = [begin |-> 2 * a, end |-> rounded(b), elements |-> val]
    BY <1>4, <2>1, SMTT(30)
  <2> HIDE DEF new
  <2>3. \A i \in 1 .. Len(new) : \E c, d \in Int :
          /\ c < d /\ new[i].begin = 2 * c /\ new[i].end = rounded(d)
          /\ i < Len(new) => /\ new[i + 1].begin = 2 * d
                             /\ new[i + 1].elements # new[i].elements
    <3> SUFFICES ASSUME NEW i \in 1 .. n + 1
                 PROVE  \E c, d \in Int :
                          /\ c < d /\ new[i].begin = 2 * c /\ new[i].end = rounded(d)
                          /\ i < n + 1 => /\ new[i + 1].begin = 2 * d
                                          /\ new[i + 1].elements # new[i].elements
      BY <2>2
    <3>1. CASE i = n + 1
      BY <2>2, <3>1
    <3>2. CASE i = n /\ n > 0
      <4>1. r # <<>> /\ n \in 1 .. n
        BY <1>4, <3>2
      <4>2. r[n].end = rounded(a)
        BY <4>1 DEF Joined
      <4>3. r[n].elements # val
        BY <1>6, <4>1, <4>2, Rounded DEF continues, Last
      <4>4. PICK c \in Int, d \in Int : c < d /\ r[n].begin = 2 * c /\ r[n].end = rounded(d)
        BY <4>1 DEF Joined
      <4>5. a = d
        BY <4>2, <4>4 DEF rounded
      <4>6. new[i] = r[i] /\ r[i].begin = 2 * c /\ r[i].end = rounded(d)
        BY <2>2, <3>2, <4>1, <4>4
      <4>7. new[i + 1].begin = 2 * d /\ new[i + 1].elements # new[i].elements
        BY <2>2, <3>2, <4>3, <4>5, <4>6
      <4> QED BY <4>4, <4>6, <4>7
    <3>3. CASE i \in 1 .. n - 1
      <4>1. i \in 1 .. n /\ i + 1 \in 1 .. n /\ i < n /\ i < n + 1
        BY <2>2, <3>3, SMTT(30)
      <4> HIDE DEF n
      <4>2. PICK c \in Int, d \in Int :
              /\ c < d /\ r[i].begin = 2 * c /\ r[i].end = rounded(d)
              /\ r[i + 1].begin = 2 * d /\ r[i + 1].elements # r[i].elements
        BY <4>1 DEF Joined, n
      <4> QED BY <2>2, <4>1, <4>2
    <3> QED BY <2>2, <3>1, <3>2, <3>3
  <2>4. new[1].begin = 2 * from
    <3>1. CASE n = 0
      <4>1. r = <<>>
        BY <1>4, <3>1
      <4> QED BY <2>2, <3>1, <4>1 DEF Joined
    <3>2. CASE n > 0
      <4>1. r # <<>> /\ 1 \in 1 .. n
        BY <1>4, <3>2
      <4> QED BY <2>2, <4>1 DEF Joined
    <3> QED BY <2>2, <3>1, <3>2
  <2>5. new[n + 1].end = rounded(b)
    BY <2>2
  <2>6. Joined(new, from, b)
    <3> HIDE DEF n
    <3> QED BY <1>5, <1>8, <2>2, <2>3, <2>4, <2>5 DEF Joined
  <2> QED BY <1>2, <1>3, <1>5, <2>6 DEF IsIndex
<1>7. CASE merged
  <2> DEFINE n == Len(r) - 1
  <2>1. r # <<>> /\ n \in Nat /\ n + 1 = Len(r) /\ n + 1 \in 1 .. n + 1
    BY <1>4, <1>7 DEF continues
  <2>2. Last(r) = r[n + 1] /\ r[n + 1].elements = val
    BY <1>7, <2>1 DEF continues, Last
  <2>3. new = Append(Front(r), [begin |-> r[n + 1].begin, end |-> rounded(b), elements |-> val])
    BY <1>7, <2>2
  <2>4. /\ Len(new) = n + 1
        /\ \A i \in 1 .. n : new[i] = r[i]
        /\ new[n + 1] = [begin |-> r[n + 1].begin, end |-> rounded(b), elements |-> val]
    BY <1>4, <2>1, <2>3, SMTT(30) DEF Front
  <2> HIDE DEF new, n
  <2>5. \A i \in 1 .. Len(new) : \E c, d \in Int :
          /\ c < d /\ new[i].begin = 2 * c /\ new[i].end = rounded(d)
          /\ i < Len(new) => /\ new[i + 1].begin = 2 * d
                             /\ new[i + 1].elements # new[i].elements
    <3> SUFFICES ASSUME NEW i \in 1 .. n + 1
                 PROVE  \E c, d \in Int :
                          /\ c < d /\ new[i].begin = 2 * c /\ new[i].end = rounded(d)
                          /\ i < n + 1 => /\ new[i + 1].begin = 2 * d
                                          /\ new[i + 1].elements # new[i].elements
      BY <2>4
    <3>1. PICK c \in Int, d \in Int :
            /\ c < d /\ r[i].begin = 2 * c /\ r[i].end = rounded(d)
            /\ i < n + 1 => r[i + 1].begin = 2 * d /\ r[i + 1].elements # r[i].elements
      BY <2>1 DEF Joined
    <3>2. CASE i = n + 1
      <4>1. r[n + 1].end = rounded(a)
        BY <2>1 DEF Joined
      <4>2. d = a
        BY <3>1, <3>2, <4>1 DEF rounded
      <4> QED BY <2>1, <2>4, <3>1, <3>2, <4>2
    <3>3. CASE i \in 1 .. n - 1
      <4>1. i \in 1 .. n /\ i + 1 \in 1 .. n /\ i < n + 1
        BY <2>1, <3>3
      <4> QED BY <2>4, <3>1, <4>1
    <3>4. CASE i = n
      <4>1. n \in 1 .. n /\ n < n + 1
        BY <2>1, <3>4
      <4>2. /\ new[n + 1].begin = r[n + 1].begin
            /\ new[n + 1].elements = r[n + 1].elements
        BY <2>2, <2>4
      <4> QED BY <2>4, <3>1, <3>4, <4>1, <4>2
    <3> QED BY <2>1, <3>2, <3>3, <3>4
  <2>6. new[1].begin = 2 * from
    <3>1. CASE n = 0
      BY <2>1, <2>4, <3>1 DEF Joined
    <3>2. CASE n > 0
      <4>1. 1 \in 1 .. n
        BY <2>1, <3>2
      <4> QED BY <2>1, <2>4, <4>1 DEF Joined
    <3> QED BY <2>1, <3>1, <3>2
  <2>7. new[n + 1].end = rounded(b)
    BY <2>4
  <2>8. Joined(new, from, b)
    BY <1>5, <1>8, <2>4, <2>5, <2>6, <2>7 DEF Joined
  <2> QED BY <1>2, <1>3, <1>5, <2>8 DEF IsIndex, new
<1> QED BY <1>6, <1>7

-----------------------------------------------------------------------------
(* The pieces of a step that is cut where the support changes.               *)

\* A step is cut into one unit or more, one after the other.
LEMMA Resolved ==
    ASSUME NEW s \in Int, StepLength \in Nat \ {0}
    PROVE  \E n \in 1 .. StepLength : resolved(s) = [k \in 1 .. n |-> s + k - 1]
<1> DEFINE ends(n) == endsIn(s + n - 1)
           Stops(n) == (\A k \in 1 .. n - 1 : ~ends(k)) /\ (ends(n) \/ n = StepLength)
           T == {n \in 1 .. StepLength : ends(n) \/ n = StepLength}
<1>1. \E n \in 1 .. StepLength : Stops(n)
  <2>1. StepLength \in T /\ T \subseteq Nat
    OBVIOUS
  <2>2. PICK n \in T : \A m \in T : n <= m
    <3> HIDE DEF T
    <3> QED BY <2>1, Least
  <2>3. \A k \in 1 .. n - 1 : ~ends(k)
    <3> SUFFICES ASSUME NEW k \in 1 .. n - 1, ends(k) PROVE FALSE
      OBVIOUS
    <3> HIDE DEF ends
    <3>1. n \in 1 .. StepLength
      BY <2>2
    <3>2. k \in 1 .. StepLength /\ ~(n <= k)
      BY <3>1
    <3>3. k \in T
      BY <3>2
    <3> QED BY <2>2, <3>2, <3>3
  <2> QED BY <2>2, <2>3
<1> DEFINE last == CHOOSE n \in 1 .. StepLength : Stops(n)
<1>2. last \in 1 .. StepLength
  <2> HIDE DEF Stops
  <2> QED BY <1>1
<1>3. resolved(s) = [n \in 1 .. last |-> s + n - 1]
  BY DEF resolved
<1> HIDE DEF last
<1> QED BY <1>2, <1>3

\* The index after each of the units.
Stages(g, map, units) ==
    /\ g[0] = map /\ addedUnits(map, units) = g[Len(units)]
    /\ \A k \in 1 .. Len(units) :
          g[k] = add(g[k - 1], units[k], units[k] + 1, getElements(units[k]))

\* The recursion in addedUnits is well defined.
LEMMA UnitsRecursion ==
    ASSUME NEW map, NEW units, Len(units) \in Nat
    PROVE  \E g : Stages(g, map, units)
<1> DEFINE Next1(f, k) == add(f, units[k], units[k] + 1, getElements(units[k]))
           Rec(g, m) == [k \in 0 .. m |-> IF k = 0 THEN map ELSE Next1(g[k - 1], k)]
           Defined == {m \in Nat : \E g : g = Rec(g, m)}
           n == Len(units)
<1>1. addedUnits(map, units) = (CHOOSE g : g = Rec(g, n))[n]
  BY DEF addedUnits
<1> HIDE DEF Next1, n
<1>2. Nat \subseteq Defined
  <2>1. 0 \in Defined
    <3>1. [k \in 0 .. 0 |-> map] = Rec([k \in 0 .. 0 |-> map], 0)
      OBVIOUS
    <3> QED BY <3>1
  <2>2. ASSUME NEW m \in Nat, m \in Defined PROVE m + 1 \in Defined
    <3>1. PICK g : g = Rec(g, m)
      BY <2>2
    <3> DEFINE h == [k \in 0 .. m + 1 |-> IF k <= m THEN g[k] ELSE Next1(g[m], m + 1)]
    <3>2. \A k \in 0 .. m : h[k] = g[k]
      OBVIOUS
    <3>3. \A k \in 0 .. m : g[k] = IF k = 0 THEN map ELSE Next1(g[k - 1], k)
      BY <3>1
    <3>4. h[m + 1] = Next1(g[m], m + 1)
      OBVIOUS
    <3>5. \A k \in 0 .. m + 1 : h[k] = IF k = 0 THEN map ELSE Next1(h[k - 1], k)
      <4> SUFFICES ASSUME NEW k \in 0 .. m + 1
                   PROVE  h[k] = IF k = 0 THEN map ELSE Next1(h[k - 1], k)
        OBVIOUS
      <4> HIDE DEF h
      <4>1. CASE k = m + 1
        <5>1. k # 0 /\ k - 1 = m /\ m \in 0 .. m
          BY <4>1
        <5> QED BY <3>2, <3>4, <4>1, <5>1
      <4>2. CASE k = 0
        <5>1. 0 \in 0 .. m
          OBVIOUS
        <5> QED BY <3>2, <3>3, <4>2, <5>1
      <4>3. CASE k \in 1 .. m
        <5>1. k \in 0 .. m /\ k - 1 \in 0 .. m /\ k # 0
          BY <4>3
        <5> QED BY <3>2, <3>3, <5>1
      <4> QED BY <4>1, <4>2, <4>3
    <3>6. h = Rec(h, m + 1)
      BY <3>5
    <3> HIDE DEF h, Rec
    <3>7. \E f : f = Rec(f, m + 1)
      BY <3>6
    <3> QED BY <3>7
  <2> HIDE DEF Defined
  <2> QED BY <2>1, <2>2, Induction
<1>3. n \in Nat
  BY DEF n
<1>4. \E g : g = Rec(g, n)
  BY <1>2, <1>3
<1> DEFINE h == CHOOSE g : g = Rec(g, n)
<1>5. h = Rec(h, n)
  <2> HIDE DEF Rec
  <2> QED BY <1>4
<1> HIDE DEF h
<1>6. h[0] = map
  BY <1>3, <1>5
<1>7. ASSUME NEW k \in 1 .. n PROVE h[k] = Next1(h[k - 1], k)
  <2>1. k \in 0 .. n /\ k # 0
    BY <1>3
  <2> QED BY <1>5, <2>1
<1>8. addedUnits(map, units) = h[n]
  BY <1>1 DEF h
<1>9. Stages(h, map, units)
  BY <1>6, <1>7, <1>8 DEF Stages, n, Next1
<1> QED BY <1>9

\* The pieces of a step join on one after the other.
LEMMA UnitsAdded ==
    ASSUME NEW map, IsIndex(map), NEW from \in Int, NEW p \in Int,
           Joined(map.ranges, from, p), NEW n \in Nat
    PROVE  LET after == addedUnits(map, [k \in 1 .. n |-> p + k - 1])
           IN  /\ IsIndex(after) /\ after.period = map.period
               /\ Joined(after.ranges, from, p + n)
<1> DEFINE units == [k \in 1 .. n |-> p + k - 1]
<1>1. Len(units) = n /\ \A k \in 1 .. n : units[k] = p + k - 1
  OBVIOUS
<1> HIDE DEF units
<1>2. PICK g : /\ addedUnits(map, units) = g[n]
               /\ g[0] = map
               /\ \A k \in 1 .. n :
                     g[k] = add(g[k - 1], units[k], units[k] + 1, getElements(units[k]))
  <2>1. Len(units) \in Nat
    BY <1>1
  <2>2. \E g : Stages(g, map, units)
    BY <2>1, UnitsRecursion
  <2> QED BY <1>1, <2>2 DEF Stages
<1> DEFINE T == {k \in 0 .. n : /\ IsIndex(g[k]) /\ g[k].period = map.period
                                /\ Joined(g[k].ranges, from, p + k)}
<1>3. 0 \in T
  <2>1. p + 0 = p
    OBVIOUS
  <2> QED BY <1>2, <2>1
<1>4. ASSUME NEW k \in 0 .. n - 1, k \in T PROVE k + 1 \in T
  <2>1. k + 1 \in 1 .. n /\ k + 1 \in 0 .. n /\ (k + 1) - 1 = k
    OBVIOUS
  <2>2. units[k + 1] = p + k
    BY <1>1, <2>1
  <2>3. g[k + 1] = add(g[k], p + k, p + k + 1, getElements(p + k))
    BY <1>2, <2>1, <2>2
  <2>4. getElements(p + k) \in SUBSET Elements
    BY DEF getElements
  <2>5. /\ IsIndex(g[k]) /\ g[k].period = map.period
        /\ Joined(g[k].ranges, from, p + k)
    BY <1>4
  <2>6. p + k \in Int /\ p + k + 1 \in Int /\ p + k < p + k + 1
    OBVIOUS
  <2>7. /\ IsIndex(g[k + 1]) /\ g[k + 1].period = map.period
        /\ Joined(g[k + 1].ranges, from, p + k + 1)
    BY <2>3, <2>4, <2>5, <2>6, Added
  <2>8. p + k + 1 = p + (k + 1)
    BY SMTT(30)
  <2> QED BY <2>1, <2>7, <2>8
<1>5. n \in T
  <2> HIDE DEF T
  <2>1. n \in 0 .. n
    OBVIOUS
  <2> QED BY <1>3, <1>4, <2>1, InductionUpTo
<1> QED BY <1>2, <1>5 DEF units

-----------------------------------------------------------------------------
(* The end of threading.                                                    *)

\* The entries as they were, but for the end of a last one without elements.
Tidied(r, old, stop) ==
    /\ r \in Seq(Entries) /\ Len(r) = Len(old)
    /\ \A i \in 1 .. Len(old) :
          /\ r[i].begin = old[i].begin /\ r[i].elements = old[i].elements
          /\ \/ r[i].end = old[i].end
             \/ i = Len(old) /\ r[i].elements = {} /\ r[i].end = 2 * stop /\ r[i].begin < 2 * stop
    /\ old # <<>> /\ old[Len(old)].elements = {} /\ old[Len(old)].begin < 2 * stop
          => r[Len(r)].end = 2 * stop

\* tidyUp changes nothing else.
LEMMA TidyUpTidies ==
    ASSUME NEW map, IsIndex(map), NEW stop \in Int
    PROVE  LET after == tidyUp(map, stop)
           IN  /\ IsIndex(after) /\ Tidied(after.ranges, map.ranges, stop)
               /\ after.period = map.period /\ after.origin = map.origin
               /\ after.visits = map.visits
<1> DEFINE r == map.ranges
           tidy == r # <<>> /\ Last(r).elements = {} /\ 2 * stop > Last(r).begin
<1>1. r \in Seq(Entries) /\ Len(r) \in Nat
  BY DEF IsIndex
<1>2. CASE ~tidy
  <2>1. tidyUp(map, stop) = map
    BY <1>2 DEF tidyUp
  <2>2. r # <<>> => Last(r) = r[Len(r)] /\ r[Len(r)].begin \in Int
    <3>1. r # <<>> => Len(r) \in 1 .. Len(r)
      BY <1>1
    <3>2. r # <<>> => r[Len(r)] \in Entries
      BY <1>1, <3>1
    <3> QED BY <3>2 DEF Last, Entries
  <2>3. Tidied(r, r, stop)
    BY <1>1, <1>2, <2>2 DEF Tidied
  <2> QED BY <2>1, <2>3
<1>3. CASE tidy
  <2> DEFINE n == Len(r) - 1
             entry == [Last(r) EXCEPT !.end = 2 * stop]
             new == Append(Front(r), entry)
  <2>1. n \in Nat /\ n + 1 = Len(r) /\ n + 1 \in 1 .. n + 1 /\ Last(r) = r[n + 1]
    BY <1>1, <1>3 DEF Last
  <2>2. r[n + 1] \in Entries
    BY <1>1, <2>1
  <2>3. entry \in Entries /\ entry.begin = r[n + 1].begin
        /\ entry.elements = r[n + 1].elements /\ entry.end = 2 * stop
    BY <2>1, <2>2 DEF Entries
  <2>4. r[n + 1].elements = {} /\ r[n + 1].begin < 2 * stop
    <3>1. r[n + 1].begin \in Int
      BY <2>2 DEF Entries
    <3> QED BY <1>3, <2>1, <3>1
  <2> HIDE DEF entry
  <2>5. /\ new \in Seq(Entries) /\ Len(new) = n + 1
        /\ \A i \in 1 .. n : new[i] = r[i]
        /\ new[n + 1] = entry
    BY <1>1, <2>1, <2>3 DEF Front
  <2>6. tidyUp(map, stop) = [map EXCEPT !.ranges = new]
    BY <1>3 DEF tidyUp, entry
  <2>7. tidyUp(map, stop) = [ranges |-> new, visits |-> map.visits,
                            origin |-> map.origin, period |-> map.period]
    BY <2>6 DEF IsIndex
  <2> HIDE DEF new, n
  <2>8. ASSUME NEW i \in 1 .. n + 1
        PROVE  /\ new[i].begin = r[i].begin /\ new[i].elements = r[i].elements
               /\ \/ new[i].end = r[i].end
                  \/ /\ i = n + 1 /\ new[i].elements = {}
                     /\ new[i].end = 2 * stop /\ new[i].begin < 2 * stop
    <3>1. CASE i \in 1 .. n
      BY <2>5, <3>1
    <3>2. CASE i = n + 1
      BY <2>3, <2>4, <2>5, <3>2
    <3> QED BY <2>1, <3>1, <3>2
  <2>9. new[n + 1].end = 2 * stop
    BY <2>3, <2>5
  <2>10. Tidied(new, r, stop)
    BY <2>1, <2>5, <2>8, <2>9 DEF Tidied
  <2> QED BY <2>5, <2>7, <2>10 DEF IsIndex
<1> QED BY <1>2, <1>3

\* The entries still ascend when the last one is tidied up.
LEMMA TidiedAscends ==
    ASSUME NEW old \in Seq(Entries), NEW from \in Int, NEW to \in Int, Joined(old, from, to),
           NEW stop \in Int, NEW r, Tidied(r, old, stop)
    PROVE  Ascending(r)
<1> SUFFICES ASSUME NEW i \in 1 .. Len(old)
             PROVE  /\ r[i].begin < r[i].end /\ r[i].elements \subseteq Elements
                    /\ i > 1 => /\ r[i].begin \div 2 >= r[i - 1].end \div 2
                                /\ r[i].elements # r[i - 1].elements
  BY DEF Ascending, Tidied
<1>1. /\ old[i].begin < old[i].end /\ old[i].elements \subseteq Elements
      /\ i > 1 => /\ old[i].begin \div 2 >= old[i - 1].end \div 2
                  /\ old[i].elements # old[i - 1].elements
  BY JoinedAscends DEF Ascending
<1>2. r[i].begin = old[i].begin /\ r[i].elements = old[i].elements
  BY DEF Tidied
<1>3. r[i].begin < r[i].end
  BY <1>1 DEF Tidied
<1>4. ASSUME i > 1
      PROVE  /\ r[i].begin \div 2 >= r[i - 1].end \div 2
             /\ r[i].elements # r[i - 1].elements
  <2>1. i - 1 \in 1 .. Len(old) /\ i - 1 # Len(old)
    BY <1>4
  <2>2. r[i - 1].elements = old[i - 1].elements /\ r[i - 1].end = old[i - 1].end
    BY <2>1 DEF Tidied
  <2> QED BY <1>1, <1>2, <1>4, <2>2
<1> QED BY <1>1, <1>2, <1>3, <1>4

\* The index of a line of which the end is told only past the stop.
EndTold(map) == map.period = 0 /\ map.ranges[Len(map.ranges)].end >= 2 * sStop - 1

\* The end of threading leaves an index that ascends, that of a line with its end
\* at the stop or after it if the path came so far or ended without elements.
LEMMA Finished ==
    ASSUME NEW map, IsIndex(map), NEW from \in Int, NEW to \in Int,
           Joined(map.ranges, from, to), map.ranges # <<>>, map.period = 0,
           NEW s \in Int, NEW length, sStop \in Int, sStop > 0
    PROVE  LET after == finished(map, s, length)
           IN  /\ IsIndex(after) /\ Ascending(after.ranges)
               /\ ~launch.ring /\ (to >= sStop \/ map.ranges[Len(map.ranges)].elements = {})
                     => EndTold(after)
<1> DEFINE whole == IF launch.ring THEN setPeriod(map, launch.start, length) ELSE map
           stop == IF launch.ring THEN s ELSE sStop
           after == tidyUp(whole, stop)
           n == Len(map.ranges)
<1>1. IsIndex(whole) /\ whole.ranges = map.ranges /\ (~launch.ring => whole.period = 0)
  <2>1. CASE launch.ring
    <3>1. whole = [map EXCEPT !.origin = launch.start, !.period = length]
      BY <2>1 DEF setPeriod
    <3>2. whole = [ranges |-> map.ranges, visits |-> map.visits,
                   origin |-> launch.start, period |-> length]
      BY <3>1 DEF IsIndex
    <3> QED BY <2>1, <3>2 DEF IsIndex
  <2>2. CASE ~launch.ring
    BY <2>2
  <2> QED BY <2>1, <2>2
<1>2. finished(map, s, length) = after
  BY DEF finished
<1>3. stop \in Int
  OBVIOUS
<1> HIDE DEF whole, stop
<1>4. IsIndex(after) /\ Tidied(after.ranges, map.ranges, stop) /\ after.period = whole.period
  BY <1>1, <1>3, TidyUpTidies
<1>5. map.ranges \in Seq(Entries)
  BY DEF IsIndex
<1> HIDE DEF after
<1>6. Ascending(after.ranges)
  BY <1>3, <1>4, <1>5, TidiedAscends
<1>7. ASSUME ~launch.ring, to >= sStop \/ map.ranges[n].elements = {}
      PROVE  EndTold(after)
  <2>1. n \in 1 .. n /\ Len(after.ranges) = n
    BY <1>4, <1>5 DEF Tidied
  <2>2. stop = sStop
    BY <1>7 DEF stop
  <2>3. after.period = 0
    BY <1>1, <1>4, <1>7
  <2>4. map.ranges[n].end = rounded(to)
    BY DEF Joined
  <2>5. PICK a \in Int, b \in Int :
          a < b /\ map.ranges[n].begin = 2 * a /\ map.ranges[n].end = rounded(b)
    BY <2>1 DEF Joined
  <2> DEFINE last == after.ranges[n]
  <2>6. last.end = map.ranges[n].end \/ last.end = 2 * sStop
    BY <1>4, <2>1, <2>2 DEF Tidied
  <2>7. map.ranges[n].elements = {} /\ 2 * a < 2 * sStop => last.end = 2 * sStop
    BY <1>4, <2>1, <2>2, <2>5 DEF Tidied
  <2> HIDE DEF last
  <2>8. last.end >= 2 * sStop - 1
    <3>1. CASE last.end = 2 * sStop
      BY <3>1
    <3>2. CASE to >= sStop /\ last.end = map.ranges[n].end
      <4>1. last.end = 2 * to - 1
        BY <2>4, <3>2, Rounded
      <4> QED BY <3>2, <4>1
    <3>3. CASE map.ranges[n].elements = {} /\ last.end = map.ranges[n].end /\ ~(2 * a < 2 * sStop)
      <4>1. a >= sStop /\ b > 0
        BY <2>5, <3>3
      <4>2. last.end = 2 * b - 1
        BY <2>5, <3>3, <4>1, Rounded
      <4> QED BY <2>5, <4>1, <4>2
    <3> QED BY <1>7, <2>6, <2>7, <3>1, <3>2, <3>3
  <2> QED BY <2>1, <2>3, <2>8 DEF EndTold, last
<1> HIDE DEF n
<1> QED BY <1>2, <1>4, <1>6, <1>7 DEF n

-----------------------------------------------------------------------------
(* The index along the path.                                                *)

Typed ==
    /\ launch \in Launches /\ extent \in [Elements -> Extents]
    /\ phase \in {"back", "turn", "forward", "done", "failed"}
    /\ pathLength \in Int /\ currentStep \in Int /\ returnLength \in Int
    /\ first.path \in Int /\ first.step \in Int
    /\ stretch.from \in Int /\ stretch.elements \in SUBSET Elements
    /\ IsIndex(imap)

\* Where the entries end in the forward pass.
joinedTo == IF resolveSupport THEN pathLength ELSE stretch.from

\* Until the path is turned forward, the index is empty; from there on the entries
\* reach from the turn to where the last stretch was added; afterwards they ascend,
\* and those of a line end past the stop.
Threaded ==
    /\ phase \in {"back", "turn"} => imap = NewMap
    /\ phase = "forward" => /\ first.path <= stretch.from /\ stretch.from <= pathLength
                            /\ imap.period = 0 /\ Joined(imap.ranges, first.path, joinedTo)
    /\ phase \in {"done", "failed"} => Ascending(imap.ranges)
    /\ phase = "done" /\ ~launch.ring =>
          \/ stepOutside(currentStep) /\ stretch.elements # {}
          \/ EndTold(imap)

IndexInv == Typed /\ Threaded

LEMMA LaunchTypes ==
    ASSUME launch \in Launches
    PROVE  /\ StepLength \in Nat \ {0} /\ sStop \in Nat \ {0}
           /\ launch.start \in Nat /\ launch.tail \in Nat
           /\ launch.ring \in BOOLEAN /\ launch.closes \in BOOLEAN /\ launch.maps \in BOOLEAN
BY ThreaderAssumption DEF StepLength, sStop

LEMMA StretchTypes ==
    ASSUME NEW s \in Int, NEW direction \in Int
    PROVE  /\ stretchFrom(s, direction).from = s
           /\ stretchFrom(s, direction).elements \in SUBSET Elements
BY DEF stretchFrom, getElements

LEMMA EmptyIndex ==
    /\ IsIndex(NewMap) /\ NewMap.ranges = <<>> /\ NewMap.period = 0
    /\ \A p \in Int : Joined(NewMap.ranges, p, p)
    /\ Ascending(NewMap.ranges)
<1>1. NewMap.ranges = <<>> /\ NewMap.visits = <<>> /\ NewMap.origin = 0 /\ NewMap.period = 0
  BY DEF NewMap
<1>2. IsIndex(NewMap)
  BY DEF IsIndex, NewMap
<1>3. \A p \in Int : Joined(<<>>, p, p)
  BY DEF Joined
<1>4. Ascending(<<>>)
  BY DEF Ascending
<1> QED BY <1>1, <1>2, <1>3, <1>4

\* The step of a line without maps adds the whole stretch.
LEMMA PlainAdds ==
    ASSUME IndexInv, phase = "forward", ~resolveSupport
    PROVE  LET s == pathLength + StepLength
               added == add(imap, stretch.from, s, stretch.elements)
           IN  /\ s \in Int /\ first.path < s /\ sStop \in Int /\ sStop > 0 /\ ~launch.ring
               /\ IsIndex(added) /\ added.period = 0 /\ added.ranges # <<>>
               /\ Joined(added.ranges, first.path, s)
               /\ added.ranges[Len(added.ranges)].elements = stretch.elements
<1>1. StepLength \in Nat \ {0} /\ sStop \in Nat \ {0} /\ ~launch.ring
  BY LaunchTypes DEF IndexInv, Typed, resolveSupport
<1>2. /\ pathLength \in Int /\ first.path \in Int /\ stretch.from \in Int
      /\ stretch.elements \in SUBSET Elements /\ IsIndex(imap)
  BY DEF IndexInv, Typed
<1>3. /\ first.path <= stretch.from /\ stretch.from <= pathLength
      /\ imap.period = 0 /\ Joined(imap.ranges, first.path, stretch.from)
  BY DEF IndexInv, Threaded, joinedTo
<1> DEFINE s == pathLength + StepLength
<1>4. s \in Int /\ stretch.from < s /\ first.path < s
  BY <1>1, <1>2, <1>3
<1> HIDE DEF s
<1>5. LET added == add(imap, stretch.from, s, stretch.elements)
      IN  /\ IsIndex(added) /\ added.period = imap.period
          /\ Joined(added.ranges, first.path, s) /\ added.ranges # <<>>
          /\ added.ranges[Len(added.ranges)].elements = stretch.elements
  BY <1>2, <1>3, <1>4, Added
<1> QED BY <1>1, <1>3, <1>4, <1>5 DEF s

\* A resolved step adds its pieces up to where it ends.
LEMMA ResolvedAdds ==
    ASSUME IndexInv, phase = "forward", resolveSupport
    PROVE  LET s == Last(resolved(pathLength)) + 1
               added == addedUnits(imap, resolved(pathLength))
           IN  /\ s \in Int /\ pathLength < s /\ first.path < s /\ sStop \in Int /\ sStop > 0
               /\ IsIndex(added) /\ added.period = 0 /\ added.ranges # <<>>
               /\ Joined(added.ranges, first.path, s)
<1>1. StepLength \in Nat \ {0} /\ sStop \in Nat \ {0}
  BY LaunchTypes DEF IndexInv, Typed
<1>2. pathLength \in Int /\ first.path \in Int /\ IsIndex(imap)
  BY DEF IndexInv, Typed
<1>3. /\ first.path <= pathLength
      /\ imap.period = 0 /\ Joined(imap.ranges, first.path, pathLength)
  BY DEF IndexInv, Threaded, Typed, joinedTo
<1>4. PICK n \in 1 .. StepLength : resolved(pathLength) = [k \in 1 .. n |-> pathLength + k - 1]
  BY <1>1, <1>2, Resolved
<1>5. n \in Nat /\ n > 0
  BY <1>1
<1> DEFINE units == [k \in 1 .. n |-> pathLength + k - 1]
<1>6. Last(units) + 1 = pathLength + n
  <2>1. Len(units) = n /\ n \in 1 .. n
    BY <1>5
  <2>2. Last(units) = pathLength + n - 1
    BY <2>1 DEF Last
  <2> QED BY <1>2, <1>5, <2>2
<1> DEFINE added == addedUnits(imap, units)
<1>7. IsIndex(added) /\ added.period = 0 /\ Joined(added.ranges, first.path, pathLength + n)
  BY <1>2, <1>3, <1>5, UnitsAdded
<1> HIDE DEF added
<1>8. added.ranges # <<>>
  BY <1>2, <1>3, <1>5, <1>7 DEF Joined
<1> QED BY <1>1, <1>2, <1>3, <1>4, <1>5, <1>6, <1>7, <1>8 DEF added

LEMMA IndexInit ==
    ASSUME Init
    PROVE  IndexInv
<1>1. launch \in Launches /\ launch.start \in Nat
  BY LaunchTypes DEF Init
<1>2. stretch.from \in Int /\ stretch.elements \in SUBSET Elements
  BY <1>1, StretchTypes DEF Init
<1>3. IsIndex(imap) /\ imap = NewMap
  BY EmptyIndex DEF Init
<1>4. phase \in {"back", "turn"}
  BY DEF Init
<1>5. Typed
  BY <1>1, <1>2, <1>3, <1>4 DEF Typed, Init
<1>6. Threaded
  BY <1>3, <1>4 DEF Threaded
<1> QED BY <1>5, <1>6 DEF IndexInv

LEMMA IndexStepBack ==
    ASSUME IndexInv, StepBack
    PROVE  IndexInv'
<1>1. StepLength \in Nat /\ pathLength \in Int
  BY LaunchTypes DEF IndexInv, Typed
<1> DEFINE s == pathLength - StepLength
<1>2. s \in Int
  BY <1>1
<1>3. stretchFrom(s, -1).from = s /\ stretchFrom(s, -1).elements \in SUBSET Elements
  BY <1>2, StretchTypes
<1>4. stretch' = stretch \/ stretch' = stretchFrom(s, -1)
  BY DEF StepBack
<1>5. phase' \in {"back", "turn"} /\ phase = "back"
  BY DEF StepBack
<1>6. /\ pathLength' = s /\ currentStep' \in Int /\ UNCHANGED <<job, first, returnLength, imap>>
  BY DEF StepBack, IndexInv, Typed
<1> HIDE DEF s
<1>7. Typed'
  BY <1>2, <1>3, <1>4, <1>5, <1>6 DEF IndexInv, Typed, job
<1>8. Threaded'
  BY <1>5, <1>6 DEF IndexInv, Threaded
<1> QED BY <1>7, <1>8 DEF IndexInv

LEMMA IndexTurn ==
    ASSUME IndexInv, TurnForward
    PROVE  IndexInv'
<1>1. pathLength \in Int /\ currentStep \in Int
  BY DEF IndexInv, Typed
<1>2. stretchFrom(pathLength, 1).from = pathLength
      /\ stretchFrom(pathLength, 1).elements \in SUBSET Elements
  BY <1>1, StretchTypes
<1>3. /\ phase' \in {"forward", "failed"} /\ phase = "turn"
      /\ stretch' = stretchFrom(pathLength, 1)
      /\ first'.path = pathLength /\ first'.step = -currentStep /\ currentStep' = -currentStep
      /\ pathLength' = pathLength /\ imap' = imap
      /\ returnLength' = returnLength /\ job' = job
  BY DEF TurnForward
<1>4. Typed'
  BY <1>1, <1>2, <1>3 DEF IndexInv, Typed, job
<1>5. imap = NewMap
  BY <1>3 DEF IndexInv, Threaded
<1>6. joinedTo' = pathLength
  BY <1>2, <1>3 DEF joinedTo
<1>7. /\ first'.path <= stretch'.from /\ stretch'.from <= pathLength'
      /\ imap'.period = 0 /\ Joined(imap'.ranges, first'.path, joinedTo')
      /\ Ascending(imap'.ranges)
  BY <1>1, <1>2, <1>3, <1>5, <1>6, EmptyIndex
<1>8. Threaded'
  BY <1>3, <1>7 DEF Threaded
<1> QED BY <1>4, <1>8 DEF IndexInv

LEMMA IndexPlainStep ==
    ASSUME IndexInv, PlainStep
    PROVE  IndexInv'
<1> DEFINE s == pathLength + StepLength
           n == currentStep + 1
           next == stretchFrom(s, 1)
           atEnd == stretch.elements = {} /\ (pathOutside(s) \/ stepOutside(n))
           leaving == atEnd \/ next.elements # stretch.elements
           over == \/ atEnd
                   \/ stepOutside(n)
                   \/ /\ pathOutside(s)
                      /\ next.elements # {} /\ stretch.elements # {}
                      /\ next.elements \cap stretch.elements = {}
           added == add(imap, stretch.from, s, stretch.elements)
<1>1. phase = "forward" /\ ~resolveSupport
  BY DEF PlainStep
<1>2. /\ s \in Int /\ first.path < s /\ sStop \in Int /\ sStop > 0 /\ ~launch.ring
      /\ IsIndex(added) /\ added.period = 0 /\ added.ranges # <<>>
      /\ Joined(added.ranges, first.path, s)
      /\ added.ranges[Len(added.ranges)].elements = stretch.elements
  BY <1>1, PlainAdds
<1>3. next.from = s /\ next.elements \in SUBSET Elements
  BY <1>2, StretchTypes
<1>4. /\ pathLength' = s /\ currentStep' = n /\ job' = job
      /\ first' = first /\ returnLength' = returnLength
      /\ \/ ~leaving /\ phase' = phase /\ stretch' = stretch /\ imap' = imap
         \/ leaving /\ over /\ phase' = "done" /\ imap' = finished(added, s, 0) /\ stretch' = stretch
         \/ /\ leaving /\ ~over /\ phase' \in {"forward", "failed"}
            /\ imap' = added /\ stretch' = next
  BY Zenon DEF PlainStep
<1>5. /\ pathLength \in Int /\ currentStep \in Int /\ first.path \in Int
      /\ stretch.from \in Int /\ stretch.from <= pathLength /\ first.path <= stretch.from
      /\ StepLength \in Nat \ {0} /\ n \in Int
  BY <1>1, LaunchTypes DEF IndexInv, Typed, Threaded
<1>6. ~resolveSupport' /\ ~launch'.ring
  BY <1>1, <1>2, <1>4 DEF resolveSupport, job
<1>7. joinedTo' = stretch'.from
  BY <1>6 DEF joinedTo
<1> HIDE DEF next, added, leaving, over
<1>8. CASE ~leaving /\ phase' = phase /\ stretch' = stretch /\ imap' = imap
  <2>1. Typed'
    BY <1>2, <1>4, <1>5, <1>8 DEF IndexInv, Typed, job
  <2>2. Joined(imap.ranges, first.path, stretch.from) /\ imap.period = 0
    BY <1>1 DEF IndexInv, Threaded, joinedTo
  <2>3. Threaded'
    BY <1>1, <1>4, <1>5, <1>7, <1>8, <2>2 DEF Threaded
  <2> QED BY <2>1, <2>3 DEF IndexInv
<1>9. CASE /\ leaving /\ over
           /\ phase' = "done" /\ imap' = finished(added, s, 0) /\ stretch' = stretch
  <2>1. s >= sStop \/ stretch.elements = {} \/ (stepOutside(n) /\ stretch.elements # {})
    BY <1>2, <1>5, <1>9 DEF over, pathOutside
  <2> HIDE DEF s, n
  <2>2. /\ IsIndex(imap') /\ Ascending(imap'.ranges)
        /\ s >= sStop \/ stretch.elements = {} => EndTold(imap')
    BY <1>2, <1>5, <1>9, Finished
  <2>3. Typed'
    BY <1>2, <1>4, <1>5, <1>9, <2>2 DEF IndexInv, Typed, job
  <2>4. /\ stepOutside(currentStep)' <=> stepOutside(n)
        /\ EndTold(imap)' <=> EndTold(imap')
    BY <1>4 DEF stepOutside, EndTold, sStop, job
  <2>5. Threaded'
    BY <1>9, <2>1, <2>2, <2>4 DEF Threaded
  <2> QED BY <2>3, <2>5 DEF IndexInv
<1>10. CASE /\ leaving /\ ~over /\ phase' \in {"forward", "failed"}
            /\ imap' = added /\ stretch' = next
  <2>1. Ascending(added.ranges)
    BY <1>2, <1>5, JoinedAscends DEF IsIndex
  <2>2. Typed'
    BY <1>2, <1>3, <1>4, <1>5, <1>10 DEF IndexInv, Typed, job
  <2>3. Threaded'
    BY <1>2, <1>3, <1>4, <1>5, <1>7, <1>10, <2>1 DEF Threaded
  <2> QED BY <2>2, <2>3 DEF IndexInv
<1> QED BY <1>4, <1>8, <1>9, <1>10

LEMMA IndexResolvedStep ==
    ASSUME IndexInv, ResolvedStep
    PROVE  IndexInv'
<1> DEFINE units == resolved(pathLength)
           s == Last(units) + 1
           added == addedUnits(imap, units)
           back == launch.ring /\ returns(s - 1)
           length == IF back THEN s - launch.start ELSE returnLength
           failed == launch.ring /\ (IF back THEN length <= 0 ELSE searchedTooFar(s))
           next == stretchFrom(s, 1)
<1>1. phase = "forward" /\ resolveSupport
  BY DEF ResolvedStep
<1>2. /\ s \in Int /\ pathLength < s /\ first.path < s /\ sStop \in Int /\ sStop > 0
      /\ IsIndex(added) /\ added.period = 0 /\ added.ranges # <<>>
      /\ Joined(added.ranges, first.path, s)
  BY <1>1, ResolvedAdds
<1>3. next.from = s /\ next.elements \in SUBSET Elements
  BY <1>2, StretchTypes
<1>4. /\ pathLength' = s /\ currentStep' = currentStep + 1 /\ job' = job
      /\ first' = first /\ returnLength' = length
      /\ \/ failed /\ phase' = "failed" /\ stretch' = stretch /\ imap' = imap
         \/ /\ ~failed /\ endsIn(s - 1)
            /\ phase' = "done" /\ imap' = finished(added, s, length) /\ stretch' = stretch
         \/ ~failed /\ ~endsIn(s - 1) /\ imap' = added
            /\ \/ phase' = phase /\ stretch' = stretch
               \/ phase' \in {"forward", "failed"} /\ stretch' = next
  BY Zenon DEF ResolvedStep
<1>5. /\ pathLength \in Int /\ currentStep \in Int /\ first.path \in Int
      /\ stretch.from \in Int /\ stretch.from <= pathLength /\ first.path <= stretch.from
      /\ Joined(imap.ranges, first.path, pathLength)
      /\ length \in Int
  <2>1. launch.start \in Int /\ returnLength \in Int
    BY LaunchTypes DEF IndexInv, Typed
  <2> HIDE DEF s
  <2> QED BY <1>1, <1>2, <2>1 DEF IndexInv, Typed, Threaded, joinedTo
<1>6. resolveSupport' /\ joinedTo' = pathLength'
  BY <1>1, <1>4 DEF resolveSupport, job, joinedTo
<1>7. ~launch.ring /\ endsIn(s - 1) => s >= sStop
  BY <1>2 DEF endsIn
<1> HIDE DEF units, s, next, added, length, failed
<1>8. CASE failed /\ phase' = "failed" /\ stretch' = stretch /\ imap' = imap
  <2>1. Ascending(imap.ranges)
    BY <1>5, JoinedAscends DEF IsIndex, IndexInv, Typed
  <2>2. Typed'
    BY <1>2, <1>4, <1>5, <1>8 DEF IndexInv, Typed, job
  <2>3. Threaded'
    BY <1>8, <2>1 DEF Threaded
  <2> QED BY <2>2, <2>3 DEF IndexInv
<1>9. CASE /\ ~failed /\ endsIn(s - 1)
           /\ phase' = "done" /\ imap' = finished(added, s, length) /\ stretch' = stretch
  <2>1. /\ IsIndex(imap') /\ Ascending(imap'.ranges)
        /\ ~launch.ring => EndTold(imap')
    BY <1>2, <1>5, <1>7, <1>9, Finished
  <2>2. Typed'
    BY <1>2, <1>4, <1>5, <1>9, <2>1 DEF IndexInv, Typed, job
  <2>3. EndTold(imap)' <=> EndTold(imap')
    BY <1>4 DEF EndTold, sStop, job
  <2>4. launch' = launch
    BY <1>4 DEF job
  <2>5. Threaded'
    BY <1>9, <2>1, <2>3, <2>4 DEF Threaded
  <2> QED BY <2>2, <2>5 DEF IndexInv
<1>10. CASE /\ imap' = added
            /\ \/ phase' = phase /\ stretch' = stretch
               \/ phase' \in {"forward", "failed"} /\ stretch' = next
  <2>1. Ascending(added.ranges)
    BY <1>2, <1>5, JoinedAscends DEF IsIndex
  <2>2. Typed'
    BY <1>2, <1>3, <1>4, <1>5, <1>10 DEF IndexInv, Typed, job
  <2>3. first'.path <= stretch'.from /\ stretch'.from <= pathLength'
    BY <1>2, <1>3, <1>4, <1>5, <1>10
  <2>4. phase' \in {"forward", "failed"}
    BY <1>1, <1>10
  <2>5. Threaded'
    BY <1>2, <1>4, <1>6, <1>10, <2>1, <2>3, <2>4 DEF Threaded
  <2> QED BY <2>2, <2>5 DEF IndexInv
<1> QED BY <1>4, <1>8, <1>9, <1>10

\* The index along the path, in every state.
LEMMA IndexInvariant == Spec => []IndexInv
<1>1. Init => IndexInv
  BY IndexInit
<1>2. IndexInv /\ [Next]_vars => IndexInv'
  <2> SUFFICES ASSUME IndexInv, [Next]_vars PROVE IndexInv'
    OBVIOUS
  <2>1. CASE UNCHANGED vars
    BY <2>1 DEF vars, job, IndexInv, Typed, Threaded, joinedTo, resolveSupport, stepOutside,
                EndTold, sStop
  <2> QED BY <2>1, IndexStepBack, IndexTurn, IndexPlainStep, IndexResolvedStep DEF Next
<1> QED BY <1>1, <1>2, PTL DEF Spec

\* The tracker is told that the line has ended only past its last stop, unless
\* the steps of the threader were used up inside an element.
THEOREM EndOfLine == Spec => []EndOfLineIsPastStop
<1>1. ASSUME IndexInv PROVE EndOfLineIsPastStop
  <2> SUFFICES ASSUME phase = "done", ~launch.ring, EndTold(imap),
                      NEW s \in positions, NEW ds \in widths, outOfBounds(imap, s, ds)
               PROVE  s - ds >= sStop
    BY <1>1 DEF IndexInv, Threaded, EndOfLineIsPastStop
  <2>1. s \in Int /\ ds \in Int
    <3>1. first.path \in Int /\ pathLength \in Int
      BY <1>1 DEF IndexInv, Typed
    <3>2. Circumference \in Nat
      BY ThreaderAssumption
    <3> QED BY <3>1, <3>2 DEF positions, widths
  <2>2. imap.period = 0 /\ imap.ranges[Len(imap.ranges)].end >= 2 * sStop - 1
    BY DEF EndTold
  <2>3. intervals(imap, s, ds) = {<<s - ds, s + ds>>}
    BY <2>2 DEF intervals
  <2>4. beyondEnd(imap, s - ds)
    BY <2>3 DEF outOfBounds
  <2>5. imap.ranges # <<>> /\ 2 * (s - ds) > imap.ranges[Len(imap.ranges)].end
    BY <2>4 DEF beyondEnd, Last
  <2>6. imap.ranges[Len(imap.ranges)].end \in Int
    <3>1. imap.ranges \in Seq(Entries)
      BY <1>1 DEF IndexInv, Typed, IsIndex
    <3>2. imap.ranges[Len(imap.ranges)] \in Entries
      BY <2>5, <3>1
    <3> QED BY <3>2 DEF Entries
  <2>7. sStop \in Int
    BY <1>1, LaunchTypes DEF IndexInv, Typed
  <2> QED BY <2>1, <2>2, <2>5, <2>6, <2>7
<1> QED BY <1>1, IndexInvariant, PTL

-----------------------------------------------------------------------------
(* The return to the launch plane.                                          *)

\* A multiple of a number grows with the factor.
LEMMA MultiplesGrow ==
    ASSUME NEW f \in Nat \ {0}, NEW j \in Int, NEW k \in Int, j < k
    PROVE  j * f + f <= k * f
<1> DEFINE d == k - j
<1>1. d \in Nat /\ d >= 1 /\ k = j + d
  OBVIOUS
<1> HIDE DEF d
<1>2. d * f >= f
  <2>1. PICK e \in Nat : d = e + 1
    <3>1. d - 1 \in Nat /\ d = (d - 1) + 1
      BY <1>1
    <3> QED BY <3>1
  <2>2. e * f \in Nat /\ d * f = e * f + f
    BY <2>1
  <2> QED BY <2>2
<1>3. k * f = j * f + d * f /\ j * f \in Int /\ d * f \in Int
  BY <1>1
<1> QED BY <1>2, <1>3

\* A number divided with a remainder.
LEMMA Divided ==
    ASSUME NEW f \in Nat \ {0}, NEW g \in Int
    PROVE  /\ g \div f \in Int /\ g % f \in 0 .. f - 1
           /\ g = (g \div f) * f + (g % f)
<1> DEFINE q == g \div f
           r == g % f
<1>1. q \in Int /\ r \in 0 .. f - 1 /\ g = f * q + r
  OBVIOUS
<1> HIDE DEF q, r
<1>2. f * q = q * f
  BY <1>1
<1>3. g = q * f + r
  BY <1>1, <1>2
<1> QED BY <1>1, <1>3 DEF q, r

\* There is only one quotient and one remainder.
LEMMA DividedOnce ==
    ASSUME NEW f \in Nat \ {0}, NEW q \in Int, NEW r \in 0 .. f - 1, NEW g \in Int,
           g = q * f + r
    PROVE  g \div f = q /\ g % f = r
<1> DEFINE k == g \div f
           m == g % f
<1>1. k \in Int /\ m \in 0 .. f - 1 /\ g = k * f + m
  BY Divided
<1> HIDE DEF k, m
<1>2. q * f \in Int /\ k * f \in Int
  BY <1>1
<1>3. ~ (q < k)
  <2> SUFFICES ASSUME q < k PROVE FALSE
    OBVIOUS
  <2>1. q * f + f <= k * f
    BY <1>1, MultiplesGrow
  <2> QED BY <1>1, <1>2, <2>1
<1>4. ~ (k < q)
  <2> SUFFICES ASSUME k < q PROVE FALSE
    OBVIOUS
  <2>1. k * f + f <= q * f
    BY <1>1, MultiplesGrow
  <2> QED BY <1>1, <1>2, <2>1
<1>5. k = q
  BY <1>1, <1>3, <1>4
<1>6. m = r
  BY <1>1, <1>2, <1>5
<1> QED BY <1>5, <1>6 DEF k, m

\* The reference comes back to the launch plane after whole turns.
LEMMA ReturnsAfterTurns ==
    ASSUME launch \in Launches, NEW s \in Int, returns(s - 1)
    PROVE  \E k \in Int : s - launch.start = k * Circumference
<1>1. launch.start \in Int /\ Circumference \in Nat \ {0}
  BY LaunchTypes, ThreaderAssumption
<1>2. side(s - 1) = -1 /\ side(s) # -1
  <2>1. (s - 1) + 1 = s
    OBVIOUS
  <2> QED BY <2>1 DEF returns
<1>3. CASE ~launch.closes
  <2>1. s - 1 < launch.start /\ ~ (s < launch.start)
    BY <1>2, <1>3 DEF side
  <2>2. s - launch.start = 0
    BY <1>1, <2>1
  <2>3. 0 * Circumference = 0
    BY <1>1
  <2> QED BY <2>2, <2>3
<1>4. CASE launch.closes
  <2> DEFINE C == Circumference
             d == s - launch.start
             q == (d - 1) \div C
             x == (d - 1) % C
  <2>1. d \in Int /\ d - 1 \in Int
    BY <1>1
  <2>2. q \in Int /\ x \in 0 .. C - 1 /\ d - 1 = q * C + x
    BY <1>1, <2>1, Divided
  <2>3. (s - 1) - launch.start = d - 1
    BY <1>1
  <2>4. 2 * x > C
    <3>1. side(s - 1) = IF 2 * x \in {0, C} THEN 0 ELSE IF 2 * x < C THEN 1 ELSE -1
      BY <1>4, <2>3, Zenon DEF side
    <3> HIDE DEF x
    <3>2. 2 * x \notin {0, C} /\ ~ (2 * x < C)
      BY <1>2, <3>1
    <3> QED BY <1>1, <2>2, <3>2
  <2> HIDE DEF q, x
  <2>5. CASE x = C - 1
    <3>1. (q + 1) * C = q * C + C /\ q * C \in Int /\ q + 1 \in Int
      BY <1>1, <2>2
    <3>2. d = (q + 1) * C
      BY <1>1, <2>1, <2>2, <2>5, <3>1
    <3> QED BY <3>1, <3>2
  <2>6. CASE x # C - 1
    <3>1. q * C \in Int
      BY <1>1, <2>2
    <3>2. x + 1 \in 0 .. C - 1 /\ d = q * C + (x + 1)
      BY <1>1, <2>1, <2>2, <2>6, <3>1
    <3> HIDE DEF d
    <3> DEFINE y == x + 1
    <3>7. C \in Nat \ {0} /\ q \in Int /\ y \in 0 .. C - 1 /\ d \in Int /\ d = q * C + y
      BY <1>1, <2>1, <2>2, <3>2
    <3> HIDE DEF y
    <3>8. d % C = y
      BY ONLY <3>7, DividedOnce
    <3>3. d % C = x + 1
      BY <3>8 DEF y
    <3>4. 2 * (d % C) > C
      BY <1>1, <2>2, <2>4, <3>3
    <3>5. (2 * (d % C)) \notin {0, C} /\ ~ (2 * (d % C) < C)
      BY <1>1, <2>2, <3>3, <3>4
    <3>6. side(s) = -1
      BY <1>4, <3>5, Zenon DEF side, d
    <3> QED BY <1>2, <3>6
  <2> QED BY <2>5, <2>6
<1> QED BY <1>3, <1>4

\* On a ring that is not left at the launch, the path starts there, and what is
\* kept of it is a turn at least.
Returned ==
    /\ launch.ring => phase # "back" /\ launch.start <= pathLength
    /\ returnLength = -1 \/ returnLength >= Circumference

\* OrbitThreader.h: a ring ends at the crossing of the launch plane "after
\* travelling at least half the design circumference". It is so if the orbit is not
\* shorter than that half, and if no bunch reaches behind the reference of a restart.
THEOREM RingReturn ==
    ASSUME 2 * Circumference >= Period,
           \A l \in Launches : l.ring => l.start = 0 \/ l.tail = 0
    PROVE  Spec => []RingReturnIsATurn
<1>1. Circumference \in Nat \ {0} /\ Period \in Nat
  BY ThreaderAssumption
<1>2. Init => Returned
  <2> SUFFICES ASSUME Init PROVE Returned
    OBVIOUS
  <2>1. launch \in Launches /\ launch.start \in Nat /\ launch.tail \in Nat
    BY LaunchTypes DEF Init
  <2>2. launch.ring => distTrackBack = 0
    BY <2>1 DEF distTrackBack
  <2>3. pathLength = launch.start /\ launch.start - launch.start = 0
    BY <2>1 DEF Init
  <2>4. launch.ring => goneBack(pathLength)
    BY <2>2, <2>3 DEF goneBack
  <2> QED BY <2>1, <2>3, <2>4 DEF Init, Returned
<1>3. IndexInv /\ Returned /\ [Next]_vars => Returned'
  <2> SUFFICES ASSUME IndexInv, Returned, [Next]_vars PROVE Returned'
    OBVIOUS
  <2>1. launch \in Launches /\ launch.start \in Nat /\ pathLength \in Int
    BY LaunchTypes DEF IndexInv, Typed
  <2>2. CASE UNCHANGED vars
    BY <2>2 DEF vars, job, Returned
  <2>3. CASE StepBack
    BY <2>3 DEF StepBack, Returned, job
  <2>4. CASE TurnForward
    BY <2>4 DEF TurnForward, Returned, job
  <2>5. CASE PlainStep
    BY <2>5 DEF PlainStep, Returned, resolveSupport, job
  <2>6. CASE ResolvedStep
    <3> DEFINE s == Last(resolved(pathLength)) + 1
               back == launch.ring /\ returns(s - 1)
    <3>1. phase = "forward" /\ resolveSupport
      BY <2>6 DEF ResolvedStep
    <3>2. s \in Int /\ pathLength < s
      BY <3>1, ResolvedAdds
    <3>3. /\ pathLength' = s /\ launch' = launch
          /\ returnLength' = IF back THEN s - launch.start ELSE returnLength
          /\ phase' \in {"forward", "failed", "done"}
      BY <2>6, <3>1 DEF ResolvedStep, job
    <3> HIDE DEF s
    <3>4. launch.ring => launch.start < s
      BY <2>1, <3>2 DEF Returned
    <3>5. back => s - launch.start >= Circumference
      <4> SUFFICES ASSUME back PROVE s - launch.start >= Circumference
        OBVIOUS
      <4>1. PICK k \in Int : s - launch.start = k * Circumference
        BY <2>1, <3>2, ReturnsAfterTurns
      <4>2. s - launch.start > 0
        BY <2>1, <3>2, <3>4
      <4>3. k > 0
        <5> SUFFICES ASSUME k <= 0 PROVE FALSE
          OBVIOUS
        <5>1. 0 * Circumference = 0 /\ k * Circumference \in Int
          BY <1>1
        <5>2. k # 0
          BY <4>1, <4>2, <5>1
        <5>3. k * Circumference + Circumference <= 0
          BY <1>1, <5>1, <5>2, MultiplesGrow
        <5> QED BY <1>1, <4>1, <4>2, <5>1, <5>3
      <4>4. 0 * Circumference + Circumference <= k * Circumference
        BY <1>1, <4>3, MultiplesGrow
      <4>5. 0 * Circumference = 0 /\ k * Circumference \in Int
        BY <1>1
      <4> QED BY <1>1, <4>1, <4>4, <4>5
    <3> HIDE DEF back
    <3> QED BY <2>1, <3>2, <3>3, <3>4, <3>5 DEF Returned
  <2> QED BY <2>2, <2>3, <2>4, <2>5, <2>6 DEF Next
<1>4. IndexInv /\ Returned => RingReturnIsATurn
  <2> SUFFICES ASSUME IndexInv, Returned PROVE RingReturnIsATurn
    OBVIOUS
  <2>1. returnLength \in Int
    BY DEF IndexInv, Typed
  <2> QED BY <1>1, <2>1 DEF Returned, RingReturnIsATurn
<1> QED BY <1>2, <1>3, <1>4, IndexInvariant, PTL DEF Spec

-----------------------------------------------------------------------------
(* What the entries say of the path.                                        *)

\* An end is rounded from one position only.
LEMMA RoundedOnce ==
    ASSUME NEW a \in Int, NEW b \in Int
    PROVE  /\ rounded(a) = rounded(b) => a = b
           /\ meets(a, rounded(b)) => a = b
           /\ a <= b => rounded(a) <= rounded(b)
           /\ rounded(a) <= rounded(b) => a <= b
BY DEF rounded, meets

\* The elements that are entered for a unit of the path: those with a field there, or
\* without resolved supports in the middle of the step.
seen(u) ==
    IF resolveSupport THEN getElements(u)
    ELSE getElements(u - ((u - first.path) % StepLength) + StepLength \div 2)

\* Every entry holds for all of its stretch.
Met(r) ==
    \A i \in 1 .. Len(r) : \A a, b \in Int :
        r[i].begin = 2 * a /\ r[i].end = rounded(b) => \A u \in a .. b - 1 : seen(u) = r[i].elements

\* The visits are the first ones on the path, up to where it goes on.
FirstVisits(visits, from, to) ==
    \A e \in Elements :
        IF e \in DOMAIN visits
        THEN \E b, t \in Int :
                /\ from <= b /\ b < t /\ t <= to
                /\ visits[e] = [begin |-> 2 * b, end |-> rounded(t)]
                /\ \A v \in from .. b - 1 : e \notin getElements(v)
                /\ \A v \in b .. t - 1 : e \in getElements(v)
                /\ t = to \/ e \notin getElements(t)
        ELSE \A v \in from .. to - 1 : e \notin getElements(v)

\* What add does to the entries and the visits.
AddedBy(map, after, a, b, val) ==
    LET r == map.ranges
        n == Len(r)
        new == after.ranges
    IN  \/ /\ Len(new) = n + 1 /\ \A i \in 1 .. n : new[i] = r[i]
           /\ new[n + 1] = [begin |-> 2 * a, end |-> rounded(b), elements |-> val]
           /\ after.visits = visited(map.visits, a, [begin |-> 2 * a, end |-> rounded(b)], val)
        \/ /\ n > 0 /\ Len(new) = n /\ \A i \in 1 .. n - 1 : new[i] = r[i]
           /\ r[n].elements = val
           /\ new[n] = [begin |-> r[n].begin, end |-> rounded(b), elements |-> val]
           /\ after.visits = visited(map.visits, a, [begin |-> r[n].begin, end |-> rounded(b)], val)

LEMMA AddedEntry ==
    ASSUME NEW map, IsIndex(map), NEW from \in Int, NEW a \in Int, NEW b \in Int, a < b,
           Joined(map.ranges, from, a), NEW val \in SUBSET Elements
    PROVE  AddedBy(map, add(map, a, b, val), a, b, val)
<1> DEFINE r == map.ranges
           n == Len(r)
           merged == continues(map, a, val)
           begin == IF merged THEN Last(r).begin ELSE 2 * a
           key == [begin |-> begin, end |-> rounded(b)]
           entry == [begin |-> key.begin, end |-> key.end, elements |-> val]
           new == Append(IF merged THEN Front(r) ELSE r, entry)
<1>1. add(map, a, b, val) = [map EXCEPT !.ranges = new, !.visits = visited(map.visits, a, key, val)]
  BY DEF add
<1>2. /\ add(map, a, b, val).ranges = new
      /\ add(map, a, b, val).visits = visited(map.visits, a, key, val)
  BY <1>1 DEF IsIndex
<1>3. r \in Seq(Entries) /\ n \in Nat
  BY DEF IsIndex
<1>4. entry = [begin |-> begin, end |-> rounded(b), elements |-> val]
  OBVIOUS
<1>5. CASE ~merged
  <2>1. begin = 2 * a /\ new = Append(r, entry)
    BY <1>5
  <2>2. Len(new) = n + 1 /\ new[n + 1] = entry /\ \A i \in 1 .. n : new[i] = r[i]
    BY <1>3, <2>1, SMTT(30)
  <2> HIDE DEF new, entry, begin
  <2> QED BY <1>2, <1>4, <2>1, <2>2 DEF AddedBy
<1>6. CASE merged
  <2>1. r # <<>> /\ n > 0 /\ Last(r) = r[n] /\ r[n].elements = val
    BY <1>3, <1>6 DEF continues, Last
  <2>2. begin = r[n].begin /\ new = Append(Front(r), entry)
    BY <1>6, <2>1
  <2>3. Front(r) = [i \in 1 .. n - 1 |-> r[i]]
    BY DEF Front
  <2>4. Len(new) = n /\ new[n] = entry /\ \A i \in 1 .. n - 1 : new[i] = r[i]
    BY <1>3, <2>1, <2>2, <2>3
  <2> HIDE DEF new, entry, begin
  <2> QED BY <1>2, <1>4, <2>1, <2>2, <2>4 DEF AddedBy
<1> QED BY <1>5, <1>6

LEMMA MetAdded ==
    ASSUME NEW map, IsIndex(map), NEW from \in Int, NEW a \in Int, NEW b \in Int, a < b,
           Joined(map.ranges, from, a), NEW val \in SUBSET Elements,
           Met(map.ranges), \A u \in a .. b - 1 : seen(u) = val
    PROVE  Met(add(map, a, b, val).ranges)
<1> DEFINE r == map.ranges
           n == Len(r)
           new == add(map, a, b, val).ranges
<1>1. n \in Nat
  BY DEF IsIndex
<1>2. \/ /\ Len(new) = n + 1 /\ \A i \in 1 .. n : new[i] = r[i]
         /\ new[n + 1] = [begin |-> 2 * a, end |-> rounded(b), elements |-> val]
      \/ /\ n > 0 /\ Len(new) = n /\ \A i \in 1 .. n - 1 : new[i] = r[i]
         /\ r[n].elements = val
         /\ new[n] = [begin |-> r[n].begin, end |-> rounded(b), elements |-> val]
  <2>1. AddedBy(map, add(map, a, b, val), a, b, val)
    BY AddedEntry
  <2> QED BY <2>1, Zenon DEF AddedBy
<1> HIDE DEF new, n
<1> SUFFICES ASSUME NEW i \in 1 .. Len(new), NEW c \in Int, NEW d \in Int,
                    new[i].begin = 2 * c, new[i].end = rounded(d), NEW u \in c .. d - 1
             PROVE  seen(u) = new[i].elements
  BY DEF Met, new
<1>3. CASE i \in 1 .. n /\ new[i] = r[i]
  BY <1>3 DEF Met, n
<1>4. CASE /\ i = n + 1
           /\ new[i] = [begin |-> 2 * a, end |-> rounded(b), elements |-> val]
  <2>1. 2 * c = 2 * a /\ rounded(d) = rounded(b) /\ new[i].elements = val
    BY <1>4
  <2>2. c = a /\ d = b
    BY <2>1, RoundedOnce
  <2> QED BY <2>1, <2>2
<1>5. CASE /\ i = n /\ n > 0 /\ r[n].elements = val
           /\ new[n] = [begin |-> r[n].begin, end |-> rounded(b), elements |-> val]
  <2>1. /\ r[n].begin = 2 * c /\ rounded(d) = rounded(b) /\ new[i].elements = val
    BY <1>5
  <2>2. d = b
    BY <2>1, RoundedOnce
  <2>3. r # <<>> /\ n \in 1 .. n
    BY <1>1, <1>5 DEF n
  <2>4. r[n].end = rounded(a)
    BY <2>3 DEF Joined, n
  <2>5. CASE u < a
    <3>1. u \in c .. a - 1
      BY <2>5
    <3>2. seen(u) = r[n].elements
      BY <2>1, <2>3, <2>4, <3>1, SMTT(30) DEF Met, n
    <3> QED BY <1>5, <2>1, <3>2
  <2>6. CASE ~ (u < a)
    <3>1. u \in a .. b - 1
      BY <2>2, <2>6
    <3> QED BY <2>1, <3>1
  <2> QED BY <2>5, <2>6
<1>6. \/ i \in 1 .. n /\ new[i] = r[i]
      \/ /\ i = n + 1
         /\ new[i] = [begin |-> 2 * a, end |-> rounded(b), elements |-> val]
      \/ /\ i = n /\ n > 0 /\ r[n].elements = val
         /\ new[n] = [begin |-> r[n].begin, end |-> rounded(b), elements |-> val]
  BY <1>1, <1>2
<1> QED BY <1>3, <1>4, <1>5, <1>6

\* The visits after one more unit of the path.
LEMMA VisitsAdded ==
    ASSUME NEW map, IsIndex(map), NEW from \in Int, NEW p \in Int, from <= p,
           Joined(map.ranges, from, p), Met(map.ranges), resolveSupport,
           FirstVisits(map.visits, from, p)
    PROVE  FirstVisits(add(map, p, p + 1, getElements(p)).visits, from, p + 1)
<1> DEFINE r == map.ranges
           n == Len(r)
           val == getElements(p)
           old == map.visits
           new == add(map, p, p + 1, val).visits
<1>1. val \in SUBSET Elements /\ n \in Nat /\ p + 1 \in Int /\ p < p + 1
  BY DEF getElements, IsIndex
<1>2. \/ new = visited(old, p, [begin |-> 2 * p, end |-> rounded(p + 1)], val)
      \/ /\ n > 0 /\ r[n].elements = val
         /\ new = visited(old, p, [begin |-> r[n].begin, end |-> rounded(p + 1)], val)
  <2> HIDE DEF val
  <2>1. AddedBy(map, add(map, p, p + 1, val), p, p + 1, val)
    BY <1>1, AddedEntry
  <2> QED BY <2>1, Zenon DEF AddedBy
<1> HIDE DEF new
<1>3. PICK key : /\ new = visited(old, p, key, val) /\ key.end = rounded(p + 1)
                 /\ \/ key = [begin |-> 2 * p, end |-> rounded(p + 1)]
                    \/ n > 0 /\ r[n].elements = val
  BY <1>2
<1>4. /\ DOMAIN new = DOMAIN old \cup val
      /\ \A e \in DOMAIN new :
            new[e] = IF e \notin DOMAIN old THEN key
                     ELSE IF e \in val /\ meets(p, old[e].end)
                          THEN [old[e] EXCEPT !.end = key.end] ELSE old[e]
  BY <1>3 DEF visited
<1>5. ASSUME n > 0 PROVE from < p /\ getElements(p - 1) = r[n].elements
  <2>1. r # <<>> /\ n \in 1 .. n
    BY <1>1, <1>5
  <2>2. from < p /\ r[n].end = rounded(p)
    BY <2>1 DEF Joined
  <2>3. PICK c \in Int, d \in Int : c < d /\ r[n].begin = 2 * c /\ r[n].end = rounded(d)
    BY <2>1 DEF Joined
  <2>4. d = p
    BY <2>2, <2>3, RoundedOnce
  <2>5. p - 1 \in c .. d - 1
    BY <2>3, <2>4
  <2>6. seen(p - 1) = r[n].elements
    BY <2>1, <2>3, <2>5 DEF Met
  <2> QED BY <2>2, <2>6 DEF seen
<1> HIDE DEF val
<1> SUFFICES ASSUME NEW e \in Elements
             PROVE  IF e \in DOMAIN new
                    THEN \E b, t \in Int :
                            /\ from <= b /\ b < t /\ t <= p + 1
                            /\ new[e] = [begin |-> 2 * b, end |-> rounded(t)]
                            /\ \A v \in from .. b - 1 : e \notin getElements(v)
                            /\ \A v \in b .. t - 1 : e \in getElements(v)
                            /\ t = p + 1 \/ e \notin getElements(t)
                    ELSE \A v \in from .. (p + 1) - 1 : e \notin getElements(v)
  BY DEF FirstVisits, new, val
<1> DEFINE First(b, t) == /\ from <= b /\ b < t /\ t <= p + 1
                          /\ new[e] = [begin |-> 2 * b, end |-> rounded(t)]
                          /\ \A v \in from .. b - 1 : e \notin getElements(v)
                          /\ \A v \in b .. t - 1 : e \in getElements(v)
                          /\ t = p + 1 \/ e \notin getElements(t)
<1>8. ASSUME NEW b \in Int, NEW t \in Int, First(b, t), e \in DOMAIN new
      PROVE  \E c, u \in Int : First(c, u)
  <2> HIDE DEF First
  <2> QED BY <1>8
<1>6. CASE e \notin DOMAIN old
  <2>1. \A v \in from .. p - 1 : e \notin getElements(v)
    BY <1>6 DEF FirstVisits
  <2>2. CASE e \in val
    <3>1. ~ (n > 0 /\ r[n].elements = val)
      <4> SUFFICES ASSUME n > 0, r[n].elements = val PROVE FALSE
        OBVIOUS
      <4>1. e \in getElements(p - 1) /\ p - 1 \in from .. p - 1
        BY <1>5, <2>2
      <4> QED BY <2>1, <4>1
    <3>2. e \in DOMAIN new /\ new[e] = [begin |-> 2 * p, end |-> rounded(p + 1)]
      BY <1>3, <1>4, <1>6, <2>2, <3>1
    <3>3. \A v \in p .. (p + 1) - 1 : e \in getElements(v)
      BY <2>2 DEF val
    <3>4. First(p, p + 1)
      BY <1>1, <2>1, <3>2, <3>3
    <3> QED BY <1>1, <1>8, <3>2, <3>4, Zenon
  <2>3. CASE e \notin val
    <3>1. e \notin DOMAIN new
      BY <1>4, <1>6, <2>3
    <3>2. \A v \in from .. (p + 1) - 1 : e \notin getElements(v)
      <4> SUFFICES ASSUME NEW v \in from .. (p + 1) - 1 PROVE e \notin getElements(v)
        OBVIOUS
      <4>1. CASE v = p
        BY <2>3, <4>1 DEF val
      <4>2. CASE v # p
        BY <2>1, <4>2
      <4> QED BY <4>1, <4>2
    <3> QED BY <3>1, <3>2
  <2> QED BY <2>2, <2>3
<1>7. CASE e \in DOMAIN old
  <2>1. PICK b \in Int, t \in Int :
          /\ from <= b /\ b < t /\ t <= p
          /\ old[e] = [begin |-> 2 * b, end |-> rounded(t)]
          /\ \A v \in from .. b - 1 : e \notin getElements(v)
          /\ \A v \in b .. t - 1 : e \in getElements(v)
          /\ t = p \/ e \notin getElements(t)
    BY <1>7 DEF FirstVisits
  <2>2. e \in DOMAIN new
    BY <1>4, <1>7
  <2>3. meets(p, old[e].end) <=> t = p
    BY <2>1, Rounded, RoundedOnce, SMTT(30)
  <2>4. CASE e \in val /\ t = p
    <3>1. new[e] = [begin |-> 2 * b, end |-> rounded(p + 1)]
      <4>1. new[e] = [old[e] EXCEPT !.end = key.end]
        BY <1>4, <1>7, <2>2, <2>3, <2>4
      <4> QED BY <1>3, <2>1, <4>1
    <3>2. \A v \in b .. (p + 1) - 1 : e \in getElements(v)
      <4> SUFFICES ASSUME NEW v \in b .. (p + 1) - 1 PROVE e \in getElements(v)
        OBVIOUS
      <4>1. CASE v = p
        BY <2>4, <4>1 DEF val
      <4>2. CASE v # p
        BY <2>1, <2>4, <4>2
      <4> QED BY <4>1, <4>2
    <3>3. b < p + 1
      BY <2>1
    <3>4. First(b, p + 1)
      BY <1>1, <2>1, <3>1, <3>2, <3>3
    <3> QED BY <1>1, <1>8, <2>2, <3>4, Zenon
  <2>5. CASE ~ (e \in val /\ t = p)
    <3>1. new[e] = old[e]
      BY <1>4, <1>7, <2>2, <2>3, <2>5
    <3>2. e \notin getElements(t)
      BY <2>1, <2>5 DEF val
    <3>3. t <= p + 1
      BY <2>1
    <3>4. First(b, t)
      BY <2>1, <3>1, <3>2, <3>3
    <3> QED BY <1>8, <2>2, <3>4, Zenon
  <2> QED BY <2>4, <2>5
<1> QED BY <1>6, <1>7

\* The pieces of a step are entered as they are.
LEMMA UnitsFollowed ==
    ASSUME NEW map, IsIndex(map), NEW from \in Int, NEW p \in Int, from <= p,
           Joined(map.ranges, from, p), NEW n \in Nat,
           Met(map.ranges), FirstVisits(map.visits, from, p), resolveSupport
    PROVE  LET after == addedUnits(map, [k \in 1 .. n |-> p + k - 1])
           IN  Met(after.ranges) /\ FirstVisits(after.visits, from, p + n)
<1> DEFINE units == [k \in 1 .. n |-> p + k - 1]
<1>1. Len(units) = n /\ \A k \in 1 .. n : units[k] = p + k - 1
  OBVIOUS
<1> HIDE DEF units
<1>2. PICK g : /\ addedUnits(map, units) = g[n]
               /\ g[0] = map
               /\ \A k \in 1 .. n :
                     g[k] = add(g[k - 1], units[k], units[k] + 1, getElements(units[k]))
  <2>1. Len(units) \in Nat
    BY <1>1
  <2>2. \E g : Stages(g, map, units)
    BY <2>1, UnitsRecursion
  <2> QED BY <1>1, <2>2 DEF Stages
<1> DEFINE Good(m, t) == /\ IsIndex(m) /\ Joined(m.ranges, from, t)
                         /\ Met(m.ranges) /\ FirstVisits(m.visits, from, t)
           T == {k \in 0 .. n : Good(g[k], p + k)}
<1>3. 0 \in T
  <2>1. p + 0 = p
    OBVIOUS
  <2> QED BY <1>2, <2>1
<1>4. ASSUME NEW k \in 0 .. n - 1, k \in T PROVE k + 1 \in T
  <2> DEFINE q == p + k
  <2>1. k + 1 \in 1 .. n /\ k + 1 \in 0 .. n /\ (k + 1) - 1 = k
    OBVIOUS
  <2>2. units[k + 1] = q
    BY <1>1, <2>1
  <2>3. g[k + 1] = add(g[k], q, q + 1, getElements(q))
    BY <1>2, <2>1, <2>2
  <2>4. getElements(q) \in SUBSET Elements
    BY DEF getElements
  <2>5. Good(g[k], q)
    BY <1>4
  <2>6. q \in Int /\ q + 1 \in Int /\ q < q + 1 /\ from <= q /\ q + 1 = p + (k + 1)
    OBVIOUS
  <2>7. \A u \in q .. (q + 1) - 1 : seen(u) = getElements(q)
    BY <2>6 DEF seen
  <2> HIDE DEF q
  <2>8. IsIndex(g[k + 1]) /\ Joined(g[k + 1].ranges, from, q + 1)
    BY <2>3, <2>4, <2>5, <2>6, Added
  <2>9. Met(g[k + 1].ranges)
    BY <2>3, <2>4, <2>5, <2>6, <2>7, MetAdded
  <2>10. FirstVisits(g[k + 1].visits, from, q + 1)
    BY <2>3, <2>5, <2>6, VisitsAdded
  <2>11. Good(g[k + 1], p + (k + 1))
    BY <2>6, <2>8, <2>9, <2>10
  <2> HIDE DEF Good
  <2> QED BY <2>1, <2>11
<1>5. n \in T
  <2> HIDE DEF T
  <2>1. n \in 0 .. n
    OBVIOUS
  <2> QED BY <1>3, <1>4, <2>1, InductionUpTo
<1> QED BY <1>2, <1>5 DEF units

\* The support of the step to come is that of the whole stretch, which is made of
\* whole steps.
InStep ==
    /\ \E k \in Nat : pathLength = first.path + k * StepLength
    /\ \A u \in stretch.from .. pathLength + StepLength - 1 : seen(u) = stretch.elements

\* The index at the end of threading: what the path was entered with, tidied up, and
\* the period of a ring, which is a number of turns.
Complete ==
    /\ \E old \in Seq(Entries) :
          /\ old # <<>> /\ Joined(old, first.path, pathLength) /\ Met(old)
          /\ Tidied(imap.ranges, old, IF launch.ring THEN pathLength ELSE sStop)
    /\ resolveSupport => FirstVisits(imap.visits, first.path, pathLength)
    /\ ~launch.ring => imap.period = 0
    /\ launch.ring => /\ imap.origin = launch.start /\ imap.period > 0
                      /\ imap.period = pathLength - launch.start
                      /\ \E k \in Int : imap.period = k * Circumference

\* What the index says of the path.
Followed ==
    /\ launch.ring /\ phase \in {"back", "turn"} => pathLength <= launch.start
    /\ launch.ring /\ phase \in {"forward", "done"} => first.path <= launch.start
    /\ phase = "forward" => Met(imap.ranges)
    /\ phase = "forward" /\ resolveSupport => FirstVisits(imap.visits, first.path, pathLength)
    /\ phase = "forward" /\ ~resolveSupport => InStep
    /\ phase = "done" => Complete

\* The end of threading tidies up.
LEMMA FinishedTidies ==
    ASSUME NEW map, IsIndex(map), NEW s \in Int, NEW length, sStop \in Int
    PROVE  LET after == finished(map, s, length)
           IN  /\ Tidied(after.ranges, map.ranges, IF launch.ring THEN s ELSE sStop)
               /\ after.visits = map.visits
               /\ ~launch.ring => after.period = map.period
               /\ launch.ring => after.period = length /\ after.origin = launch.start
<1> DEFINE whole == IF launch.ring THEN setPeriod(map, launch.start, length) ELSE map
           stop == IF launch.ring THEN s ELSE sStop
<1>1. /\ IsIndex(whole) /\ whole.ranges = map.ranges /\ whole.visits = map.visits
      /\ ~launch.ring => whole.period = map.period
      /\ launch.ring => whole.period = length /\ whole.origin = launch.start
  <2>1. CASE launch.ring
    <3>1. whole = [map EXCEPT !.origin = launch.start, !.period = length]
      BY <2>1 DEF setPeriod
    <3>2. whole = [ranges |-> map.ranges, visits |-> map.visits,
                   origin |-> launch.start, period |-> length]
      BY <3>1 DEF IsIndex
    <3> QED BY <2>1, <3>2 DEF IsIndex
  <2>2. CASE ~launch.ring
    BY <2>2
  <2> QED BY <2>1, <2>2
<1>2. finished(map, s, length) = tidyUp(whole, stop)
  BY DEF finished
<1>3. stop \in Int
  OBVIOUS
<1> HIDE DEF whole
<1>4. LET after == tidyUp(whole, stop)
      IN  /\ IsIndex(after) /\ Tidied(after.ranges, whole.ranges, stop)
          /\ after.period = whole.period /\ after.origin = whole.origin
          /\ after.visits = whole.visits
  <2> HIDE DEF stop
  <2> QED BY <1>1, <1>3, TidyUpTidies
<1> QED BY <1>1, <1>2, <1>4

LEMMA FollowedInit ==
    ASSUME Init
    PROVE  Followed
<1>1. launch \in Launches /\ launch.start \in Nat
  BY LaunchTypes DEF Init
<1>2. phase \in {"back", "turn"} /\ pathLength = launch.start
  BY DEF Init
<1> QED BY <1>1, <1>2 DEF Followed

LEMMA FollowedStepBack ==
    ASSUME IndexInv, Followed, StepBack
    PROVE  Followed'
<1>1. StepLength \in Nat /\ pathLength \in Int /\ launch.start \in Nat
  BY LaunchTypes DEF IndexInv, Typed
<1>2. /\ phase = "back" /\ phase' \in {"back", "turn"} /\ launch' = launch
      /\ pathLength' = pathLength - StepLength
  BY DEF StepBack, job
<1> QED BY <1>1, <1>2 DEF Followed

\* In the first step forward all is seen at its middle.
LEMMA FirstStep ==
    ASSUME NEW p \in Int, NEW step \in Nat \ {0}, NEW u \in p .. p + step - 1
    PROVE  u - ((u - p) % step) = p
<1> DEFINE r == u - p
<1>1. r \in 0 .. step - 1 /\ r \in Int /\ r = 0 * step + r
  OBVIOUS
<1> HIDE DEF r
<1>2. r % step = r
  BY ONLY step \in Nat \ {0}, <1>1, DividedOnce
<1>3. u - r = p
  BY DEF r
<1> QED BY <1>2, <1>3 DEF r

LEMMA FollowedTurn ==
    ASSUME IndexInv, Followed, TurnForward
    PROVE  Followed'
<1>1. /\ pathLength \in Int /\ StepLength \in Nat \ {0} /\ imap = NewMap
  BY LaunchTypes DEF IndexInv, Typed, Threaded, TurnForward
<1>2. /\ phase = "turn" /\ phase' \in {"forward", "failed"} /\ launch' = launch
      /\ extent' = extent /\ stretch' = stretchFrom(pathLength, 1)
      /\ first'.path = pathLength /\ pathLength' = pathLength /\ imap' = imap
  BY DEF TurnForward, job
<1>3. imap'.ranges = <<>> /\ DOMAIN imap'.visits = {}
  BY <1>1, <1>2 DEF NewMap
<1>4. Met(imap.ranges)'
  BY <1>3 DEF Met
<1>5. FirstVisits(imap.visits, first.path, pathLength)'
  <2>1. \A v \in pathLength .. pathLength - 1 : FALSE
    BY <1>1
  <2> QED BY <1>2, <1>3, <2>1 DEF FirstVisits
<1>6. ASSUME ~resolveSupport' PROVE InStep'
  <2>1. StepLength' = StepLength
    BY <1>2 DEF StepLength
  <2>2. pathLength' = first'.path + 0 * StepLength'
    BY <1>1, <1>2, <2>1
  <2>3. stretch'.from = pathLength
    BY <1>2 DEF stretchFrom
  <2>4. ASSUME NEW u \in pathLength .. pathLength + StepLength - 1
        PROVE  seen(u)' = stretch'.elements
    <3> DEFINE m == pathLength + StepLength \div 2
    <3>1. u - ((u - pathLength) % StepLength) = pathLength
      <4> HIDE DEF StepLength
      <4> QED BY <1>1, FirstStep
    <3>2. getElements(m)' = getElements(m)
      BY <1>2 DEF getElements, StepLength
    <3>3. seen(u)' = getElements(m)'
      BY <1>2, <1>6, <2>1, <3>1 DEF seen
    <3>4. nextMidpointPosition(pathLength, 1) = m
      BY <1>1 DEF nextMidpointPosition
    <3>5. stretch'.elements = getElements(m)
      BY <1>2, <3>4 DEF stretchFrom
    <3> QED BY <3>2, <3>3, <3>5
  <2> QED BY <1>2, <2>1, <2>2, <2>3, <2>4 DEF InStep
<1>7. launch'.ring => first'.path <= launch'.start
  BY <1>2 DEF Followed
<1> QED BY <1>2, <1>4, <1>5, <1>6, <1>7 DEF Followed

\* What is seen of the lattice stays as it is on the way forward.
LEMMA SeenStays ==
    ASSUME launch' = launch, extent' = extent, first' = first
    PROVE  /\ resolveSupport' = resolveSupport /\ StepLength' = StepLength /\ sStop' = sStop
           /\ \A u : seen(u)' = seen(u)
           /\ \A u : getElements(u)' = getElements(u)
<1>1. resolveSupport' = resolveSupport /\ StepLength' = StepLength /\ sStop' = sStop
  BY DEF resolveSupport, StepLength, sStop
<1>2. ASSUME NEW u PROVE getElements(u)' = getElements(u)
  BY DEF getElements
<1>3. ASSUME NEW u PROVE seen(u)' = seen(u)
  BY DEF seen, getElements, resolveSupport, StepLength
<1> QED BY <1>1, <1>2, <1>3

\* All of a step without resolved supports is seen in its middle.
LEMMA StepSeen ==
    ASSUME ~resolveSupport, StepLength \in Nat \ {0}, first.path \in Int, NEW p \in Int,
           NEW k \in Nat, p = first.path + k * StepLength, NEW u \in p .. p + StepLength - 1
    PROVE  seen(u) = stretchFrom(p, 1).elements
<1>1. u - ((u - first.path) % StepLength) = p
  <2> DEFINE step == StepLength
             origin == first.path
  <2>1. /\ step \in Nat \ {0} /\ origin \in Int /\ p = origin + k * step
        /\ u \in p .. p + step - 1
    OBVIOUS
  <2> HIDE DEF step, origin
  <2> DEFINE r == u - p
             g == u - origin
  <2>2. k * step \in Int /\ k \in Int
    BY <2>1
  <2>3. r \in 0 .. step - 1 /\ g \in Int /\ g = k * step + r
    BY <2>1, <2>2
  <2> HIDE DEF g, r
  <2>4. g % step = r
    <3>1. step \in Nat \ {0} /\ k \in Int
      BY <2>1, <2>2
    <3> QED BY ONLY <2>3, <3>1, DividedOnce
  <2>5. u - r = p
    BY DEF r
  <2> QED BY <2>4, <2>5 DEF step, origin, g
<1>2. nextMidpointPosition(p, 1) = p + StepLength \div 2
  BY DEF nextMidpointPosition
<1> QED BY <1>1, <1>2 DEF seen, stretchFrom

LEMMA FollowedPlainStep ==
    ASSUME IndexInv, Followed, PlainStep
    PROVE  Followed'
<1> DEFINE s == pathLength + StepLength
           next == stretchFrom(s, 1)
           added == add(imap, stretch.from, s, stretch.elements)
<1>1. phase = "forward" /\ ~resolveSupport
  BY DEF PlainStep
<1>2. /\ s \in Int /\ first.path < s /\ sStop \in Int /\ ~launch.ring
      /\ IsIndex(added) /\ added.period = 0 /\ added.ranges # <<>>
      /\ Joined(added.ranges, first.path, s)
  BY <1>1, PlainAdds
<1>3. /\ pathLength' = s /\ launch' = launch /\ extent' = extent /\ first' = first
      /\ \/ next.elements = stretch.elements /\ phase' = phase /\ stretch' = stretch /\ imap' = imap
         \/ phase' = "done" /\ imap' = finished(added, s, 0)
         \/ phase' \in {"forward", "failed"} /\ imap' = added /\ stretch' = next
  BY Zenon DEF PlainStep, job
<1>4. /\ pathLength \in Int /\ first.path \in Int /\ stretch.from \in Int
      /\ stretch.from <= pathLength /\ StepLength \in Nat \ {0}
      /\ stretch.elements \in SUBSET Elements /\ IsIndex(imap)
      /\ Joined(imap.ranges, first.path, stretch.from)
  BY <1>1, LaunchTypes DEF IndexInv, Typed, Threaded, joinedTo
<1>5. Met(imap.ranges) /\ InStep
  BY <1>1 DEF Followed
<1>6. \A u \in stretch.from .. pathLength + StepLength - 1 : seen(u) = stretch.elements
  BY <1>5 DEF InStep
<1>7. PICK k \in Nat : pathLength = first.path + k * StepLength
  BY <1>5 DEF InStep
<1>8. k + 1 \in Nat /\ s = first.path + (k + 1) * StepLength
  <2>1. (k + 1) * StepLength = k * StepLength + StepLength /\ k * StepLength \in Int
    BY <1>4
  <2> QED BY <1>4, <1>7, <2>1
<1>9. next.from = s
  BY DEF stretchFrom
<1>10. \A u \in s .. s + StepLength - 1 : seen(u) = next.elements
  <2> HIDE DEF s
  <2> QED BY <1>1, <1>2, <1>4, <1>8, StepSeen
<1>11. Met(added.ranges)
  <2>1. stretch.from < s /\ \A u \in stretch.from .. s - 1 : seen(u) = stretch.elements
    BY <1>4, <1>6
  <2> HIDE DEF s
  <2> QED BY <1>2, <1>4, <1>5, <2>1, MetAdded
<1>12. /\ ~resolveSupport' /\ StepLength' = StepLength /\ sStop' = sStop /\ ~launch'.ring
       /\ \A u : seen(u)' = seen(u)
  BY <1>1, <1>2, <1>3, SeenStays
<1>13. pathLength' = first'.path + (k + 1) * StepLength'
  BY <1>3, <1>8, <1>12
<1>14. s = pathLength + StepLength
  OBVIOUS
<1> HIDE DEF next, added, s
<1>15. CASE next.elements = stretch.elements /\ phase' = phase /\ stretch' = stretch /\ imap' = imap
  <2>1. ASSUME NEW u \in stretch'.from .. pathLength' + StepLength' - 1
        PROVE  seen(u)' = stretch'.elements
    <3>1. u \in stretch.from .. s + StepLength - 1
      BY <1>3, <1>12, <1>15
    <3>2. seen(u) = stretch.elements
      <4>1. CASE u \in stretch.from .. s - 1
        <5>1. u \in stretch.from .. pathLength + StepLength - 1
          BY <1>4, <1>14, <4>1
        <5> QED BY <1>6, <5>1
      <4>2. CASE u \in s .. s + StepLength - 1
        BY <1>10, <1>15, <4>2
      <4> QED BY <1>2, <1>4, <3>1, <4>1, <4>2
    <3> QED BY <1>12, <1>15, <3>2
  <2>2. InStep'
    BY <1>8, <1>13, <2>1 DEF InStep
  <2>3. Met(imap.ranges)'
    BY <1>5, <1>12, <1>15 DEF Met
  <2> QED BY <1>1, <1>12, <1>15, <2>2, <2>3 DEF Followed
<1>16. CASE phase' = "done" /\ imap' = finished(added, s, 0)
  <2>1. /\ Tidied(imap'.ranges, added.ranges, sStop) /\ imap'.period = 0
    BY <1>2, <1>16, FinishedTidies
  <2>2. Joined(added.ranges, first'.path, pathLength')
    BY <1>2, <1>3
  <2>4. added.ranges \in Seq(Entries)
    BY <1>2 DEF IsIndex
  <2>5. Complete'
    <3>1. \E old \in Seq(Entries) :
            /\ old # <<>> /\ Joined(old, first'.path, pathLength')
            /\ \A i \in 1 .. Len(old) : \A a, b \in Int :
                  old[i].begin = 2 * a /\ old[i].end = rounded(b)
                     => \A u \in a .. b - 1 : seen(u)' = old[i].elements
            /\ Tidied(imap'.ranges, old, sStop)
      <4>1. \A i \in 1 .. Len(added.ranges) : \A a, b \in Int :
              added.ranges[i].begin = 2 * a /\ added.ranges[i].end = rounded(b)
                 => \A u \in a .. b - 1 : seen(u)' = added.ranges[i].elements
        BY <1>11, <1>12 DEF Met
      <4> QED BY <1>2, <2>1, <2>2, <2>4, <4>1, Zenon
    <3> QED BY <1>12, <2>1, <3>1 DEF Complete, Met
  <2> QED BY <1>12, <1>16, <2>5 DEF Followed
<1>17. CASE phase' \in {"forward", "failed"} /\ imap' = added /\ stretch' = next
  <2>1. \A u \in stretch'.from .. pathLength' + StepLength' - 1 : seen(u)' = stretch'.elements
    BY <1>3, <1>9, <1>10, <1>12, <1>17
  <2>2. InStep'
    BY <1>8, <1>13, <2>1 DEF InStep
  <2>3. Met(imap.ranges)'
    BY <1>11, <1>12, <1>17 DEF Met
  <2> QED BY <1>12, <1>17, <2>2, <2>3 DEF Followed
<1> QED BY <1>3, <1>15, <1>16, <1>17

LEMMA FollowedResolvedStep ==
    ASSUME IndexInv, Followed, ResolvedStep
    PROVE  Followed'
<1> DEFINE units == resolved(pathLength)
           s == Last(units) + 1
           added == addedUnits(imap, units)
           back == launch.ring /\ returns(s - 1)
           length == IF back THEN s - launch.start ELSE returnLength
           failed == launch.ring /\ (IF back THEN length <= 0 ELSE searchedTooFar(s))
<1>1. phase = "forward" /\ resolveSupport
  BY DEF ResolvedStep
<1>2. /\ s \in Int /\ pathLength < s /\ first.path < s /\ sStop \in Int
      /\ IsIndex(added) /\ added.period = 0 /\ added.ranges # <<>>
      /\ Joined(added.ranges, first.path, s)
  BY <1>1, ResolvedAdds
<1>3. /\ pathLength' = s /\ launch' = launch /\ extent' = extent /\ first' = first
      /\ \/ phase' = "failed"
         \/ ~failed /\ endsIn(s - 1) /\ phase' = "done" /\ imap' = finished(added, s, length)
         \/ phase' \in {"forward", "failed"} /\ imap' = added
  BY <1>1, Zenon DEF ResolvedStep, job
<1>4. /\ pathLength \in Int /\ first.path \in Int /\ first.path <= pathLength
      /\ launch \in Launches /\ launch.start \in Nat /\ StepLength \in Nat \ {0} /\ IsIndex(imap)
      /\ Joined(imap.ranges, first.path, pathLength)
  BY <1>1, LaunchTypes DEF IndexInv, Typed, Threaded, joinedTo
<1>5. /\ Met(imap.ranges) /\ FirstVisits(imap.visits, first.path, pathLength)
      /\ launch.ring => first.path <= launch.start
  BY <1>1 DEF Followed
<1>6. Met(added.ranges) /\ FirstVisits(added.visits, first.path, s)
  <2>1. PICK n \in 1 .. StepLength : resolved(pathLength) = [k \in 1 .. n |-> pathLength + k - 1]
    BY <1>4, Resolved
  <2>2. n \in Nat /\ n > 0
    BY <1>4
  <2>3. units = [k \in 1 .. n |-> pathLength + k - 1]
    BY <2>1
  <2>4. s = pathLength + n
    <3>1. Len(units) = n /\ n \in 1 .. n
      BY <2>2, <2>3
    <3>2. Last(units) = pathLength + n - 1
      BY <2>3, <3>1 DEF Last
    <3> QED BY <1>4, <2>2, <3>2
  <2> HIDE DEF units, s
  <2> QED BY <1>1, <1>4, <1>5, <2>2, <2>3, <2>4, UnitsFollowed
<1>7. /\ resolveSupport' /\ sStop' = sStop
      /\ \A u : seen(u)' = seen(u)
      /\ \A u : getElements(u)' = getElements(u)
  BY <1>1, <1>3, SeenStays
<1>8. ~failed /\ endsIn(s - 1) /\ launch.ring =>
         /\ length > 0 /\ length = s - launch.start
         /\ \E k \in Int : length = k * Circumference
  <2> SUFFICES ASSUME ~failed, endsIn(s - 1), launch.ring
               PROVE  /\ length > 0 /\ length = s - launch.start
                      /\ \E k \in Int : length = k * Circumference
    OBVIOUS
  <2>1. back
    <3>1. (s - 1) + 1 = s
      BY <1>2
    <3> QED BY <3>1 DEF endsIn
  <2>2. length = s - launch.start /\ ~ (length <= 0)
    BY <2>1
  <2> HIDE DEF length, s
  <2>3. \E k \in Int : s - launch.start = k * Circumference
    BY <1>2, <1>4, <2>1, ReturnsAfterTurns
  <2> QED BY <1>2, <1>4, <2>2, <2>3
<1> HIDE DEF units, s, added, length, failed
<1>9. CASE phase' = "failed"
  BY <1>9 DEF Followed
<1>10. CASE /\ ~failed /\ endsIn(s - 1)
            /\ phase' = "done" /\ imap' = finished(added, s, length)
  <2>1. /\ Tidied(imap'.ranges, added.ranges, IF launch.ring THEN s ELSE sStop)
        /\ imap'.visits = added.visits
        /\ ~launch.ring => imap'.period = added.period
        /\ launch.ring => imap'.period = length /\ imap'.origin = launch.start
    BY <1>2, <1>10, FinishedTidies
  <2>2. \E old \in Seq(Entries) :
          /\ old # <<>> /\ Joined(old, first'.path, pathLength')
          /\ \A i \in 1 .. Len(old) : \A a, b \in Int :
                old[i].begin = 2 * a /\ old[i].end = rounded(b)
                   => \A u \in a .. b - 1 : seen(u)' = old[i].elements
          /\ Tidied(imap'.ranges, old, IF launch'.ring THEN pathLength' ELSE sStop')
    <3>1. \A i \in 1 .. Len(added.ranges) : \A a, b \in Int :
            added.ranges[i].begin = 2 * a /\ added.ranges[i].end = rounded(b)
               => \A u \in a .. b - 1 : seen(u)' = added.ranges[i].elements
      BY <1>6, <1>7 DEF Met
    <3>2. Joined(added.ranges, first'.path, pathLength')
      BY <1>2, <1>3
    <3>3. added.ranges \in Seq(Entries)
      BY <1>2 DEF IsIndex
    <3>4. Tidied(imap'.ranges, added.ranges, IF launch'.ring THEN pathLength' ELSE sStop')
      BY <1>3, <1>7, <2>1
    <3> QED BY <1>2, <3>1, <3>2, <3>3, <3>4, Zenon
  <2>3. FirstVisits(imap.visits, first.path, pathLength)'
    BY <1>3, <1>6, <1>7, <2>1 DEF FirstVisits
  <2>4. /\ ~launch'.ring => imap'.period = 0
        /\ launch'.ring => /\ imap'.origin = launch'.start /\ imap'.period > 0
                           /\ imap'.period = pathLength' - launch'.start
                           /\ \E k \in Int : imap'.period = k * Circumference
    BY <1>2, <1>3, <1>8, <1>10, <2>1
  <2>5. Complete'
    BY <2>2, <2>3, <2>4 DEF Complete, Met
  <2> QED BY <1>3, <1>5, <1>10, <2>5 DEF Followed
<1>11. CASE phase' \in {"forward", "failed"} /\ imap' = added
  <2>1. Met(imap.ranges)'
    BY <1>6, <1>7, <1>11 DEF Met
  <2>2. FirstVisits(imap.visits, first.path, pathLength)'
    BY <1>3, <1>6, <1>7, <1>11 DEF FirstVisits
  <2> QED BY <1>3, <1>5, <1>7, <1>11, <2>1, <2>2 DEF Followed
<1> QED BY <1>3, <1>9, <1>10, <1>11

\* What the index says of the path, in every state.
LEMMA FollowedInvariant == Spec => []Followed
<1>1. Init => Followed
  BY FollowedInit
<1>2. IndexInv /\ Followed /\ [Next]_vars => Followed'
  <2> SUFFICES ASSUME IndexInv, Followed, [Next]_vars PROVE Followed'
    OBVIOUS
  <2>1. CASE UNCHANGED vars
    <3>1. /\ launch' = launch /\ extent' = extent /\ first' = first /\ phase' = phase
          /\ pathLength' = pathLength /\ stretch' = stretch /\ imap' = imap
      BY <2>1 DEF vars, job
    <3>2. /\ resolveSupport' = resolveSupport /\ StepLength' = StepLength /\ sStop' = sStop
          /\ \A u : seen(u)' = seen(u)
          /\ \A u : getElements(u)' = getElements(u)
      BY <3>1, SeenStays
    <3>3. Met(imap.ranges) => Met(imap.ranges)'
      BY <3>1, <3>2 DEF Met
    <3>4. FirstVisits(imap.visits, first.path, pathLength)
             => FirstVisits(imap.visits, first.path, pathLength)'
      BY <3>1, <3>2 DEF FirstVisits
    <3>5. InStep => InStep'
      BY <3>1, <3>2 DEF InStep
    <3>6. Complete => Complete'
      <4> SUFFICES ASSUME Complete PROVE Complete'
        OBVIOUS
      <4>1. PICK old \in Seq(Entries) :
              /\ old # <<>> /\ Joined(old, first.path, pathLength) /\ Met(old)
              /\ Tidied(imap.ranges, old, IF launch.ring THEN pathLength ELSE sStop)
        BY DEF Complete
      <4>2. \A i \in 1 .. Len(old) : \A a, b \in Int :
              old[i].begin = 2 * a /\ old[i].end = rounded(b)
                 => \A u \in a .. b - 1 : seen(u)' = old[i].elements
        BY <3>2, <4>1 DEF Met
      <4>3. \E r \in Seq(Entries) :
              /\ r # <<>> /\ Joined(r, first'.path, pathLength')
              /\ \A i \in 1 .. Len(r) : \A a, b \in Int :
                    r[i].begin = 2 * a /\ r[i].end = rounded(b)
                       => \A u \in a .. b - 1 : seen(u)' = r[i].elements
              /\ Tidied(imap'.ranges, r, IF launch'.ring THEN pathLength' ELSE sStop')
        BY <3>1, <3>2, <4>1, <4>2, Zenon
      <4>4. /\ ~launch'.ring => imap'.period = 0
            /\ launch'.ring => /\ imap'.origin = launch'.start /\ imap'.period > 0
                               /\ imap'.period = pathLength' - launch'.start
                               /\ \E k \in Int : imap'.period = k * Circumference
        BY <3>1 DEF Complete
      <4>5. resolveSupport' => FirstVisits(imap.visits, first.path, pathLength)'
        BY <3>2, <3>4 DEF Complete
      <4> QED BY <4>3, <4>4, <4>5 DEF Complete, Met
    <3> QED BY <3>1, <3>2, <3>3, <3>4, <3>5, <3>6 DEF Followed
  <2> QED BY <2>1, FollowedStepBack, FollowedTurn, FollowedPlainStep, FollowedResolvedStep
          DEF Next
<1> QED BY <1>1, <1>2, IndexInvariant, PTL DEF Spec

-----------------------------------------------------------------------------
(* What a query answers.                                                    *)

\* Entries one after the other, in their begins and in their ends.
Sorted(r) ==
    /\ \A i \in 1 .. Len(r) : r[i].begin < r[i].end
    /\ \A i \in 1 .. Len(r) - 1 : r[i].begin <= r[i + 1].begin /\ r[i].end <= r[i + 1].end

LEMMA SortedPairwise ==
    ASSUME NEW r \in Seq(Entries), Sorted(r)
    PROVE  \A i, j \in 1 .. Len(r) :
              i <= j => r[i].begin <= r[j].begin /\ r[i].end <= r[j].end
<1> DEFINE T == {d \in Nat : \A i \in 1 .. Len(r) :
                    i + d <= Len(r) => /\ r[i].begin <= r[i + d].begin
                                       /\ r[i].end <= r[i + d].end}
<1>1. Len(r) \in Nat /\ \A i \in 1 .. Len(r) : r[i].begin \in Int /\ r[i].end \in Int
  <2>1. \A i \in 1 .. Len(r) : r[i] \in Entries
    OBVIOUS
  <2> QED BY <2>1 DEF Entries
<1>2. 0 \in T
  <2>1. \A i \in 1 .. Len(r) : i + 0 = i
    BY <1>1
  <2> QED BY <1>1, <2>1
<1>3. ASSUME NEW d \in Nat, d \in T PROVE d + 1 \in T
  <2> SUFFICES ASSUME NEW i \in 1 .. Len(r), i + (d + 1) <= Len(r)
               PROVE  r[i].begin <= r[i + (d + 1)].begin /\ r[i].end <= r[i + (d + 1)].end
    OBVIOUS
  <2> DEFINE k == i + d
  <2>1. k \in 1 .. Len(r) - 1 /\ k \in 1 .. Len(r) /\ k + 1 \in 1 .. Len(r) /\ i + (d + 1) = k + 1
    BY <1>1
  <2>2. r[i].begin <= r[k].begin /\ r[i].end <= r[k].end
    BY <1>1, <1>3, <2>1
  <2> HIDE DEF k
  <2>3. r[k].begin <= r[k + 1].begin /\ r[k].end <= r[k + 1].end
    BY <2>1 DEF Sorted
  <2>4. r[i].begin <= r[k + 1].begin /\ r[i].end <= r[k + 1].end
    BY <1>1, <2>1, <2>2, <2>3
  <2> QED BY <2>1, <2>4, Zenon
<1> HIDE DEF T
<1>4. Nat \subseteq T
  BY <1>2, <1>3, Induction
<1> SUFFICES ASSUME NEW i \in 1 .. Len(r), NEW j \in 1 .. Len(r), i <= j
             PROVE  r[i].begin <= r[j].begin /\ r[i].end <= r[j].end
  OBVIOUS
<1>5. j - i \in T /\ i + (j - i) = j
  BY <1>1, <1>4
<1> USE DEF T
<1> QED BY <1>1, <1>5

\* Joined entries are sorted.
LEMMA JoinedSorted ==
    ASSUME NEW old \in Seq(Entries), NEW from \in Int, NEW to \in Int, Joined(old, from, to)
    PROVE  Sorted(old)
<1>1. ASSUME NEW j \in 1 .. Len(old) PROVE old[j].begin < old[j].end
  <2>1. Ascending(old) /\ j \in DOMAIN old
    BY JoinedAscends
  <2> QED BY <2>1 DEF Ascending
<1>2. ASSUME NEW j \in 1 .. Len(old) - 1
      PROVE  old[j].begin <= old[j + 1].begin /\ old[j].end <= old[j + 1].end
  <2>1. j \in 1 .. Len(old) /\ j + 1 \in 1 .. Len(old) /\ j < Len(old)
    OBVIOUS
  <2>2. PICK c \in Int, d \in Int :
          /\ c < d /\ old[j].begin = 2 * c /\ old[j].end = rounded(d)
          /\ old[j + 1].begin = 2 * d
    BY <2>1 DEF Joined
  <2>3. PICK e \in Int, f \in Int :
          e < f /\ old[j + 1].begin = 2 * e /\ old[j + 1].end = rounded(f)
    BY <2>1 DEF Joined
  <2>4. rounded(d) <= rounded(f)
    BY <2>2, <2>3, RoundedOnce
  <2> QED BY <2>2, <2>3, <2>4
<1> QED BY <1>1, <1>2 DEF Sorted

\* They are so too when tidied up.
LEMMA TidiedSorted ==
    ASSUME NEW old \in Seq(Entries), NEW from \in Int, NEW to \in Int, Joined(old, from, to),
           NEW stop \in Int, NEW r, Tidied(r, old, stop)
    PROVE  Sorted(r)
<1>1. ASSUME NEW i \in 1 .. Len(old) PROVE r[i].begin < r[i].end
  <2>1. Ascending(r)
    BY TidiedAscends
  <2>2. DOMAIN r = 1 .. Len(old)
    BY DEF Tidied
  <2> QED BY <2>1, <2>2 DEF Ascending
<1>2. ASSUME NEW i \in 1 .. Len(old) - 1
      PROVE  r[i].begin <= r[i + 1].begin /\ r[i].end <= r[i + 1].end
  <2>1. i \in 1 .. Len(old) /\ i + 1 \in 1 .. Len(old) /\ i < Len(old) /\ i # Len(old)
    OBVIOUS
  <2>2. PICK a \in Int, b \in Int :
          /\ a < b /\ old[i].begin = 2 * a /\ old[i].end = rounded(b)
          /\ old[i + 1].begin = 2 * b
    BY <2>1 DEF Joined
  <2>3. old[i].begin <= old[i + 1].begin /\ old[i].end <= old[i + 1].end
    BY JoinedSorted DEF Sorted
  <2>4. /\ r[i].begin = old[i].begin /\ r[i].end = old[i].end
        /\ r[i + 1].begin = old[i + 1].begin
        /\ \/ r[i + 1].end = old[i + 1].end
           \/ r[i + 1].end = 2 * stop /\ r[i + 1].begin < 2 * stop
    BY <2>1 DEF Tidied
  <2>5. 2 * b < 2 * stop => rounded(b) <= 2 * stop
    BY DEF rounded
  <2> QED BY <2>2, <2>3, <2>4, <2>5
<1>3. Len(r) = Len(old)
  BY DEF Tidied
<1> QED BY <1>1, <1>2, <1>3 DEF Sorted

\* The scan starts in front of all that reaches behind the lower limit.
LEMMA ScanStarts ==
    ASSUME NEW r \in Seq(Entries), Sorted(r), NEW lower \in Int
    PROVE  /\ scanStart(r, lower) \in Nat \ {0}
           /\ \A i \in 1 .. Len(r) : 2 * lower < r[i].end => scanStart(r, lower) <= i
<1> DEFINE before(e) == e.begin < 2 * lower \/ (e.begin = 2 * lower /\ e.end < 2 * lower)
           Bound(n) == /\ \A k \in 1 .. n - 1 : before(r[k])
                       /\ n <= Len(r) => ~before(r[n])
           bound == CHOOSE n \in 1 .. Len(r) + 1 : Bound(n)
           Start(n) == /\ \A k \in n .. bound - 1 : r[k].end > 2 * lower
                       /\ n > 1 => r[n - 1].end <= 2 * lower
           start == CHOOSE n \in 1 .. bound : Start(n)
<1>1. Len(r) \in Nat /\ \A i \in 1 .. Len(r) : r[i].begin \in Int /\ r[i].end \in Int
  <2>1. \A i \in 1 .. Len(r) : r[i] \in Entries
    OBVIOUS
  <2> QED BY <2>1 DEF Entries
<1>2. \E n \in 1 .. Len(r) + 1 : Bound(n)
  <2> DEFINE T == {n \in 1 .. Len(r) + 1 : n <= Len(r) => ~before(r[n])}
  <2>1. Len(r) + 1 \in T /\ T \subseteq Nat
    BY <1>1
  <2>2. PICK n \in T : \A m \in T : n <= m
    <3> HIDE DEF T
    <3> QED BY <2>1, Least
  <2>3. ASSUME NEW k \in 1 .. n - 1 PROVE before(r[k])
    <3> HIDE DEF before
    <3>1. k \in 1 .. Len(r) + 1 /\ k <= Len(r) /\ ~ (n <= k)
      BY <1>1, <2>2
    <3>2. k \notin T
      BY <2>2, <3>1
    <3> QED BY <3>1, <3>2
  <2> HIDE DEF before
  <2> QED BY <2>2, <2>3
<1>3. bound \in 1 .. Len(r) + 1
  <2> HIDE DEF Bound
  <2> QED BY <1>2
<1> HIDE DEF bound
<1>4. \E n \in 1 .. bound : Start(n)
  <2> DEFINE T == {n \in 1 .. bound : \A k \in n .. bound - 1 : r[k].end > 2 * lower}
  <2>1. bound \in T /\ T \subseteq Nat
    BY <1>1, <1>3
  <2>2. PICK n \in T : \A m \in T : n <= m
    <3> HIDE DEF T
    <3> QED BY <2>1, Least
  <2>3. ASSUME n > 1 PROVE r[n - 1].end <= 2 * lower
    <3>1. n \in 1 .. bound /\ n - 1 \in 1 .. bound /\ n - 1 \in 1 .. Len(r) /\ ~ (n <= n - 1)
      BY <1>1, <1>3, <2>2, <2>3
    <3>2. n - 1 \notin T
      BY <2>2, <3>1
    <3>3. PICK k \in n - 1 .. bound - 1 : ~ (r[k].end > 2 * lower)
      BY <3>1, <3>2
    <3>4. k \notin n .. bound - 1
      BY <2>2, <3>3
    <3>5. k = n - 1
      BY <1>1, <1>3, <3>1, <3>3, <3>4
    <3> QED BY <1>1, <3>1, <3>3, <3>5
  <2> QED BY <2>2, <2>3
<1>5. start \in 1 .. bound /\ Start(start)
  <2> HIDE DEF Start
  <2> QED BY <1>4
<1>6. scanStart(r, lower) = start
  BY DEF scanStart, bound
<1> HIDE DEF start
<1>7. ASSUME NEW i \in 1 .. Len(r), 2 * lower < r[i].end PROVE start <= i
  <2> SUFFICES ASSUME i < start PROVE FALSE
    BY <1>1, <1>3, <1>5
  <2>1. start > 1 /\ start - 1 \in 1 .. Len(r) /\ i <= start - 1
    BY <1>1, <1>3, <1>5
  <2>2. r[start - 1].end <= 2 * lower
    BY <1>5, <2>1
  <2>3. r[i].end <= r[start - 1].end
    BY <2>1, SortedPairwise
  <2> QED BY <1>1, <1>7, <2>1, <2>2, <2>3
<1> QED BY <1>1, <1>3, <1>5, <1>6, <1>7

\* A query answers with the entries that begin and end around the interval.
LEMMA Queried ==
    ASSUME NEW map, map.ranges \in Seq(Entries), Sorted(map.ranges),
           NEW lower \in Int, NEW upper \in Int
    PROVE  \A e : e \in queryRange(map, lower, upper) <=>
                  \E i \in 1 .. Len(map.ranges) :
                     /\ map.ranges[i].begin <= 2 * upper /\ 2 * lower < map.ranges[i].end
                     /\ e \in map.ranges[i].elements
<1> DEFINE r == map.ranges
           start == scanStart(r, lower)
           scanned == {i \in start .. Len(r) : \A k \in start .. i : r[k].begin <= 2 * upper}
           reached == {i \in scanned : \E k \in start .. i : 2 * lower < r[k].end}
           meant == {j \in 1 .. Len(r) : r[j].begin <= 2 * upper /\ 2 * lower < r[j].end}
<1>1. Len(r) \in Nat /\ \A i \in 1 .. Len(r) : r[i].begin \in Int /\ r[i].end \in Int
  <2>1. \A i \in 1 .. Len(r) : r[i] \in Entries
    OBVIOUS
  <2> QED BY <2>1 DEF Entries
<1>2. start \in Nat \ {0} /\ \A i \in 1 .. Len(r) : 2 * lower < r[i].end => start <= i
  BY ScanStarts
<1>3. \A i, j \in 1 .. Len(r) : i <= j => r[i].begin <= r[j].begin /\ r[i].end <= r[j].end
  BY SortedPairwise
<1>4. queryRange(map, lower, upper) = UNION {r[i].elements : i \in reached}
  BY DEF queryRange
<1> HIDE DEF start, r
<1>5. ASSUME NEW i \in reached PROVE i \in meant
  <2>1. i \in start .. Len(r) /\ i \in 1 .. Len(r) /\ i \in start .. i
    BY <1>1, <1>2
  <2>2. r[i].begin <= 2 * upper
    BY <2>1
  <2>3. PICK k \in start .. i : 2 * lower < r[k].end
    OBVIOUS
  <2>4. k \in 1 .. Len(r) /\ k <= i
    BY <1>1, <1>2, <2>1
  <2>5. 2 * lower < r[i].end
    BY <1>1, <1>3, <2>1, <2>3, <2>4
  <2> QED BY <2>1, <2>2, <2>5
<1>6. ASSUME NEW i \in meant PROVE i \in reached
  <2>1. i \in start .. Len(r) /\ i \in start .. i /\ i \in 1 .. Len(r)
    BY <1>1, <1>2
  <2>2. ASSUME NEW k \in start .. i PROVE r[k].begin <= 2 * upper
    <3>1. k \in 1 .. Len(r) /\ k <= i
      BY <1>1, <1>2, <2>1
    <3> QED BY <1>1, <1>3, <2>1, <3>1
  <2> QED BY <2>1, <2>2
<1>7. reached = meant
  <2> HIDE DEF reached, meant
  <2> QED BY <1>5, <1>6
<1> HIDE DEF reached, meant
<1>8. queryRange(map, lower, upper) = UNION {r[i].elements : i \in meant}
  BY <1>4, <1>7
<1> QED BY <1>8 DEF meant, r

\* Every unit of the path is in an entry.
LEMMA EntryOfUnit ==
    ASSUME NEW old \in Seq(Entries), old # <<>>, NEW from \in Int, NEW to \in Int,
           Joined(old, from, to), NEW u \in from .. to - 1
    PROVE  \E i \in 1 .. Len(old) : \E a, b \in Int :
              old[i].begin = 2 * a /\ old[i].end = rounded(b) /\ a <= u /\ u < b
<1> DEFINE n == Len(old)
           T == {i \in 1 .. n : rounded(u) < old[i].end}
<1>1. n \in Nat /\ n > 0 /\ n \in 1 .. n
  OBVIOUS
<1>2. n \in T
  <2>1. old[n].end = rounded(to) /\ u < to /\ u \in Int
    BY DEF Joined
  <2>2. rounded(u) < old[n].end
    BY <2>1, Rounded, RoundedOnce
  <2> QED BY <1>1, <2>2
<1>3. PICK i \in T : \A j \in T : i <= j
  <2>1. T \subseteq Nat
    OBVIOUS
  <2> HIDE DEF T
  <2> QED BY <1>2, <2>1, Least
<1>4. i \in 1 .. n /\ rounded(u) < old[i].end
  BY <1>3
<1>5. PICK a \in Int, b \in Int : a < b /\ old[i].begin = 2 * a /\ old[i].end = rounded(b)
  BY <1>4 DEF Joined
<1>6. u < b
  BY <1>4, <1>5, Rounded, RoundedOnce, SMTT(30)
<1>7. a <= u
  <2>1. CASE i = 1
    <3>1. old[1].begin = 2 * from
      BY DEF Joined
    <3> QED BY <1>5, <2>1, <3>1
  <2>2. CASE i # 1
    <3>1. i - 1 \in 1 .. n /\ i - 1 < n /\ (i - 1) + 1 = i /\ ~ (i <= i - 1)
      BY <1>1, <1>4, <2>2
    <3> HIDE DEF n
    <3>2. PICK c \in Int, d \in Int :
            old[i - 1].end = rounded(d) /\ old[i].begin = 2 * d
      BY <3>1 DEF Joined, n
    <3>3. ~ (rounded(u) < rounded(d))
      BY <1>3, <3>1, <3>2
    <3>4. d <= u
      BY <3>3, Rounded, RoundedOnce
    <3> QED BY <1>5, <3>2, <3>4
  <2> QED BY <2>1, <2>2
<1> QED BY <1>4, <1>5, <1>6, <1>7

\* Every entry is on the path.
LEMMA EntryOnPath ==
    ASSUME NEW old \in Seq(Entries), NEW from \in Int, NEW to \in Int, Joined(old, from, to),
           NEW i \in 1 .. Len(old)
    PROVE  \E a, b \in Int : /\ a < b /\ old[i].begin = 2 * a /\ old[i].end = rounded(b)
                             /\ from <= a /\ b <= to
<1>1. PICK a \in Int, b \in Int : a < b /\ old[i].begin = 2 * a /\ old[i].end = rounded(b)
  BY DEF Joined
<1>4. \A j, k \in 1 .. Len(old) :
         j <= k => old[j].begin <= old[k].begin /\ old[j].end <= old[k].end
  BY JoinedSorted, SortedPairwise
<1>5. Len(old) \in Nat /\ 1 \in 1 .. Len(old) /\ Len(old) \in 1 .. Len(old) /\ old # <<>>
  OBVIOUS
<1>6. old[1].begin = 2 * from /\ old[Len(old)].end = rounded(to)
  BY <1>5 DEF Joined
<1>7. 2 * from <= 2 * a /\ rounded(b) <= rounded(to)
  BY <1>1, <1>4, <1>5, <1>6
<1>8. from <= a /\ b <= to
  BY <1>7, RoundedOnce
<1> QED BY <1>1, <1>8

\* What is seen in the interval is in the answer.
LEMMA AnswerComplete ==
    ASSUME NEW map, IsIndex(map), NEW old \in Seq(Entries), old # <<>>, NEW from \in Int,
           NEW to \in Int, Joined(old, from, to), Met(old), NEW stop \in Int,
           Tidied(map.ranges, old, stop), NEW lower \in Int, NEW upper \in Int,
           NEW u \in lower .. upper, u \in from .. to - 1
    PROVE  seen(u) \subseteq queryRange(map, lower, upper)
<1> DEFINE r == map.ranges
<1>1. Sorted(r) /\ r \in Seq(Entries)
  BY TidiedSorted DEF IsIndex
<1>5. \A e : e \in queryRange(map, lower, upper) <=>
                \E j \in 1 .. Len(r) : /\ r[j].begin <= 2 * upper /\ 2 * lower < r[j].end
                                       /\ e \in r[j].elements
  BY <1>1, Queried
<1>2. PICK i \in 1 .. Len(old), a \in Int, b \in Int :
        old[i].begin = 2 * a /\ old[i].end = rounded(b) /\ a <= u /\ u < b
  BY EntryOfUnit
<1>3. seen(u) = old[i].elements
  BY <1>2 DEF Met
<1>4. /\ Len(r) = Len(old) /\ r[i].begin = old[i].begin /\ r[i].elements = old[i].elements
      /\ r[i].end = old[i].end \/ r[i].elements = {}
  BY DEF Tidied
<1>6. CASE seen(u) = {}
  BY <1>6
<1>7. CASE r[i].end = old[i].end
  <2>1. 2 * u < rounded(b)
    BY <1>2, Rounded
  <2>2. rounded(b) \in Int
    BY Rounded
  <2>3. r[i].begin <= 2 * upper /\ 2 * lower < r[i].end
    BY <1>2, <1>4, <1>7, <2>1, <2>2
  <2>4. i \in 1 .. Len(r)
    BY <1>4
  <2> HIDE DEF r
  <2> QED BY <1>3, <1>4, <1>5, <2>3, <2>4
<1> QED BY <1>3, <1>4, <1>6, <1>7

\* What is in the answer is seen in the interval, if it does not begin where an entry
\* in front of position 0 ends.
LEMMA AnswerSound ==
    ASSUME NEW map, IsIndex(map), NEW old \in Seq(Entries), old # <<>>, NEW from \in Int,
           NEW to \in Int, Joined(old, from, to), Met(old), NEW stop \in Int,
           Tidied(map.ranges, old, stop), NEW lower \in Int, NEW upper \in Int,
           lower <= upper,
           \A i \in 1 .. Len(old) : \A b \in Int :
              old[i].end = rounded(b) /\ old[i].elements # {} => b >= 0 \/ lower # b,
           NEW e \in queryRange(map, lower, upper)
    PROVE  \E u \in lower .. upper : u \in from .. to - 1 /\ e \in seen(u)
<1> DEFINE r == map.ranges
<1>1. Sorted(r) /\ r \in Seq(Entries)
  BY TidiedSorted DEF IsIndex
<1>2. \A d : d \in queryRange(map, lower, upper) <=>
                \E j \in 1 .. Len(r) : /\ r[j].begin <= 2 * upper /\ 2 * lower < r[j].end
                                       /\ d \in r[j].elements
  BY <1>1, Queried
<1>3. PICK i \in 1 .. Len(r) : /\ r[i].begin <= 2 * upper /\ 2 * lower < r[i].end
                               /\ e \in r[i].elements
  <2> HIDE DEF r
  <2> QED BY <1>2
<1>4. /\ i \in 1 .. Len(old) /\ r[i].begin = old[i].begin
      /\ r[i].elements = old[i].elements /\ r[i].end = old[i].end
  BY <1>3 DEF Tidied
<1>5. PICK a \in Int, b \in Int : /\ a < b /\ old[i].begin = 2 * a /\ old[i].end = rounded(b)
                                  /\ from <= a /\ b <= to
  BY <1>4, EntryOnPath
<1>6. a <= upper /\ 2 * lower < rounded(b) /\ (b >= 0 \/ lower # b)
  BY <1>3, <1>4, <1>5
<1>7. lower < b
  BY <1>6 DEF rounded
<1> DEFINE u == IF a <= lower THEN lower ELSE a
<1>8. u \in a .. b - 1 /\ u \in lower .. upper /\ u \in from .. to - 1
  BY <1>5, <1>6, <1>7
<1>9. seen(u) = old[i].elements
  <2> HIDE DEF u
  <2> QED BY <1>4, <1>5, <1>8 DEF Met
<1> HIDE DEF u
<1> QED BY <1>3, <1>4, <1>8, <1>9

-----------------------------------------------------------------------------
(* The answers after threading.                                             *)

\* The entries at the end of threading, before they were tidied up.
PathEntries(old, stop) ==
    /\ old \in Seq(Entries) /\ stop \in Int /\ old # <<>>
    /\ Joined(old, first.path, pathLength) /\ Met(old) /\ Tidied(imap.ranges, old, stop)
    /\ launch.ring => stop = pathLength

LEMMA Threading ==
    ASSUME IndexInv, Followed, phase = "done"
    PROVE  /\ launch \in Launches /\ extent \in [Elements -> Extents] /\ IsIndex(imap)
           /\ first.path \in Int /\ pathLength \in Int /\ launch.start \in Nat
           /\ StepLength \in Nat \ {0} /\ Circumference \in Nat \ {0}
           /\ imap.ranges \in Seq(Entries)
           /\ \E old, stop : PathEntries(old, stop)
<1>1. /\ launch \in Launches /\ extent \in [Elements -> Extents] /\ IsIndex(imap)
      /\ first.path \in Int /\ pathLength \in Int /\ launch.start \in Nat
      /\ StepLength \in Nat \ {0} /\ sStop \in Int
  BY LaunchTypes DEF IndexInv, Typed
<1>2. Complete
  BY DEF Followed
<1>3. PICK old \in Seq(Entries) :
        /\ old # <<>> /\ Joined(old, first.path, pathLength) /\ Met(old)
        /\ Tidied(imap.ranges, old, IF launch.ring THEN pathLength ELSE sStop)
  BY <1>2 DEF Complete
<1>4. PathEntries(old, IF launch.ring THEN pathLength ELSE sStop)
  BY <1>1, <1>3 DEF PathEntries
<1>5. Circumference \in Nat \ {0} /\ imap.ranges \in Seq(Entries)
  BY <1>1, ThreaderAssumption DEF IsIndex
<1>6. \E o, stop : PathEntries(o, stop)
  BY <1>4
<1> QED BY <1>1, <1>5, <1>6

\* The answer for an interval, when supports are resolved: what is on the path there.
LEMMA AnswerExact ==
    ASSUME IndexInv, Followed, phase = "done", resolveSupport,
           NEW lower \in Int, NEW upper \in Int, lower <= upper,
           lower >= 0 \/ (~launch.ring /\ \A x \in Extents : x.begin >= -1)
    PROVE  \A e : e \in queryRange(imap, lower, upper) <=>
                     \E u \in lower .. upper :
                        u \in first.path .. pathLength - 1 /\ e \in getElements(u)
<1>1. /\ extent \in [Elements -> Extents] /\ IsIndex(imap)
      /\ first.path \in Int /\ pathLength \in Int
  BY Threading
<1>2. PICK old, stop : PathEntries(old, stop)
  BY Threading
<1>3. /\ old \in Seq(Entries) /\ stop \in Int /\ old # <<>>
      /\ Joined(old, first.path, pathLength) /\ Met(old) /\ Tidied(imap.ranges, old, stop)
  BY <1>2 DEF PathEntries
<1>4. \A u : seen(u) = getElements(u)
  BY DEF seen
<1>5. ASSUME NEW i \in 1 .. Len(old), NEW b \in Int,
             old[i].end = rounded(b), old[i].elements # {}
      PROVE  b >= 0 \/ lower # b
  <2>1. CASE lower >= 0
    BY <2>1
  <2>2. CASE ~launch.ring /\ \A x \in Extents : x.begin >= -1
    <3>1. PICK a \in Int, d \in Int : a < d /\ old[i].begin = 2 * a /\ old[i].end = rounded(d)
      BY <1>3 DEF Joined
    <3>2. d = b
      BY <1>5, <3>1, RoundedOnce
    <3>3. b - 1 \in a .. b - 1
      BY <3>1, <3>2
    <3>4. getElements(b - 1) # {}
      BY <1>3, <1>4, <1>5, <3>1, <3>2, <3>3 DEF Met
    <3>5. PICK e \in getElements(b - 1) : TRUE
      BY <3>4
    <3>6. e \in Elements /\ (b - 1) - extent[e].begin \in 0 .. extent[e].length - 1
      BY <2>2, <3>5 DEF getElements
    <3>7. extent[e] \in Extents
      BY <1>1, <3>6
    <3>8. extent[e].begin >= -1 /\ extent[e].begin \in Int /\ extent[e].length \in Nat
      BY <2>2, <3>7, ThreaderAssumption
    <3> QED BY <3>6, <3>8
  <2> QED BY <2>1, <2>2
<1>6. ASSUME NEW e, e \in queryRange(imap, lower, upper)
      PROVE  \E u \in lower .. upper : u \in first.path .. pathLength - 1 /\ e \in getElements(u)
  <2>1. \E u \in lower .. upper : u \in first.path .. pathLength - 1 /\ e \in seen(u)
    BY <1>1, <1>3, <1>5, <1>6, AnswerSound
  <2> QED BY <1>4, <2>1
<1>7. ASSUME NEW e, NEW u \in lower .. upper, u \in first.path .. pathLength - 1,
             e \in getElements(u)
      PROVE  e \in queryRange(imap, lower, upper)
  <2>1. seen(u) \subseteq queryRange(imap, lower, upper)
    BY <1>1, <1>3, <1>7, AnswerComplete
  <2> QED BY <1>4, <1>7, <2>1
<1> QED BY <1>6, <1>7

LEMMA LineExact ==
    ASSUME IndexInv, Followed, phase = "done", resolveSupport, ~launch.ring,
           \A x \in Extents : x.begin >= -1,
           NEW s \in Int, NEW ds \in Nat
    PROVE  query(imap, s, ds) = onPath(s - ds, s + ds)
<1>1. imap.period = 0
  BY DEF Followed, Complete
<1>2. intervals(imap, s, ds) = {<<s - ds, s + ds>>} /\ ~wholeTurn(imap, ds)
  BY <1>1 DEF intervals, wholeTurn
<1>3. query(imap, s, ds) = queryRange(imap, s - ds, s + ds)
  BY <1>2 DEF query
<1> DEFINE lower == s - ds
           upper == s + ds
<1>4. lower \in Int /\ upper \in Int /\ lower <= upper
  OBVIOUS
<1> HIDE DEF lower, upper
<1>5. \A e : e \in queryRange(imap, lower, upper) <=>
                \E u \in lower .. upper :
                   u \in first.path .. pathLength - 1 /\ e \in getElements(u)
  BY <1>4, AnswerExact
<1>6. queryRange(imap, lower, upper) = onPath(lower, upper)
  BY <1>5 DEF onPath
<1> QED BY <1>3, <1>6 DEF lower, upper

\* Turns of the orbit meet the same elements.
LEMMA Periodic ==
    ASSUME launch.ring, extent \in [Elements -> Extents], NEW u \in Int, NEW j \in Int
    PROVE  getElements(u + j * Circumference) = getElements(u)
<1> DEFINE C == Circumference
<1>1. C \in Nat \ {0}
  BY ThreaderAssumption
<1> HIDE DEF C
<1>2. ASSUME NEW e \in Elements
      PROVE  ((u + j * C) - extent[e].begin) % C = (u - extent[e].begin) % C
  <2> DEFINE d == u - extent[e].begin
             q == d \div C
             r == d % C
             g == (u + j * C) - extent[e].begin
             t == q + j
  <2>1. d \in Int
    BY ThreaderAssumption
  <2>2. q \in Int /\ r \in 0 .. C - 1 /\ d = q * C + r
    BY <1>1, <2>1, Divided
  <2>3. extent[e].begin \in Int /\ j * C \in Int
    BY <1>1, ThreaderAssumption
  <2>4. g = d + j * C
    BY <2>3
  <2> HIDE DEF d, q, r, g
  <2>5. t \in Int /\ t * C = q * C + j * C /\ q * C \in Int
    BY <1>1, <2>2
  <2>6. g \in Int /\ g = t * C + r
    BY <1>1, <2>1, <2>2, <2>3, <2>4, <2>5
  <2> HIDE DEF t
  <2>7. g % C = r
    BY ONLY <1>1, <2>2, <2>5, <2>6, DividedOnce
  <2> QED BY <2>7 DEF g, r, d
<1>3. \A e \in Elements :
         (u + j * C) - extent[e].begin \in Int /\ u - extent[e].begin \in Int
  BY <1>1, ThreaderAssumption
<1> QED BY <1>2 DEF getElements, C

\* Every unit has its like in any turn.
LEMMA InTurn ==
    ASSUME NEW u \in Int, NEW lower \in Int
    PROVE  \E j \in Int : u + j * Circumference \in lower .. lower + Circumference - 1
<1> DEFINE C == Circumference
           d == u - lower
           q == d \div C
           r == d % C
<1>1. C \in Nat \ {0} /\ d \in Int
  BY ThreaderAssumption
<1>2. q \in Int /\ r \in 0 .. C - 1 /\ d = q * C + r
  BY <1>1, Divided
<1> HIDE DEF q, r, C
<1>3. (-q) * C = -(q * C) /\ q * C \in Int /\ -q \in Int
  BY <1>1, <1>2
<1>4. u + (-q) * C = lower + r
  BY <1>1, <1>2, <1>3
<1>5. u + (-q) * C \in lower .. lower + C - 1
  BY <1>1, <1>2, <1>4
<1> QED BY <1>3, <1>5 DEF C

\* A ring as it is threaded: its index starts at the launch or behind, and its period
\* is a number of turns.
LEMMA ThreadedRing ==
    ASSUME IndexInv, Followed, phase = "done", launch.ring
    PROVE  /\ imap.origin = launch.start /\ launch.start \in Nat
           /\ imap.period \in Nat \ {0} /\ Circumference \in Nat \ {0}
           /\ pathLength = launch.start + imap.period /\ pathLength \in Int
           /\ first.path \in Int /\ first.path <= launch.start
           /\ Circumference <= imap.period
           /\ \E k \in Int : imap.period = k * Circumference
<1>1. /\ launch.start \in Nat /\ Circumference \in Nat \ {0}
      /\ pathLength \in Int /\ first.path \in Int
  BY Threading
<1>2. /\ imap.origin = launch.start /\ imap.period > 0
      /\ imap.period = pathLength - launch.start
      /\ first.path <= launch.start
  BY DEF Followed, Complete
<1>3. PICK k \in Int : imap.period = k * Circumference
  BY DEF Followed, Complete
<1>4. imap.period \in Nat \ {0} /\ pathLength = launch.start + imap.period
  BY <1>1, <1>2
<1>5. k > 0
  <2> SUFFICES ASSUME k <= 0 PROVE FALSE
    OBVIOUS
  <2>1. 0 * Circumference = 0 /\ k * Circumference \in Int /\ k # 0
    BY <1>1, <1>3, <1>4
  <2>2. k * Circumference + Circumference <= 0 * Circumference
    BY <1>1, <2>1, MultiplesGrow
  <2> QED BY <1>1, <1>3, <1>4, <2>1, <2>2
<1>6. 0 * Circumference + Circumference <= k * Circumference /\ 0 * Circumference = 0
  BY <1>1, <1>5, MultiplesGrow
<1>7. Circumference <= imap.period
  BY <1>1, <1>3, <1>4, <1>6
<1>8. \E j \in Int : imap.period = j * Circumference
  BY <1>3
<1> QED BY <1>1, <1>2, <1>4, <1>7, <1>8

\* The same, in turns of the stored period.
LEMMA PeriodicInMap ==
    ASSUME IndexInv, Followed, phase = "done", launch.ring, NEW u \in Int, NEW j \in Int
    PROVE  getElements(u + j * imap.period) = getElements(u)
<1>1. PICK k \in Int : imap.period = k * Circumference
  BY ThreadedRing
<1>2. Circumference \in Nat \ {0}
  BY ThreaderAssumption
<1>3. j * imap.period = (j * k) * Circumference /\ j * k \in Int
  BY <1>1, <1>2
<1>4. extent \in [Elements -> Extents]
  BY Threading
<1>5. getElements(u + (j * k) * Circumference) = getElements(u)
  BY <1>3, <1>4, Periodic
<1> QED BY <1>3, <1>5

\* Whether an element is met from one position to another.
Meets(e, lower, upper) == \E u \in lower .. upper : e \in getElements(u)

\* What is stored of a ring from its launch on is met there.
LEMMA StoredTurn ==
    ASSUME IndexInv, Followed, phase = "done", launch.ring, NEW lower \in Int, NEW upper \in Int,
           launch.start <= lower, lower <= upper
    PROVE  /\ upper < pathLength =>
                 \A e : e \in queryRange(imap, lower, upper) <=> Meets(e, lower, upper)
           /\ upper = pathLength =>
                 \A e : e \in queryRange(imap, lower, upper) <=> Meets(e, lower, upper - 1)
<1>1. launch.start \in Nat /\ pathLength \in Int /\ first.path \in Int /\ first.path <= launch.start
  BY ThreadedRing
<1>2. resolveSupport /\ lower >= 0
  BY <1>1 DEF resolveSupport
<1>3. \A e : e \in queryRange(imap, lower, upper) <=>
                \E u \in lower .. upper :
                   u \in first.path .. pathLength - 1 /\ e \in getElements(u)
  BY <1>2, AnswerExact
<1>4. ASSUME upper < pathLength, NEW u \in lower .. upper PROVE u \in first.path .. pathLength - 1
  BY <1>1, <1>4
<1>5. ASSUME upper = pathLength
      PROVE  \A u \in Int : u \in lower .. upper - 1 <=>
                            u \in lower .. upper /\ u \in first.path .. pathLength - 1
  BY <1>1, <1>5
<1> QED BY <1>3, <1>4, <1>5 DEF Meets

\* A query over half a turn or more to either side answers with all elements.
LEMMA WholeTurnExact ==
    ASSUME IndexInv, Followed, phase = "done", launch.ring,
           NEW s \in Int, NEW ds \in Nat, wholeTurn(imap, ds)
    PROVE  \A e : e \in query(imap, s, ds) <=> Meets(e, s - ds, s + ds)
<1> DEFINE C == Circumference
           P == imap.period
           O == launch.start
<1>1. /\ P \in Nat \ {0} /\ C \in Nat \ {0} /\ O \in Nat /\ pathLength = O + P /\ pathLength \in Int
      /\ first.path \in Int /\ first.path <= O /\ C <= P /\ 2 * ds >= P
  BY ThreadedRing DEF wholeTurn
<1>2. extent \in [Elements -> Extents] /\ imap.ranges \in Seq(Entries)
  BY Threading
<1>3. PICK old, stop : PathEntries(old, stop)
  BY Threading
<1>4. /\ old \in Seq(Entries) /\ stop \in Int /\ old # <<>>
      /\ Joined(old, first.path, pathLength) /\ Met(old) /\ Tidied(imap.ranges, old, stop)
  BY <1>3 DEF PathEntries
<1>5. \A u : seen(u) = getElements(u)
  BY DEF seen, resolveSupport
<1>6. query(imap, s, ds) = UNION {imap.ranges[i].elements : i \in DOMAIN imap.ranges}
  BY DEF query
<1>7. DOMAIN imap.ranges = 1 .. Len(old) /\ \A i \in 1 .. Len(old) :
                                              imap.ranges[i].elements = old[i].elements
  BY <1>4 DEF Tidied
<1>8. ASSUME NEW e, e \in query(imap, s, ds) PROVE Meets(e, s - ds, s + ds)
  <2>1. PICK i \in 1 .. Len(old) : e \in old[i].elements
    BY <1>6, <1>7, <1>8
  <2>2. PICK a \in Int, b \in Int : a < b /\ old[i].begin = 2 * a /\ old[i].end = rounded(b)
    BY <1>4 DEF Joined
  <2>3. a \in a .. b - 1
    BY <2>2
  <2>4. e \in getElements(a)
    BY <1>4, <1>5, <2>1, <2>2, <2>3 DEF Met
  <2>5. PICK j \in Int : a + j * C \in (s - ds) .. (s - ds) + C - 1
    <3> DEFINE lower == s - ds
    <3>1. lower \in Int
      OBVIOUS
    <3> HIDE DEF lower
    <3>2. \E j \in Int : a + j * C \in lower .. lower + C - 1
      BY <3>1, InTurn
    <3> QED BY <3>2 DEF lower
  <2>6. getElements(a + j * C) = getElements(a)
    BY <1>2, Periodic
  <2> DEFINE u == a + j * C
  <2>7. u \in (s - ds) .. (s - ds) + C - 1 /\ e \in getElements(u)
    BY <2>4, <2>5, <2>6
  <2> HIDE DEF u, C, P
  <2>8. u \in s - ds .. s + ds
    BY <1>1, <2>7
  <2> QED BY <2>7, <2>8 DEF Meets
<1>9. ASSUME NEW e, Meets(e, s - ds, s + ds) PROVE e \in query(imap, s, ds)
  <2>1. PICK v \in s - ds .. s + ds : e \in getElements(v)
    BY <1>9 DEF Meets
  <2>2. PICK j \in Int : v + j * C \in O .. O + C - 1
    <3>1. v \in Int /\ O \in Int
      BY <1>1
    <3> HIDE DEF O
    <3> QED BY <3>1, InTurn
  <2>3. getElements(v + j * C) = getElements(v)
    BY <1>2, Periodic
  <2> DEFINE u == v + j * C
  <2>4. u \in O .. O + C - 1 /\ e \in getElements(u)
    BY <2>1, <2>2, <2>3
  <2> HIDE DEF u, C, P, O
  <2>5. u \in first.path .. pathLength - 1
    BY <1>1, <2>4
  <2>6. PICK i \in 1 .. Len(old), a \in Int, b \in Int :
          old[i].begin = 2 * a /\ old[i].end = rounded(b) /\ a <= u /\ u < b
    BY <1>1, <1>4, <2>5, EntryOfUnit
  <2>7. u \in a .. b - 1
    BY <2>5, <2>6
  <2>8. e \in old[i].elements
    BY <1>4, <1>5, <2>4, <2>6, <2>7 DEF Met
  <2> QED BY <1>6, <1>7, <2>8
<1> QED BY <1>8, <1>9

\* A query over less than a turn is wrapped into the stored one, over its seam in two.
LEMMA WrappedExact ==
    ASSUME IndexInv, Followed, phase = "done", launch.ring,
           NEW s \in Int, NEW ds \in Nat, ~wholeTurn(imap, ds)
    PROVE  /\ \A e : e \in query(imap, s, ds) <=> Meets(e, s - ds, s + ds)
           /\ \A i \in intervals(imap, s, ds) : i[1] \in Int /\ i[1] < pathLength
<1> DEFINE P == imap.period
           O == launch.start
           lower == s - ds
           upper == s + ds
           q == turn(imap, lower)
           t == turn(imap, upper)
           x == (lower - O) % P
           y == (upper - O) % P
<1>1. /\ P \in Nat \ {0} /\ O \in Nat /\ imap.origin = O /\ pathLength = O + P
      /\ ~ (2 * ds >= P)
  BY ThreadedRing DEF wholeTurn
<1>2. lower \in Int /\ upper \in Int /\ lower <= upper /\ upper - lower < P
  BY <1>1
<1>3. q = (lower - O) \div P /\ t = (upper - O) \div P
  BY <1>1 DEF turn
<1>4. wrap(imap, lower) = O + x /\ wrap(imap, upper) = O + y
  BY <1>1 DEF wrap
<1> HIDE DEF lower, upper, P
<1>5. q \in Int /\ x \in 0 .. P - 1 /\ lower - O = q * P + x
  <2>1. lower - O \in Int
    BY <1>1, <1>2
  <2> QED BY <1>1, <1>3, <2>1, Divided
<1>6. t \in Int /\ y \in 0 .. P - 1 /\ upper - O = t * P + y
  <2>1. upper - O \in Int
    BY <1>1, <1>2
  <2> QED BY <1>1, <1>3, <2>1, Divided
<1>7. \A u, j \in Int : getElements(u + j * P) = getElements(u)
  BY PeriodicInMap DEF P
<1> DEFINE Q == q * P
           T == t * P
<1>8. Q \in Int /\ T \in Int /\ lower = O + Q + x /\ upper = O + T + y
  <2> HIDE DEF q, t, x, y, O
  <2>1. q * P \in Int /\ t * P \in Int
    BY <1>1, <1>5, <1>6
  <2>2. lower - O = Q + x /\ upper - O = T + y /\ Q \in Int /\ T \in Int
    BY <1>5, <1>6, <2>1
  <2> HIDE DEF Q, T
  <2> QED BY <1>1, <1>2, <1>5, <1>6, <2>2
<1>9. /\ \A u \in Int : getElements(u + Q) = getElements(u)
      /\ \A u \in Int : getElements(u + T) = getElements(u)
  BY <1>5, <1>6, <1>7
<1>10. q <= t /\ (q < t => T = Q + P) /\ (q = t => T = Q)
  <2>1. ASSUME t < q PROVE FALSE
    <3>1. T + P <= Q
      BY <1>1, <1>5, <1>6, <2>1, MultiplesGrow
    <3> HIDE DEF T, Q, q, t, x, y
    <3> QED BY <1>1, <1>2, <1>5, <1>6, <1>8, <3>1
  <2>2. ASSUME q < t PROVE T = Q + P
    <3>1. (q + 1) * P = Q + P /\ q + 1 \in Int
      BY <1>1, <1>5
    <3>2. ASSUME q + 1 < t PROVE FALSE
      <4>1. (q + 1) * P + P <= T
        BY <1>1, <1>6, <3>1, <3>2, MultiplesGrow
      <4>2. Q + P + P <= T
        BY <3>1, <4>1
      <4> HIDE DEF T, Q, q, t, x, y
      <4> QED BY <1>1, <1>2, <1>5, <1>6, <1>8, <4>2
    <3>3. t = q + 1
      BY <1>5, <1>6, <2>2, <3>2
    <3> QED BY <3>1, <3>3
  <2>3. q = t => T = Q
    OBVIOUS
  <2> QED BY <1>5, <1>6, <2>1, <2>2, <2>3
<1>11. query(imap, s, ds) = UNION {queryRange(imap, i[1], i[2]) : i \in intervals(imap, s, ds)}
  BY DEF query
<1>12. intervals(imap, s, ds) =
          IF q = t /\ O + x <= O + y THEN {<<O + x, O + y>>}
          ELSE {<<O + x, O + P>>, <<O, O + y>>}
  BY <1>1, <1>4 DEF intervals, inOneTurn, lower, upper, P
<1> HIDE DEF Q, T, q, t, x, y, O
<1>13. CASE q = t
  <2>1. Q = T /\ x <= y
    BY <1>1, <1>2, <1>5, <1>6, <1>8, <1>10, <1>13
  <2>2. O + x <= O + y /\ O + x \in Int /\ O + y \in Int /\ O <= O + x /\ O + y < pathLength
    BY <1>1, <1>5, <1>6, <2>1
  <2>3. intervals(imap, s, ds) = {<<O + x, O + y>>}
    BY <1>12, <1>13, <2>2
  <2>4. query(imap, s, ds) = queryRange(imap, O + x, O + y)
    BY <1>11, <2>3
  <2>5. \A e : e \in queryRange(imap, O + x, O + y) <=> Meets(e, O + x, O + y)
    BY <2>2, StoredTurn DEF O
  <2>6. ASSUME NEW e PROVE Meets(e, O + x, O + y) <=> Meets(e, lower, upper)
    <3>1. ASSUME NEW u \in O + x .. O + y, e \in getElements(u) PROVE Meets(e, lower, upper)
      <4>1. u + Q \in lower .. upper /\ u \in Int
        BY <1>1, <1>2, <1>5, <1>6, <1>8, <2>1
      <4>2. e \in getElements(u + Q)
        BY <1>9, <3>1, <4>1
      <4> QED BY <4>1, <4>2 DEF Meets
    <3>2. ASSUME NEW v \in lower .. upper, e \in getElements(v) PROVE Meets(e, O + x, O + y)
      <4> DEFINE u == v - Q
      <4>1. u \in O + x .. O + y /\ u \in Int /\ u + Q = v
        BY <1>1, <1>2, <1>5, <1>6, <1>8, <2>1
      <4> HIDE DEF u
      <4>2. e \in getElements(u)
        BY <1>9, <3>2, <4>1
      <4> QED BY <4>1, <4>2 DEF Meets
    <3> QED BY <3>1, <3>2 DEF Meets
  <2>7. \A i \in intervals(imap, s, ds) : i[1] \in Int /\ i[1] < pathLength
    BY <1>1, <1>5, <2>2, <2>3
  <2> QED BY <2>4, <2>5, <2>6, <2>7 DEF lower, upper
<1>14. CASE q # t
  <2>1. T = Q + P
    BY <1>5, <1>6, <1>10, <1>14
  <2>2. /\ O + x \in Int /\ O + y \in Int /\ O \in Int /\ O + P \in Int
        /\ O <= O + x /\ O + x < pathLength /\ O + x <= O + P /\ O + P = pathLength
        /\ O <= O + y /\ O + y < pathLength /\ O < pathLength
    BY <1>1, <1>5, <1>6
  <2>3. intervals(imap, s, ds) = {<<O + x, O + P>>, <<O, O + y>>}
    BY <1>12, <1>14
  <2>4. query(imap, s, ds) = queryRange(imap, O + x, O + P) \cup queryRange(imap, O, O + y)
    BY <1>11, <2>3
  <2>5. \A e : e \in queryRange(imap, O + x, O + P) <=> Meets(e, O + x, (O + P) - 1)
    BY <2>2, StoredTurn DEF O
  <2>6. \A e : e \in queryRange(imap, O, O + y) <=> Meets(e, O, O + y)
    BY <2>2, StoredTurn DEF O
  <2>7. ASSUME NEW e
        PROVE  Meets(e, O + x, (O + P) - 1) \/ Meets(e, O, O + y) <=> Meets(e, lower, upper)
    <3>1. ASSUME NEW u \in O + x .. (O + P) - 1, e \in getElements(u)
          PROVE  Meets(e, lower, upper)
      <4>1. u + Q \in lower .. upper /\ u \in Int
        BY <1>1, <1>2, <1>5, <1>6, <1>8, <2>1
      <4>2. e \in getElements(u + Q)
        BY <1>9, <3>1, <4>1
      <4> QED BY <4>1, <4>2 DEF Meets
    <3>2. ASSUME NEW u \in O .. O + y, e \in getElements(u) PROVE Meets(e, lower, upper)
      <4>1. u + T \in lower .. upper /\ u \in Int
        BY <1>1, <1>2, <1>5, <1>6, <1>8, <2>1
      <4>2. e \in getElements(u + T)
        BY <1>9, <3>2, <4>1
      <4> QED BY <4>1, <4>2 DEF Meets
    <3>3. ASSUME NEW v \in lower .. upper, e \in getElements(v)
          PROVE  Meets(e, O + x, (O + P) - 1) \/ Meets(e, O, O + y)
      <4>1. CASE v < O + T
        <5> DEFINE u == v - Q
        <5>1. u \in O + x .. (O + P) - 1 /\ u \in Int /\ u + Q = v
          BY <1>1, <1>2, <1>5, <1>6, <1>8, <2>1, <4>1
        <5> HIDE DEF u
        <5>2. e \in getElements(u)
          BY <1>9, <3>3, <5>1
        <5> QED BY <5>1, <5>2 DEF Meets
      <4>2. CASE ~ (v < O + T)
        <5> DEFINE u == v - T
        <5>1. u \in O .. O + y /\ u \in Int /\ u + T = v
          BY <1>1, <1>2, <1>5, <1>6, <1>8, <2>1, <4>2
        <5> HIDE DEF u
        <5>2. e \in getElements(u)
          BY <1>9, <3>3, <5>1
        <5> QED BY <5>1, <5>2 DEF Meets
      <4> QED BY <4>1, <4>2
    <3> QED BY <3>1, <3>2, <3>3 DEF Meets
  <2>8. \A i \in intervals(imap, s, ds) : i[1] \in Int /\ i[1] < pathLength
    BY <2>2, <2>3
  <2> QED BY <2>4, <2>5, <2>6, <2>7, <2>8 DEF lower, upper
<1> QED BY <1>13, <1>14

LEMMA RingExact ==
    ASSUME IndexInv, Followed, phase = "done", launch.ring, NEW s \in Int, NEW ds \in Nat
    PROVE  ~outOfBounds(imap, s, ds) /\ query(imap, s, ds) = onPath(s - ds, s + ds)
<1>1. onPath(s - ds, s + ds) = UNION {getElements(u) : u \in s - ds .. s + ds}
  BY DEF onPath
<1>2. \A e : e \in query(imap, s, ds) <=> Meets(e, s - ds, s + ds)
  BY WholeTurnExact, WrappedExact
<1>3. query(imap, s, ds) = onPath(s - ds, s + ds)
  BY <1>1, <1>2 DEF Meets
<1>4. ASSUME outOfBounds(imap, s, ds) PROVE FALSE
  <2>1. ~wholeTurn(imap, ds)
    BY <1>4 DEF outOfBounds
  <2>2. PICK i \in intervals(imap, s, ds) : beyondEnd(imap, i[1])
    BY <1>4 DEF outOfBounds
  <2>3. i[1] \in Int /\ i[1] < pathLength
    BY <2>1, <2>2, WrappedExact
  <2>4. PICK old, stop : PathEntries(old, stop)
    BY Threading
  <2>5. /\ old \in Seq(Entries) /\ old # <<>> /\ Joined(old, first.path, pathLength)
        /\ Tidied(imap.ranges, old, stop) /\ stop = pathLength
    BY <2>4 DEF PathEntries
  <2>6. pathLength \in Int
    BY Threading
  <2> DEFINE n == Len(old)
             end == imap.ranges[n].end
  <2>7. n \in 1 .. n /\ Len(imap.ranges) = n
    BY <2>5 DEF Tidied
  <2>8. end = rounded(pathLength) \/ end = 2 * pathLength
    BY <2>5, <2>7 DEF Tidied, Joined
  <2>9. 2 * i[1] > end
    BY <2>2, <2>7 DEF beyondEnd, Last
  <2> HIDE DEF end
  <2>10. 2 * i[1] < rounded(pathLength) /\ rounded(pathLength) \in Int
    BY <2>3, <2>6, Rounded
  <2> QED BY <2>3, <2>6, <2>8, <2>9, <2>10
<1> QED BY <1>3, <1>4

\* The positions and the widths that are asked for.
LEMMA Asked ==
    ASSUME IndexInv, NEW s \in positions, NEW ds \in widths
    PROVE  s \in Int /\ ds \in Nat
<1>1. first.path \in Int /\ pathLength \in Int /\ launch.start \in Nat
  BY LaunchTypes DEF IndexInv, Typed
<1>2. Circumference \in Nat
  BY ThreaderAssumption
<1> QED BY <1>1, <1>2 DEF positions, widths

\* The support of an element on the path of a line.
LEMMA SupportOnPath ==
    ASSUME ~launch.ring, extent \in [Elements -> Extents], NEW e \in Elements,
           first.path \in Int, pathLength \in Int,
           NEW u \in first.path .. pathLength - 1, e \in getElements(u)
    PROVE  \E a, b \in Int :
              /\ first.path <= a /\ a <= u /\ u < b /\ b <= pathLength
              /\ lengthOnPath(e) = b - a
              /\ \A v \in a .. b - 1 : e \in getElements(v)
<1>1. extent[e].begin \in Int /\ extent[e].length \in Nat \ {0}
  BY ThreaderAssumption
<1> DEFINE from == extent[e].begin
           to == extent[e].begin + extent[e].length
           a == IF from <= first.path THEN first.path ELSE from
           b == IF to <= pathLength THEN to ELSE pathLength
<1>2. \A v \in Int : e \in getElements(v) <=> from <= v /\ v < to
  <2>1. \A v \in Int : e \in getElements(v) <=> v - extent[e].begin \in 0 .. extent[e].length - 1
    BY DEF getElements
  <2> QED BY <1>1, <2>1
<1>3. from \in Int /\ to \in Int
  BY <1>1
<1> HIDE DEF from, to
<1>4. /\ a \in Int /\ b \in Int /\ first.path <= a /\ a <= u /\ u < b /\ b <= pathLength
      /\ \A v \in a .. b - 1 : e \in getElements(v)
  BY <1>2, <1>3
<1>5. {v \in first.path .. pathLength - 1 : e \in getElements(v)} = a .. b - 1
  BY <1>2, <1>3
<1> HIDE DEF a, b
<1>6. Cardinality(a .. b - 1) = b - a
  <2>1. b - 1 \in Int /\ ~ (a > b - 1) /\ (b - 1) - a + 1 = b - a
    BY <1>4
  <2> QED BY <1>4, <2>1, FS_Interval
<1>7. lengthOnPath(e) = b - a
  BY <1>5, <1>6 DEF lengthOnPath
<1> QED BY <1>4, <1>7

\* Without resolved supports, an element that the reference is in for the length of a
\* step is seen not further than half a step away.
LEMMA SeenNearby ==
    ASSUME IndexInv, Followed, phase = "done", ~resolveSupport, NEW e \in Elements,
           NEW u \in first.path .. pathLength - 1, e \in getElements(u),
           lengthOnPath(e) >= StepLength
    PROVE  \E v \in u - StepLength \div 2 .. u + StepLength \div 2 :
              v \in first.path .. pathLength - 1 /\ e \in seen(v)
<1> DEFINE L == StepLength
           h == L \div 2
           f == first.path
           k == (u - f) \div L
           r == (u - f) % L
<1>1. /\ L \in Nat \ {0} /\ f \in Int /\ pathLength \in Int /\ u \in Int
      /\ launch \in Launches /\ ~launch.ring /\ extent \in [Elements -> Extents]
  BY Threading DEF resolveSupport
<1>2. h \in Nat /\ 2 * h = L
  <2>1. L % 2 = 0
    BY <1>1, ThreaderAssumption DEF StepLength
  <2> HIDE DEF L
  <2> QED BY <1>1, <2>1
<1>3. PICK a \in Int, b \in Int :
        /\ f <= a /\ a <= u /\ u < b /\ b <= pathLength /\ b - a >= L
        /\ \A v \in a .. b - 1 : e \in getElements(v)
  BY <1>1, SupportOnPath
<1> HIDE DEF L, h, f
<1>4. k \in Int /\ r \in 0 .. L - 1 /\ u - f = k * L + r
  <2>1. u - f \in Int
    BY <1>1
  <2> QED BY <1>1, <2>1, Divided
<1> HIDE DEF k, r
<1>5. \A v, j, x \in Int : v - f = j * L + x /\ x \in 0 .. L - 1
         => seen(v) = getElements(v - x + h)
  <2> SUFFICES ASSUME NEW v \in Int, NEW j \in Int, NEW x \in Int,
                      v - f = j * L + x, x \in 0 .. L - 1
               PROVE  seen(v) = getElements(v - x + h)
    OBVIOUS
  <2> DEFINE g == v - f
  <2>1. g \in Int /\ g = j * L + x
    BY <1>1
  <2> HIDE DEF g
  <2>2. g % L = x
    BY <1>1, <2>1, DividedOnce
  <2>3. (v - first.path) % StepLength = x
    BY <2>2 DEF g, f, L
  <2> QED BY <2>3 DEF seen, h, L
<1> DEFINE m == u - r + h
           kL == k * L
<1>6. m \in Int /\ kL \in Int /\ u - f = kL + r
  BY <1>1, <1>2, <1>4
<1>7. CASE m \in a .. b - 1
  <2>1. seen(u) = getElements(m)
    <3>1. r \in Int
      BY <1>1, <1>4
    <3>2. seen(u) = getElements(u - r + h)
      BY <1>1, <1>4, <1>5, <3>1, Zenon
    <3> QED BY <3>2
  <2>2. u \in u - h .. u + h
    BY <1>1, <1>2
  <2> HIDE DEF m
  <2> QED BY <1>3, <1>7, <2>1, <2>2 DEF h, L
<1>8. CASE m >= b
  <2> DEFINE v == (u - r) - 1
             j == k - 1
             x == L - 1
  <2>1. j * L = kL - L /\ j \in Int
    BY <1>1, <1>4
  <2>2. v \in Int /\ x \in Int /\ x \in 0 .. L - 1 /\ v - f = j * L + x
    <3> HIDE DEF kL, j
    <3> QED BY <1>1, <1>4, <1>6, <2>1
  <2>3. v - x + h = m - L
    BY <1>1, <1>2, <1>4
  <2>4. seen(v) = getElements(m - L)
    <3> HIDE DEF v, j, x, m
    <3> QED BY <1>5, <2>1, <2>2, <2>3
  <2> HIDE DEF kL, j, x
  <2>5. m - L \in a .. b - 1 /\ v \in u - h .. u + h /\ v \in f .. pathLength - 1
    BY <1>1, <1>2, <1>3, <1>4, <1>8
  <2>6. e \in seen(v)
    <3> HIDE DEF v, m
    <3> QED BY <1>3, <2>4, <2>5
  <2> HIDE DEF v
  <2> QED BY <2>5, <2>6 DEF h, L, f
<1>9. CASE m < a
  <2> DEFINE v == (u - r) + L
             j == k + 1
  <2>1. j * L = kL + L /\ j \in Int
    BY <1>1, <1>4
  <2>2. v \in Int /\ 0 \in 0 .. L - 1 /\ v - f = j * L + 0
    <3> HIDE DEF kL, j
    <3> QED BY <1>1, <1>4, <1>6, <2>1
  <2>3. v - 0 + h = m + L
    BY <1>1, <1>2, <1>4
  <2>4. seen(v) = getElements(m + L)
    <3>1. seen(v) = getElements(v - 0 + h)
      <4> HIDE DEF v, j, m
      <4> QED BY <1>5, <2>1, <2>2
    <3> QED BY <2>3, <3>1
  <2> HIDE DEF kL, j
  <2>5. m + L \in a .. b - 1 /\ v \in u - h .. u + h /\ v \in f .. pathLength - 1
    BY <1>1, <1>2, <1>3, <1>4, <1>9
  <2>6. e \in seen(v)
    <3> HIDE DEF v, m
    <3> QED BY <1>3, <2>4, <2>5
  <2> HIDE DEF v
  <2> QED BY <2>5, <2>6 DEF h, L, f
<1> QED BY <1>3, <1>6, <1>7, <1>8, <1>9

-----------------------------------------------------------------------------
(* What the index answers is what the reference met.                        *)

\* The queries are answered exactly when supports are resolved. An end at a negative
\* position is rounded toward zero and a query from there still finds it, so with
\* linear maps on a line no field may begin more than a unit in front of position 0.
NoFieldInFront ==
    (\E l \in Launches : l.maps /\ ~l.ring) => \A x \in Extents : x.begin >= -1

LEMMA AnswersAreExact ==
    ASSUME IndexInv, Followed, NoFieldInFront
    PROVE  QueryIsExact
<1> SUFFICES ASSUME phase = "done", resolveSupport, NEW s \in positions, NEW ds \in widths
             PROVE  /\ query(imap, s, ds) = onPath(s - ds, s + ds)
                    /\ launch.ring => ~outOfBounds(imap, s, ds)
  BY DEF QueryIsExact
<1>1. s \in Int /\ ds \in Nat
  BY Asked
<1>2. CASE launch.ring
  BY <1>1, <1>2, RingExact
<1>3. CASE ~launch.ring
  <2>1. launch \in Launches /\ launch.maps
    BY <1>3, Threading DEF resolveSupport
  <2>2. \A x \in Extents : x.begin >= -1
    BY <1>3, <2>1 DEF NoFieldInFront
  <2> QED BY <1>1, <1>3, <2>2, LineExact
<1> QED BY <1>2, <1>3

\* Otherwise the interval has to be widened by half a step.
LEMMA NothingIsMissed ==
    ASSUME IndexInv, Followed
    PROVE  NoElementMissed
<1> DEFINE h == StepLength \div 2
<1> SUFFICES ASSUME phase = "done", ~resolveSupport, NEW s \in positions, NEW ds \in widths,
                    NEW e \in onPath(s - ds, s + ds), lengthOnPath(e) >= StepLength
             PROVE  e \in query(imap, s, ds + h)
  BY DEF NoElementMissed
<1>1. s \in Int /\ ds \in Nat
  BY Asked
<1>2. /\ ~launch.ring /\ imap.period = 0
      /\ IsIndex(imap) /\ first.path \in Int /\ pathLength \in Int
      /\ StepLength \in Nat \ {0}
  BY Threading DEF resolveSupport, Followed, Complete
<1>3. h \in Nat
  BY <1>2
<1>4. PICK u \in s - ds .. s + ds :
        u \in first.path .. pathLength - 1 /\ e \in getElements(u)
  BY <1>2 DEF onPath
<1>5. e \in Elements
  BY <1>4 DEF getElements
<1>6. PICK v \in u - h .. u + h : v \in first.path .. pathLength - 1 /\ e \in seen(v)
  BY <1>4, <1>5, SeenNearby
<1> HIDE DEF h
<1> DEFINE wide == ds + h
           lower == s - wide
           upper == s + wide
<1>7. lower \in Int /\ upper \in Int /\ v \in lower .. upper
  BY <1>1, <1>3, <1>4, <1>6
<1> HIDE DEF wide
<1>8. query(imap, s, wide) = queryRange(imap, lower, upper)
  <2>1. intervals(imap, s, wide) = {<<lower, upper>>} /\ ~wholeTurn(imap, wide)
    BY <1>2 DEF intervals, wholeTurn
  <2> QED BY <2>1 DEF query
<1> HIDE DEF lower, upper
<1>9. PICK old, stop : PathEntries(old, stop)
  BY Threading
<1>10. seen(v) \subseteq queryRange(imap, lower, upper)
  BY <1>2, <1>6, <1>7, <1>9, AnswerComplete DEF PathEntries
<1> QED BY <1>6, <1>8, <1>10 DEF wide

\* The range that is kept for an element is its first visit.
LEMMA RangesAreFirstVisits ==
    ASSUME IndexInv, Followed
    PROVE  RangeIsFirstVisit
<1> SUFFICES ASSUME phase = "done", resolveSupport, NEW e \in DOMAIN imap.visits
             PROVE  imap.visits[e] = firstVisit(e)
  BY DEF RangeIsFirstVisit
<1>1. IsIndex(imap) /\ first.path \in Int /\ pathLength \in Int
  BY Threading
<1>2. e \in Elements
  BY <1>1 DEF IsIndex
<1>3. PICK b \in Int, t \in Int :
        /\ first.path <= b /\ b < t /\ t <= pathLength
        /\ imap.visits[e] = [begin |-> 2 * b, end |-> rounded(t)]
        /\ \A v \in first.path .. b - 1 : e \notin getElements(v)
        /\ \A v \in b .. t - 1 : e \in getElements(v)
        /\ t = pathLength \/ e \notin getElements(t)
  BY <1>2 DEF Followed, Complete, FirstVisits
<1> DEFINE path == first.path .. pathLength - 1
           First(u) == /\ e \in getElements(u)
                       /\ \A v \in first.path .. u - 1 : e \notin getElements(v)
           begin == CHOOSE u \in path : First(u)
           Left(from, u) == /\ u = pathLength \/ e \notin getElements(u)
                            /\ \A v \in from .. u - 1 : e \in getElements(v)
           end == CHOOSE u \in begin + 1 .. pathLength : Left(begin, u)
<1>4. begin = b
  <2>1. b \in path /\ b \in b .. t - 1
    BY <1>1, <1>3
  <2>2. First(b)
    BY <1>3, <2>1
  <2>3. ASSUME NEW u \in path, First(u) PROVE u = b
    <3>1. ASSUME u < b PROVE FALSE
      <4>1. u \in first.path .. b - 1
        BY <1>1, <1>3, <3>1
      <4> QED BY <1>3, <2>3, <4>1
    <3>2. ASSUME b < u PROVE FALSE
      <4>1. b \in first.path .. u - 1
        BY <1>1, <1>3, <3>2
      <4> QED BY <2>2, <2>3, <4>1
    <3> QED BY <1>1, <1>3, <3>1, <3>2
  <2> HIDE DEF path, First
  <2> QED BY <2>1, <2>2, <2>3
<1> HIDE DEF begin
<1>5. end = t
  <2>1. t \in b + 1 .. pathLength
    BY <1>1, <1>3
  <2>2. Left(b, t)
    BY <1>3
  <2>3. ASSUME NEW u \in b + 1 .. pathLength, Left(b, u) PROVE u = t
    <3>1. ASSUME u < t PROVE FALSE
      <4>1. u \in b .. t - 1 /\ u # pathLength
        BY <1>1, <1>3, <3>1
      <4> QED BY <1>3, <2>3, <4>1
    <3>2. ASSUME t < u PROVE FALSE
      <4>1. t \in b .. u - 1 /\ t # pathLength
        BY <1>1, <1>3, <3>2
      <4> QED BY <1>3, <2>3, <4>1
    <3> QED BY <1>1, <1>3, <3>1, <3>2
  <2> HIDE DEF Left
  <2> QED BY <1>4, <2>1, <2>2, <2>3
<1>6. firstVisit(e) = [begin |-> 2 * begin, end |-> rounded(end)]
  BY DEF firstVisit, begin
<1> HIDE DEF end
<1> QED BY <1>3, <1>4, <1>5, <1>6

\* The entries ascend in every phase.
LEMMA EntriesAscend ==
    ASSUME IndexInv
    PROVE  Ascending(imap.ranges)
<1>1. IsIndex(imap) /\ first.path \in Int /\ pathLength \in Int /\ stretch.from \in Int
  BY DEF IndexInv, Typed
<1>2. CASE phase \in {"back", "turn"}
  BY <1>2, EmptyIndex DEF IndexInv, Threaded
<1>3. CASE phase = "forward"
  <2>1. Joined(imap.ranges, first.path, joinedTo) /\ joinedTo \in Int
    BY <1>1, <1>3 DEF IndexInv, Threaded, joinedTo
  <2> QED BY <1>1, <2>1, JoinedAscends DEF IsIndex
<1>4. CASE phase \in {"done", "failed"}
  BY <1>4 DEF IndexInv, Threaded
<1> QED BY <1>2, <1>3, <1>4 DEF IndexInv, Typed

\* The types of the state, and the order of the entries.
LEMMA IndexIsTyped ==
    ASSUME IndexInv
    PROVE  TypeOK
<1>1. /\ phase \in {"back", "turn", "forward", "done", "failed"}
      /\ {pathLength, currentStep, returnLength} \subseteq Int
      /\ stretch.elements \subseteq Elements
      /\ DOMAIN imap.visits \subseteq Elements
  BY DEF IndexInv, Typed, IsIndex
<1>2. \A i \in DOMAIN imap.ranges :
        /\ imap.ranges[i].begin < imap.ranges[i].end
        /\ imap.ranges[i].elements \subseteq Elements
        /\ i > 1 => LET last == imap.ranges[i - 1]
                    IN  /\ imap.ranges[i].begin \div 2 >= last.end \div 2
                        /\ imap.ranges[i].elements # last.elements
  BY EntriesAscend DEF Ascending
<1> QED BY <1>1, <1>2 DEF TypeOK

\* For every number of elements, every field support, step length, line and ring, what
\* the index answers after threading is what the reference met on its path.
THEOREM IndexCorrect ==
    ASSUME NoFieldInFront
    PROVE  Spec => []IndexFollowsPath
<1>1. IndexInv /\ Followed => IndexFollowsPath
  BY AnswersAreExact, NothingIsMissed, RangesAreFirstVisits, IndexIsTyped
  DEF IndexFollowsPath
<1> QED BY <1>1, IndexInvariant, FollowedInvariant, PTL
=============================================================================
