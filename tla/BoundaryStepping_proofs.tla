----------------------- MODULE BoundaryStepping_proofs -----------------------
(* BoundaryStepping for any runs, rings, bunches, depths and budgets: the      *)
(* schedule of bisected intervals tiles the nominal step, its clock, the       *)
(* reference and the particles stay together, monitors miss nothing, and the   *)
(* counters of steps and turns agree with the path.                            *)
EXTENDS BoundaryStepping, SequenceTheorems, WellFoundedInduction, TLAPS

-----------------------------------------------------------------------------
(* Positions on a ring.                                                     *)

\* A number and its residue differ by a multiple of the modulus.
LEMMA Residue ==
    ASSUME NEW m \in Nat \ {0}, NEW s \in Int
    PROVE  s % m \in 0 .. m - 1 /\ \E k \in Int : s = k * m + (s % m)
<1>1. s % m \in 0 .. m - 1
  OBVIOUS
<1>2. s \div m \in Int
  OBVIOUS
<1>3. s = (s \div m) * m + (s % m)
  OBVIOUS
<1>. QED BY <1>1, <1>2, <1>3, Zenon

\* There is only one such residue.
LEMMA ResidueOf ==
    ASSUME NEW m \in Nat \ {0}, NEW k \in Int, NEW r \in 0 .. m - 1
    PROVE  (k * m + r) % m = r
<1>1. PICK j \in Int, t \in 0 .. m - 1 : t = (k * m + r) % m /\ k * m + r = j * m + t
  <2>1. k * m \in Int /\ k * m + r \in Int
    OBVIOUS
  <2>. QED BY <2>1, Residue
<1>2. (j - k) * m = r - t
  <2>1. (j - k) * m = j * m - k * m
    OBVIOUS
  <2>2. j * m \in Int /\ k * m \in Int
    OBVIOUS
  <2>. QED BY <1>1, <2>1, <2>2
<1>3. r - t < m /\ r - t > -m /\ r - t \in Int
  OBVIOUS
<1>4. \A d \in Int : d >= 1 => d * m >= m
  OBVIOUS
<1>5. \A d \in Int : d <= -1 => d * m <= -m
  OBVIOUS
<1>6. j - k = 0
  <2>1. j - k \in Int
    OBVIOUS
  <2>2. ~ (j - k >= 1)
    BY <1>2, <1>3, <1>4, <2>1
  <2>3. ~ (j - k <= -1)
    BY <1>2, <1>3, <1>5, <2>1
  <2>. QED BY <2>1, <2>2, <2>3
<1>7. r = t
  BY <1>2, <1>6
<1>. QED BY <1>1, <1>7

\* An arc of the ring is a stretch of every turn of the path.
LEMMA Arc ==
    ASSUME NEW m \in Nat \ {0}, NEW a \in 0 .. m - 1, NEW b \in a + 1 .. m, NEW s \in Int
    PROVE  s % m \in a .. b - 1 <=> \E k \in Int : a + k * m <= s /\ s < b + k * m
<1>1. ASSUME s % m \in a .. b - 1 PROVE \E k \in Int : a + k * m <= s /\ s < b + k * m
  <2>1. PICK k \in Int : s = k * m + (s % m)
    BY Residue
  <2>. DEFINE x == s % m
              y == k * m
  <2>2. x \in a .. b - 1 /\ y \in Int /\ s = y + x
    BY <1>1, <2>1
  <2>. HIDE DEF x, y
  <2>3. a + y <= s /\ s < b + y
    BY <2>2
  <2>. QED BY <2>3 DEF y
<1>2. ASSUME NEW k \in Int, a + k * m <= s, s < b + k * m PROVE s % m \in a .. b - 1
  <2>. DEFINE y == k * m
              x == s - y
  <2>1. y \in Int /\ a + y <= s /\ s < b + y
    BY <1>2
  <2>. HIDE DEF y
  <2>2. x \in a .. b - 1 /\ x \in 0 .. m - 1 /\ s = y + x
    BY <2>1
  <2>. HIDE DEF x
  <2>3. (k * m + x) % m = x
    BY <2>2, ResidueOf
  <2>. QED BY <2>2, <2>3 DEF y
<1>. QED BY <1>1, <1>2

\* A stretch of path that is not longer than an arc, nor than what the ring has
\* besides it, and has both ends inside or both outside, is inside or outside as a
\* whole.
LEMMA WholeStretch ==
    ASSUME NEW m \in Nat \ {0}, NEW a \in 0 .. m - 1, NEW b \in a + 1 .. m,
           NEW x \in Int, NEW y \in Int, NEW s \in x .. y,
           b - a = m \/ (y - x <= b - a /\ y - x <= m - (b - a)),
           x % m \in a .. b - 1 <=> y % m \in a .. b - 1
    PROVE  s % m \in a .. b - 1 <=> x % m \in a .. b - 1
<1>. DEFINE In(z) == \E k \in Int : a + k * m <= z /\ z < b + k * m
<1>1. \A z \in Int : z % m \in a .. b - 1 <=> In(z)
  BY Arc
<1>2. CASE b - a = m
  <2>1. a = 0 /\ b = m
    BY <1>2
  <2>2. s \in Int /\ x \in Int /\ m \in Nat \ {0}
    OBVIOUS
  <2>3. s % m \in 0 .. m - 1 /\ x % m \in 0 .. m - 1
    BY <2>2, Residue
  <2>. QED BY <2>1, <2>3
<1>3. CASE y - x <= b - a /\ y - x <= m - (b - a)
  <2>1. \A k, j \in Int : k < j => k * m + m <= j * m
    <3>1. \A d \in Int : d >= 1 => d * m >= m
      OBVIOUS
    <3>. SUFFICES ASSUME NEW k \in Int, NEW j \in Int, k < j PROVE k * m + m <= j * m
      OBVIOUS
    <3>2. (j - k) * m >= m
      BY <3>1
    <3>3. (j - k) * m = j * m - k * m /\ j * m \in Int /\ k * m \in Int
      OBVIOUS
    <3>. QED BY <3>2, <3>3
  <2>2. ASSUME In(x), In(y) PROVE In(s)
    <3>1. PICK k \in Int : a + k * m <= x /\ x < b + k * m
      BY <2>2
    <3>2. PICK j \in Int : a + j * m <= y /\ y < b + j * m
      BY <2>2
    <3>. DEFINE u == k * m
                v == j * m
    <3>3. /\ u \in Int /\ v \in Int /\ a + u <= x /\ x < b + u /\ a + v <= y /\ y < b + v
          /\ (k < j => u + m <= v) /\ (j < k => v + m <= u)
      BY <2>1, <3>1, <3>2
    <3>. HIDE DEF u, v
    <3>4. ~ (k < j) /\ ~ (j < k)
      BY <1>3, <3>3
    <3>5. u = v
      BY <3>4 DEF u, v
    <3>6. a + u <= s /\ s < b + u
      BY <3>3, <3>5
    <3>. QED BY <3>6 DEF u
  <2>3. ASSUME In(s), ~ In(x), ~ In(y) PROVE FALSE
    <3>1. PICK k \in Int : a + k * m <= s /\ s < b + k * m
      BY <2>3
    <3>2. ~ (a + k * m <= x /\ x < b + k * m) /\ ~ (a + k * m <= y /\ y < b + k * m)
      BY <2>3
    <3>. DEFINE u == k * m
    <3>3. /\ u \in Int /\ a + u <= s /\ s < b + u
          /\ ~ (a + u <= x /\ x < b + u) /\ ~ (a + u <= y /\ y < b + u)
      BY <3>1, <3>2
    <3>. HIDE DEF u
    <3>4. x < a + u /\ b + u <= y
      BY <3>3
    <3>. QED BY <1>3, <3>3, <3>4
  <2>4. In(x) <=> In(y)
    BY <1>1
  <2>. HIDE DEF In
  <2>. QED BY <1>1, <2>2, <2>3, <2>4
<1>. QED BY <1>2, <1>3

USE ControlAssumption

-----------------------------------------------------------------------------
(* Schedules of intervals.                                                  *)

Tiles == [depth : 0 .. MaxDepth, width : Nat \ {0}, end : Nat]

Schedules ==
    [pending : Seq(Tiles), trials : 0 .. MaxTrials, elapsed : Nat, nominal : Nat]

\* The pending intervals are contiguous, from the elapsed time to the end.
Contiguous(p, elapsed, nominal) ==
    LET n == Len(p)
    IN  /\ n > 0 => /\ p[1].end = nominal
                    /\ p[n].end - p[n].width = elapsed
        /\ \A i \in 1 .. n - 1 : p[i].end - p[i].width = p[i + 1].end
        /\ n = 0 => elapsed = nominal

\* Below the top of the stack every place has been bisected once more: this
\* bounds the stack by the depth.
Deep(p) == /\ \A i \in 1 .. Len(p) - 1 : p[i].depth >= i
           /\ Len(p) > 0 => p[Len(p)].depth >= Len(p) - 1

WithinNominal(p, nominal) == \A i \in 1 .. Len(p) : p[i].width <= nominal

ScheduleOK(s) ==
    /\ s \in Schedules
    /\ Deep(s.pending)
    /\ WithinNominal(s.pending, s.nominal)
    /\ Contiguous(s.pending, s.elapsed, s.nominal)

LEMMA EmplaceOK ==
    ASSUME NEW d \in Nat \ {0}
    PROVE  /\ ScheduleOK(emplace(d))
           /\ ~done(emplace(d)) /\ step(emplace(d)) = d
           /\ emplace(d).nominal = d /\ emplace(d).elapsed = 0
BY DEF emplace, Tile, ScheduleOK, Schedules, Tiles, Deep, WithinNominal, Contiguous, done, step,
       current

LEMMA NoScheduleOK == ScheduleOK(NoSchedule) /\ done(NoSchedule)
BY DEF NoSchedule, ScheduleOK, Schedules, Tiles, Deep, WithinNominal, Contiguous, done

LEMMA PendingFacts ==
    ASSUME NEW s, ScheduleOK(s)
    PROVE  /\ s.pending \in Seq(Tiles) /\ Len(s.pending) \in Nat
           /\ s.trials \in 0 .. MaxTrials /\ s.elapsed \in Nat /\ s.nominal \in Nat
           /\ done(s) <=> Len(s.pending) = 0
           /\ \A i \in 1 .. Len(s.pending) :
                 /\ s.pending[i] \in Tiles
                 /\ s.pending[i].depth \in 0 .. MaxDepth
                 /\ s.pending[i].width \in Nat \ {0}
                 /\ s.pending[i].end \in Nat
<1>1. s.pending \in Seq(Tiles) /\ s.trials \in 0 .. MaxTrials /\ s.elapsed \in Nat
      /\ s.nominal \in Nat
  BY DEF ScheduleOK, Schedules
<1>2. ASSUME NEW i \in 1 .. Len(s.pending) PROVE s.pending[i] \in Tiles
  BY <1>1
<1>3. \A t \in Tiles : /\ t.depth \in 0 .. MaxDepth /\ t.width \in Nat \ {0}
                       /\ t.end \in Nat
  BY DEF Tiles
<1>. QED BY <1>1, <1>2, <1>3 DEF done

LEMMA CurrentFacts ==
    ASSUME NEW s, ScheduleOK(s), ~done(s)
    PROVE  /\ Len(s.pending) \in Nat \ {0}
           /\ current(s) \in Tiles
           /\ step(s) \in Nat \ {0}
           /\ step(s) <= s.nominal
BY PendingFacts DEF ScheduleOK, WithinNominal, step, current

LEMMA SplitOK ==
    ASSUME NEW s, ScheduleOK(s), canSplit(s), trialsLeft(s)
    PROVE  /\ ScheduleOK(split(s)) /\ ~done(split(s))
           /\ split(s).nominal = s.nominal /\ split(s).elapsed = s.elapsed
<1>. DEFINE n == Len(s.pending)
            t == current(s)
            half == t.width \div 2
            q == Append([s.pending EXCEPT ![n] = Tile(t.depth + 1, half, t.end)],
                        Tile(t.depth + 1, half, t.end - half))
<1>0. /\ s.pending \in Seq(Tiles) /\ n \in Nat
      /\ s.trials \in 0 .. MaxTrials /\ s.elapsed \in Nat /\ s.nominal \in Nat
      /\ \A i \in 1 .. n : /\ s.pending[i] \in Tiles
                           /\ s.pending[i].depth \in 0 .. MaxDepth
                           /\ s.pending[i].width \in Nat \ {0}
                           /\ s.pending[i].end \in Nat
  BY PendingFacts
<1>1. n \in Nat \ {0} /\ t \in Tiles /\ t = s.pending[n] /\ t.width <= s.nominal
  BY CurrentFacts DEF canSplit, step, current
<1>2. /\ t.depth + 1 \in 1 .. MaxDepth
      /\ half \in Nat \ {0} /\ half + half = t.width
  <2>1. t.depth \in 0 .. MaxDepth /\ t.depth < MaxDepth
    BY <1>0, <1>1 DEF canSplit
  <2>2. t.width \in Nat \ {0} /\ t.width % 2 = 0
    BY <1>0, <1>1 DEF canSplit, step
  <2>3. \A w \in Nat \ {0} : w % 2 = 0 => w \div 2 \in Nat \ {0} /\ (w \div 2) + (w \div 2) = w
    OBVIOUS
  <2>. HIDE DEF t
  <2>. QED BY <2>1, <2>2, <2>3
<1>3. t.end - t.width = s.elapsed /\ s.elapsed \in Nat /\ t.end \in Nat
  BY <1>0, <1>1 DEF ScheduleOK, Contiguous, Schedules, Tiles
<1>4. t.end - half \in Nat
  BY <1>2, <1>3
<1>5. /\ Tile(t.depth + 1, half, t.end) \in Tiles
      /\ Tile(t.depth + 1, half, t.end - half) \in Tiles
  BY <1>2, <1>3, <1>4 DEF Tile, Tiles
<1>6. /\ q \in Seq(Tiles) /\ Len(q) = n + 1
      /\ q[n + 1] = Tile(t.depth + 1, half, t.end - half)
      /\ q[n] = Tile(t.depth + 1, half, t.end)
      /\ \A i \in 1 .. n - 1 : q[i] = s.pending[i]
  <2>. DEFINE r == [s.pending EXCEPT ![n] = Tile(t.depth + 1, half, t.end)]
  <2>1. /\ r \in Seq(Tiles) /\ Len(r) = n
        /\ \A j \in 1 .. n : r[j] = IF j = n THEN Tile(t.depth + 1, half, t.end) ELSE s.pending[j]
    BY <1>0, <1>1, <1>5, ExceptSeq
  <2>. HIDE DEF r
  <2>2. /\ Append(r, Tile(t.depth + 1, half, t.end - half)) \in Seq(Tiles)
        /\ Len(Append(r, Tile(t.depth + 1, half, t.end - half))) = n + 1
        /\ \A j \in 1 .. n : Append(r, Tile(t.depth + 1, half, t.end - half))[j] = r[j]
        /\ Append(r, Tile(t.depth + 1, half, t.end - half))[n + 1]
               = Tile(t.depth + 1, half, t.end - half)
    BY <2>1, <1>0, <1>5, AppendProperties
  <2>3. q = Append(r, Tile(t.depth + 1, half, t.end - half))
    BY DEF r
  <2>. HIDE DEF q, half, t
  <2>. QED BY <2>1, <2>2, <2>3, <1>0, <1>1
<1>7. split(s) = [pending |-> q, trials |-> s.trials + 1, elapsed |-> s.elapsed,
                  nominal |-> s.nominal]
  BY <1>0, <1>1 DEF split, Tile
<1>. HIDE DEF q, half, t
<1>8. split(s) \in Schedules /\ split(s).pending = q
  <2>1. s.trials + 1 \in 0 .. MaxTrials
    BY <1>0 DEF trialsLeft
  <2>. QED BY <2>1, <1>0, <1>6, <1>7 DEF Schedules
<1>9. split(s).nominal = s.nominal /\ split(s).elapsed = s.elapsed
  BY <1>7
<1>10. Deep(q)
  <2>1. s.pending[n].depth >= n - 1 /\ \A i \in 1 .. n - 1 : s.pending[i].depth >= i
    BY <1>1 DEF ScheduleOK, Deep
  <2>2. t.depth + 1 >= n
    <3>1. t.depth >= n - 1 /\ t.depth \in Nat
      BY <2>1, <1>0, <1>1
    <3>. HIDE DEF t, n
    <3>. QED BY <3>1, <1>0
  <2>3. ASSUME NEW i \in 1 .. n PROVE q[i].depth >= i
    <3>1. CASE i = n
      BY <3>1, <2>2, <1>6 DEF Tile
    <3>2. CASE i # n
      <4>1. i \in 1 .. n - 1
        BY <3>2, <1>0
      <4>. QED BY <4>1, <2>1, <1>6
    <3>. QED BY <3>1, <3>2
  <2>4. q[n + 1].depth >= n
    BY <2>2, <1>6 DEF Tile
  <2>. QED BY <2>3, <2>4, <1>0, <1>6 DEF Deep
<1>11. WithinNominal(q, s.nominal)
  <2>1. half <= s.nominal
    BY <1>0, <1>1, <1>2
  <2>2. ASSUME NEW i \in 1 .. n + 1 PROVE q[i].width <= s.nominal
    <3>1. CASE i \in 1 .. n - 1
      BY <3>1, <1>0, <1>6 DEF ScheduleOK, WithinNominal
    <3>2. CASE i = n \/ i = n + 1
      BY <3>2, <2>1, <1>6 DEF Tile
    <3>. QED BY <3>1, <3>2, <1>0
  <2>. QED BY <2>2, <1>6 DEF WithinNominal
<1>12. Contiguous(q, s.elapsed, s.nominal)
  <2>1. q[1].end = s.nominal
    <3>1. s.pending[1].end = s.nominal
      BY <1>1 DEF ScheduleOK, Contiguous
    <3>2. CASE n = 1
      BY <3>1, <3>2, <1>1, <1>6 DEF Tile
    <3>3. CASE n # 1
      <4>1. 1 \in 1 .. n - 1
        <5>1. n \in Nat \ {0} /\ n # 1
          BY <3>3, <1>1
        <5>. HIDE DEF n
        <5>. QED BY <5>1
      <4>2. q[1] = s.pending[1]
        BY <4>1, <1>6
      <4>. QED BY <3>1, <4>2
    <3>. QED BY <3>2, <3>3
  <2>2. q[n + 1].end - q[n + 1].width = s.elapsed
    BY <1>0, <1>1, <1>2, <1>3, <1>6 DEF Tile
  <2>3. ASSUME NEW i \in 1 .. n PROVE q[i].end - q[i].width = q[i + 1].end
    <3>1. CASE i = n
      BY <3>1, <1>0, <1>1, <1>2, <1>6 DEF Tile
    <3>2. CASE i = n - 1
      <4>1. s.pending[i].end - s.pending[i].width = t.end
        BY <3>2, <1>0, <1>1 DEF ScheduleOK, Contiguous
      <4>. QED BY <4>1, <3>2, <1>1, <1>6 DEF Tile
    <3>3. CASE i < n - 1
      <4>1. s.pending[i].end - s.pending[i].width = s.pending[i + 1].end
        BY <3>3, <1>0, <1>1 DEF ScheduleOK, Contiguous
      <4>2. i \in 1 .. n - 1 /\ i + 1 \in 1 .. n - 1
        BY <3>3, <1>0
      <4>3. q[i] = s.pending[i]
        BY <4>2, <1>6
      <4>4. q[i + 1] = s.pending[i + 1]
        BY <4>2, <1>6
      <4>. QED BY <4>1, <4>3, <4>4
    <3>. QED BY <3>1, <3>2, <3>3, <1>1
  <2>. QED BY <2>1, <2>2, <2>3, <1>1, <1>6 DEF Contiguous
<1>13. ~done(split(s))
  BY <1>0, <1>1, <1>6, <1>8 DEF done
<1>. QED BY <1>8, <1>9, <1>10, <1>11, <1>12, <1>13 DEF ScheduleOK

LEMMA AcceptOK ==
    ASSUME NEW s, ScheduleOK(s), ~done(s), canAccept(s)
    PROVE  /\ ScheduleOK(accept(s))
           /\ accept(s).nominal = s.nominal
           /\ accept(s).elapsed = s.elapsed + step(s)
<1>. DEFINE n == Len(s.pending)
            rest == SubSeq(s.pending, 1, n - 1)
<1>0. /\ s.pending \in Seq(Tiles) /\ n \in Nat
      /\ s.trials \in 0 .. MaxTrials /\ s.elapsed \in Nat /\ s.nominal \in Nat
      /\ \A i \in 1 .. n : /\ s.pending[i] \in Tiles
                           /\ s.pending[i].depth \in 0 .. MaxDepth
                           /\ s.pending[i].width \in Nat \ {0}
                           /\ s.pending[i].end \in Nat
  BY PendingFacts
<1>1. n \in Nat \ {0} /\ current(s) = s.pending[n] /\ step(s) = s.pending[n].width
      /\ step(s) \in Nat \ {0}
  BY CurrentFacts DEF step, current
<1>2. /\ rest \in Seq(Tiles) /\ Len(rest) = n - 1
      /\ \A i \in 1 .. n - 1 : rest[i] = s.pending[i]
  <2>1. n - 1 \in Int /\ \A i \in 1 .. n - 1 : s.pending[i] \in Tiles
    BY <1>0, <1>1
  <2>2. /\ rest \in Seq(Tiles)
        /\ Len(rest) = IF 1 <= n - 1 THEN (n - 1) - 1 + 1 ELSE 0
        /\ \A i \in 1 .. (n - 1) - 1 + 1 : rest[i] = s.pending[1 + i - 1]
    BY <2>1, SubSeqProperties
  <2>. QED BY <2>2, <1>1
<1>3. rest = <<>> <=> n = 1
  <2>. HIDE DEF rest
  <2>1. rest = <<>> => Len(rest) = 0
    BY EmptySeq
  <2>2. rest # <<>> => Len(rest) \in Nat \ {0}
    BY <1>2, EmptySeq
  <2>. HIDE DEF n
  <2>. QED BY <2>1, <2>2, <1>1, <1>2
<1>4. s.pending[n].end - s.pending[n].width = s.elapsed /\ s.elapsed \in Nat
      /\ s.pending[n].end \in Nat
  BY <1>0, <1>1 DEF ScheduleOK, Contiguous, Schedules, Tiles
<1>5. n = 1 => s.nominal = s.elapsed + step(s)
  BY <1>0, <1>1, <1>4 DEF ScheduleOK, Contiguous, Schedules
<1>6. accept(s) = [pending |-> rest, trials |-> IF n = 1 THEN s.trials ELSE s.trials + 1,
                   elapsed |-> s.elapsed + step(s), nominal |-> s.nominal]
  BY <1>0, <1>1, <1>3, <1>5 DEF accept, ScheduleOK, Schedules
<1>. HIDE DEF rest
<1>7. accept(s) \in Schedules /\ accept(s).pending = rest
  <2>1. IF n = 1 THEN s.trials \in 0 .. MaxTrials ELSE s.trials + 1 \in 0 .. MaxTrials
    BY <1>0, <1>1 DEF canAccept, trialsLeft
  <2>2. s.elapsed + step(s) \in Nat
    BY <1>0, <1>1
  <2>. QED BY <2>1, <2>2, <1>0, <1>2, <1>6 DEF Schedules
<1>8. accept(s).nominal = s.nominal /\ accept(s).elapsed = s.elapsed + step(s)
  BY <1>6
<1>9. Deep(rest)
  <2>1. n > 1 => s.pending[n - 1].depth >= n - 1
    BY <1>0, <1>1 DEF ScheduleOK, Deep
  <2>2. n > 1 => rest[n - 1].depth \in Nat
    BY <1>0, <1>1, <1>2
  <2>3. \A i \in 1 .. n - 1 : s.pending[i].depth >= i
    BY <1>1 DEF ScheduleOK, Deep
  <2>4. \A i \in 1 .. n - 1 : rest[i].depth >= i
    BY <2>3, <1>2
  <2>. HIDE DEF n
  <2>5. \A i \in 1 .. (n - 1) - 1 : rest[i].depth >= i
    BY <2>4, <1>1
  <2>6. n - 1 > 0 => rest[n - 1].depth >= (n - 1) - 1
    BY <2>4, <2>2, <1>1
  <2>. QED BY <2>5, <2>6, <1>2, Zenon DEF Deep
<1>10. WithinNominal(rest, s.nominal)
  <2>1. \A i \in 1 .. n - 1 : s.pending[i].width <= s.nominal
    BY <1>1 DEF ScheduleOK, WithinNominal
  <2>2. \A i \in 1 .. n - 1 : rest[i].width <= s.nominal
    BY <2>1, <1>2, Zenon
  <2>. QED BY <2>2, <1>2, Zenon DEF WithinNominal
<1>11. Contiguous(rest, s.elapsed + step(s), s.nominal)
  <2>1. CASE n = 1
    BY <2>1, <1>2, <1>5 DEF Contiguous
  <2>2. CASE n > 1
    <3>1. rest[n - 1].end - rest[n - 1].width = s.elapsed + step(s)
      <4>1. n - 1 \in 1 .. n - 1 /\ (n - 1) + 1 = n
        BY <2>2, <1>0
      <4>2. s.pending[n - 1].end - s.pending[n - 1].width = s.pending[n].end
        BY <4>1 DEF ScheduleOK, Contiguous
      <4>3. rest[n - 1] = s.pending[n - 1]
        BY <4>1, <1>2
      <4>4. s.pending[n].end = s.elapsed + step(s)
        BY <1>0, <1>1, <1>4
      <4>. QED BY <4>2, <4>3, <4>4
    <3>2. rest[1].end = s.nominal
      BY <2>2, <1>0, <1>1, <1>2 DEF ScheduleOK, Contiguous
    <3>3. ASSUME NEW i \in 1 .. n - 2 PROVE rest[i].end - rest[i].width = rest[i + 1].end
      <4>1. i \in 1 .. n - 1 /\ i + 1 \in 1 .. n - 1
        BY <1>0
      <4>2. s.pending[i].end - s.pending[i].width = s.pending[i + 1].end
        BY <4>1 DEF ScheduleOK, Contiguous
      <4>3. rest[i] = s.pending[i]
        BY <4>1, <1>2
      <4>4. rest[i + 1] = s.pending[i + 1]
        BY <4>1, <1>2
      <4>. QED BY <4>2, <4>3, <4>4
    <3>4. Len(rest) = n - 1 /\ Len(rest) - 1 = n - 2 /\ Len(rest) > 0
      BY <2>2, <1>0, <1>2
    <3>5. rest[Len(rest)].end - rest[Len(rest)].width = s.elapsed + step(s)
      BY <3>1, <3>4
    <3>6. \A i \in 1 .. Len(rest) - 1 : rest[i].end - rest[i].width = rest[i + 1].end
      BY <3>3, <3>4
    <3>. HIDE DEF n
    <3>. QED BY <3>2, <3>4, <3>5, <3>6 DEF Contiguous
  <2>. HIDE DEF n
  <2>3. n = 1 \/ n > 1
    BY <1>1
  <2>. QED BY <2>1, <2>2, <2>3
<1>. QED BY <1>7, <1>8, <1>9, <1>10, <1>11 DEF ScheduleOK

-----------------------------------------------------------------------------
(* The time step.                                                           *)

\* The time step never exceeds what any of its limits allows, and is positive.
LEMMA SelectDT ==
    ASSUME NEW track \in Nat \ {0}, NEW lim \in [terminal : Nat, boundary : Nat]
    PROVE  /\ selectDT(track, lim) \in Nat \ {0}
           /\ selectDT(track, lim) <= track
           /\ /\ lim.boundary # None /\ lim.boundary <= track
              /\ lim.terminal = None \/ lim.boundary <= lim.terminal
              => selectDT(track, lim) = lim.boundary
BY DEF selectDT, None

LEMMA DistanceInt == ASSUME NEW s \in Int PROVE distance(s) \in Int
<1>1. s % Circumference \in Int /\ Circumference \div 4 \in Int
  BY TurnAssumption
<1>. QED BY <1>1, TurnAssumption DEF distance

\* The bisection finds a first return whenever the whole step passes the plane.
LEMMA FirstReturn ==
    ASSUME NEW s \in Int, NEW d \in Nat \ {0}, distance(s + Speed * d) >= 0
    PROVE  firstReturn(s, d, Speed) \in 1 .. d
<1>. DEFINE T == {h \in 1 .. d : distance(s + Speed * h) >= 0}
<1>1. d \in T /\ T \subseteq Nat /\ T # {}
  OBVIOUS
<1>2. \E h \in T : \A g \in T : ~ (<<g, h>> \in OpToRel(<, Nat))
  BY <1>1, NatLessThanWellFounded, WFMin
<1>3. PICK h \in T : \A g \in T : ~ (g < h)
  BY <1>1, <1>2 DEF OpToRel
<1>4. ASSUME NEW g \in 1 .. h - 1 PROVE distance(s + Speed * g) < 0
  <2>1. g \in 1 .. d /\ g < h
    OBVIOUS
  <2>2. distance(s + Speed * g) \in Int
    BY DistanceInt DEF Speed
  <2>. QED BY <2>1, <2>2, <1>3
<1>5. \E k \in 1 .. d : /\ distance(s + Speed * k) >= 0
                        /\ \A g \in 1 .. k - 1 : distance(s + Speed * g) < 0
  BY <1>4
<1>. QED BY <1>5 DEF firstReturn

LEMMA TerminalStep ==
    ASSUME NEW c, NEW s \in Int, NEW r, NEW d \in Nat \ {0}
    PROVE  terminalStep(c, s, r, d, Speed) \in 1 .. d
BY FirstReturn DEF terminalStep, returning

-----------------------------------------------------------------------------
(* The inductive invariant.                                                 *)

Types ==
    /\ command \in Commands
    /\ phase \in {"step", "trial", "drifted", "end", "failed"}
    /\ controlled \in BOOLEAN /\ active \in BOOLEAN
    /\ segment \in 1 .. Len(Segments)
    /\ stepsDone \in Nat /\ nominalStart \in Nat
    /\ limits \in [terminal : Nat, boundary : Nat]
    /\ dt \in Nat \ {0} /\ time \in Nat /\ beam \in Int /\ ref \in Nat
    /\ counter \in [armed : BOOLEAN, turns : Nat]
    /\ seen \in [from : Int, to : Int, refined : BOOLEAN]

\* A schedule in progress started at nominalStart, and no limit of the time
\* step is shorter than the nominal step it divides.
InProgress(s, start, lim) ==
    /\ ~done(s)
    /\ time = start + s.elapsed
    /\ s.nominal <= dtCurrentTrack
    /\ lim.terminal \in {None, s.nominal}

Scheduled ==
    /\ ScheduleOK(schedule)
    /\ controlled /\ ~done(schedule) => InProgress(schedule, nominalStart, limits)
    /\ phase = "trial" => controlled
    /\ controlled /\ phase \in {"trial", "drifted"} => ~done(schedule)
    /\ controlled /\ phase = "drifted" => dt = step(schedule)

\* Where reference, particles and the last observation are in every phase.
Together ==
    /\ ref = Speed * time
    /\ phase \in {"step", "trial", "end"} => beam = ref /\ seen.to = ref
    /\ phase = "drifted" => beam = ref + dt /\ seen.to = ref

IInv == Types /\ Scheduled /\ Together

LEMMA SegmentTypes ==
    ASSUME NEW c \in Commands
    PROVE  /\ Len(c.segments) \in Nat \ {0}
           /\ \A i \in 1 .. Len(c.segments) : /\ c.segments[i].dt \in Nat \ {0}
                                               /\ c.segments[i].steps \in Nat
<1>1. c.segments \in Seq([dt : Nat \ {0}, stop : Nat, steps : Nat]) /\ c.segments # <<>>
  BY SteppingAssumption
<1>2. \A x \in [dt : Nat \ {0}, stop : Nat, steps : Nat] : x.dt \in Nat \ {0} /\ x.steps \in Nat
  OBVIOUS
<1>3. Len(c.segments) \in Nat \ {0}
  BY <1>1, EmptySeq
<1>4. ASSUME NEW i \in 1 .. Len(c.segments)
      PROVE  c.segments[i] \in [dt : Nat \ {0}, stop : Nat, steps : Nat]
  BY <1>1, ElementOfSeq
<1>. QED BY <1>2, <1>3, <1>4

LEMMA TrackTypes == ASSUME Types PROVE dtCurrentTrack \in Nat \ {0}
BY SegmentTypes DEF Types, dtCurrentTrack, Segments

\* The plan of a step: its schedule, its start and its limits go together.
LEMMA FreshOK ==
    ASSUME Types, Scheduled
    PROVE  /\ ScheduleOK(fresh.schedule)
           /\ fresh.start \in Nat
           /\ fresh.limits \in [terminal : Nat, boundary : Nat]
           /\ fresh.dt \in Nat \ {0}
           /\ controlled => /\ InProgress(fresh.schedule, fresh.start, fresh.limits)
                            /\ fresh.dt <= dtCurrentTrack
<1>1. dtCurrentTrack \in Nat \ {0}
  BY TrackTypes
<1>2. CASE ~controlled
  BY <1>2 DEF fresh, Types, Scheduled
<1>3. CASE controlled
  <2>. DEFINE s == IF done(schedule) THEN emplace(dtCurrentTrack) ELSE schedule
              l == [terminal |-> None, boundary |-> step(s)]
              start == IF done(schedule) THEN time ELSE nominalStart
  <2>1. ScheduleOK(s) /\ ~done(s) /\ s.nominal <= dtCurrentTrack
    BY <1>1, <1>3, EmplaceOK DEF Scheduled, InProgress
  <2>2. time = start + s.elapsed /\ start \in Nat
    BY <1>1, <1>3, EmplaceOK DEF Scheduled, InProgress, Types
  <2>3. step(s) \in Nat \ {0}
    BY <2>1, CurrentFacts
  <2>4. l \in [terminal : Nat, boundary : Nat] /\ l.terminal = None
    BY <2>3 DEF None
  <2>5. selectDT(dtCurrentTrack, l) \in Nat \ {0} /\ selectDT(dtCurrentTrack, l) <= dtCurrentTrack
    BY <1>1, <2>4, SelectDT
  <2>6. fresh = [schedule |-> s, limits |-> l, dt |-> selectDT(dtCurrentTrack, l), start |-> start]
    BY <1>3 DEF fresh
  <2>. HIDE DEF s, l, start
  <2>. QED BY <2>1, <2>2, <2>4, <2>5, <2>6 DEF InProgress
<1>. QED BY <1>2, <1>3

LEMMA ChosenOK ==
    ASSUME Types, Scheduled
    PROVE  /\ ScheduleOK(chosen.schedule)
           /\ chosen.start \in Nat
           /\ chosen.limits \in [terminal : Nat, boundary : Nat]
           /\ chosen.dt \in Nat \ {0}
           /\ controlled => InProgress(chosen.schedule, chosen.start, chosen.limits)
<1>. DEFINE duration == terminalStep(counter, ref, Requested, fresh.dt, Speed)
<1>1. duration \in 1 .. fresh.dt /\ fresh.dt \in Nat \ {0}
  BY FreshOK, TerminalStep DEF Types
<1>. HIDE DEF duration
<1>2. CASE ~(duration < fresh.dt)
  BY <1>2, FreshOK DEF chosen, duration
<1>3. CASE duration < fresh.dt
  <2>1. chosen = terminal(fresh, duration)
    BY <1>3 DEF chosen, duration
  <2>2. duration \in Nat \ {0}
    BY <1>1
  <2>3. /\ ScheduleOK(emplace(duration)) /\ ~done(emplace(duration))
        /\ emplace(duration).nominal = duration /\ emplace(duration).elapsed = 0
    BY <2>2, EmplaceOK
  <2>4. /\ ScheduleOK(chosen.schedule) /\ chosen.start \in Nat /\ chosen.dt \in Nat \ {0}
    BY <2>1, <2>2, <2>3, FreshOK DEF terminal, Types
  <2>5. chosen.limits \in [terminal : Nat, boundary : Nat]
    BY <2>1, <2>2, FreshOK DEF terminal
  <2>6. controlled => InProgress(chosen.schedule, chosen.start, chosen.limits)
    <3>1. controlled => fresh.dt <= dtCurrentTrack /\ dtCurrentTrack \in Nat
      BY FreshOK, TrackTypes
    <3>. QED BY <3>1, <1>1, <2>1, <2>2, <2>3 DEF terminal, InProgress, Types
  <2>. QED BY <2>4, <2>5, <2>6
<1>. QED BY <1>2, <1>3

LEMMA InitInv == ASSUME Init PROVE IInv
<1>1. Types
  BY SegmentTypes DEF Init, Types, Segments, NewCounter, None
<1>. QED BY <1>1, NoScheduleOK DEF Init, IInv, Scheduled, Together, Speed

LEMMA BeginStepInv == ASSUME IInv, BeginStep PROVE IInv'
<1>1. Types' /\ dtCurrentTrack' = dtCurrentTrack
  BY ChosenOK DEF IInv, BeginStep, Types, Together, stepDue, dtCurrentTrack, Segments, input, progress
<1>2. Scheduled'
  <2>1. ScheduleOK(schedule')
    BY ChosenOK DEF IInv, BeginStep
  <2>2. controlled' => InProgress(schedule', nominalStart', limits')
    BY ChosenOK DEF IInv, BeginStep, input
  <2>3. controlled' => InProgress(schedule, nominalStart, limits)'
    BY <1>1, <2>2 DEF InProgress, BeginStep
  <2>4. (controlled' /\ phase' = "drifted" => FALSE) /\ (phase' = "trial" => controlled')
    BY DEF BeginStep, input
  <2>. QED BY <2>1, <2>3, <2>4 DEF Scheduled, InProgress
<1>3. Together'
  BY <1>1 DEF IInv, BeginStep, Together, stepDue, Types
<1>. QED BY <1>1, <1>2, <1>3 DEF IInv

LEMMA TerminalFailsInv == ASSUME IInv, TerminalFails PROVE IInv'
BY DEF IInv, TerminalFails, Types, Scheduled, InProgress, Together, input, progress, plan, state,
       dtCurrentTrack, Segments

\* A trial works with the interval on top of the schedule.
LEMMA TrialFacts ==
    ASSUME Types, Scheduled, controlled, phase \in {"trial", "drifted"}
    PROVE  /\ step(schedule) \in Nat \ {0}
           /\ [limits EXCEPT !.boundary = step(schedule)] \in [terminal : Nat, boundary : Nat]
           /\ [limits EXCEPT !.boundary = step(schedule)].terminal = limits.terminal
           /\ selectDT(dtCurrentTrack, [limits EXCEPT !.boundary = step(schedule)]) = step(schedule)
<1>. DEFINE l == [limits EXCEPT !.boundary = step(schedule)]
<1>1. /\ step(schedule) \in Nat \ {0} /\ step(schedule) <= schedule.nominal
      /\ schedule.nominal <= dtCurrentTrack /\ schedule.nominal \in Nat
      /\ limits.terminal \in {None, schedule.nominal}
  BY CurrentFacts, PendingFacts DEF Scheduled, InProgress
<1>2. /\ l \in [terminal : Nat, boundary : Nat] /\ l.terminal = limits.terminal
      /\ l.boundary = step(schedule)
  BY <1>1 DEF Types
<1>3. dtCurrentTrack \in Nat \ {0}
  BY TrackTypes
<1>. HIDE DEF l
<1>4. step(schedule) # None /\ step(schedule) <= dtCurrentTrack
      /\ (l.terminal = None \/ l.boundary <= l.terminal)
  BY <1>1, <1>2, <1>3 DEF None
<1>5. selectDT(dtCurrentTrack, l) = step(schedule)
  BY <1>2, <1>3, <1>4, SelectDT
<1>. QED BY <1>1, <1>2, <1>5 DEF l

LEMMA RejectUntriedInv == ASSUME IInv, RejectUntried PROVE IInv'
<1>0. controlled
  BY DEF IInv, Scheduled, RejectUntried
<1>1. /\ limits' \in [terminal : Nat, boundary : Nat] /\ limits'.terminal = limits.terminal
      /\ dt' \in Nat \ {0}
  BY <1>0, TrialFacts DEF IInv, RejectUntried
<1>2. Types' /\ dtCurrentTrack' = dtCurrentTrack
  BY <1>1 DEF IInv, RejectUntried, Types, input, progress, state, Segments, dtCurrentTrack
<1>3. canSplit(schedule) /\ ScheduleOK(schedule)
  BY DEF RejectUntried, mustSplitUntried, IInv, Scheduled
<1>4. CASE trialsLeft(schedule)
  <2>1. /\ ScheduleOK(schedule') /\ ~done(schedule') /\ schedule'.nominal = schedule.nominal
        /\ schedule'.elapsed = schedule.elapsed /\ phase' = "trial"
    BY <1>3, <1>4, SplitOK DEF RejectUntried
  <2>2. InProgress(schedule, nominalStart, limits)'
    BY <1>1, <1>2, <2>1 DEF RejectUntried, InProgress, IInv, Scheduled, state
  <2>3. Scheduled'
    BY <1>0, <2>1, <2>2 DEF Scheduled, RejectUntried, input
  <2>4. Together'
    BY <2>1 DEF IInv, Together, RejectUntried, state
  <2>. QED BY <1>2, <2>3, <2>4 DEF IInv
<1>5. CASE ~trialsLeft(schedule)
  <2>1. schedule' = schedule /\ phase' = "failed"
    BY <1>5 DEF RejectUntried
  <2>. QED BY <1>1, <1>2, <2>1 DEF IInv, Scheduled, InProgress, Together, RejectUntried, state
<1>. QED BY <1>4, <1>5

LEMMA HalfDriftInv == ASSUME IInv, HalfDrift PROVE IInv'
<1>0. controlled
  BY DEF IInv, Scheduled, HalfDrift
<1>1. /\ limits' \in [terminal : Nat, boundary : Nat] /\ limits'.terminal = limits.terminal
      /\ step(schedule) \in Nat \ {0} /\ dt' = step(schedule)
  BY <1>0, TrialFacts DEF IInv, HalfDrift
<1>2. Types' /\ dtCurrentTrack' = dtCurrentTrack
  BY <1>1 DEF IInv, HalfDrift, Types, input, progress, Segments, dtCurrentTrack
<1>3. Scheduled'
  BY <1>1, <1>2 DEF IInv, HalfDrift, Scheduled, InProgress
<1>4. Together'
  BY <1>1 DEF IInv, HalfDrift, Together
<1>. QED BY <1>2, <1>3, <1>4 DEF IInv

LEMMA RejectTrialInv == ASSUME IInv, RejectTrial PROVE IInv'
<1>1. controlled /\ canSplit(schedule) /\ ScheduleOK(schedule) /\ dt = step(schedule)
  BY DEF RejectTrial, mustSplit, IInv, Scheduled
<1>2. Types' /\ dtCurrentTrack' = dtCurrentTrack
  BY <1>1 DEF IInv, RejectTrial, Types, input, progress, Segments, dtCurrentTrack, reverseTrialDrift
<1>3. beam' = ref /\ seen.to = ref /\ ref = Speed * time
  BY <1>1 DEF IInv, RejectTrial, reverseTrialDrift, Together, Types
<1>4. CASE trialsLeft(schedule)
  <2>1. /\ ScheduleOK(schedule') /\ ~done(schedule') /\ schedule'.nominal = schedule.nominal
        /\ schedule'.elapsed = schedule.elapsed /\ phase' = "trial"
    BY <1>1, <1>4, SplitOK DEF RejectTrial
  <2>2. InProgress(schedule, nominalStart, limits)'
    BY <1>1, <1>2, <2>1 DEF RejectTrial, InProgress, IInv, Scheduled
  <2>3. Scheduled'
    BY <1>1, <2>1, <2>2 DEF Scheduled, RejectTrial, input
  <2>4. Together'
    BY <1>3, <2>1 DEF Together, RejectTrial
  <2>. QED BY <1>2, <2>3, <2>4 DEF IInv
<1>5. CASE ~trialsLeft(schedule)
  <2>1. schedule' = schedule /\ phase' = "failed"
    BY <1>5 DEF RejectTrial
  <2>. QED BY <1>1, <1>2, <1>3, <2>1 DEF IInv, Scheduled, InProgress, Together, RejectTrial, input
<1>. QED BY <1>4, <1>5

LEMMA AcceptFailsInv == ASSUME IInv, AcceptFails PROVE IInv'
<1>1. Types' /\ dtCurrentTrack' = dtCurrentTrack
  <2>1. canSplit(schedule) \in BOOLEAN
    BY DEF canSplit
  <2>2. beam - dt \in Int /\ beam + dt \in Int
    BY DEF IInv, Types
  <2>3. seen' \in [from : Int, to : Int, refined : BOOLEAN]
    BY <2>1, <2>2 DEF AcceptFails
  <2>. QED BY <2>2, <2>3 DEF IInv, AcceptFails, Types, input, progress, plan, Segments, dtCurrentTrack
<1>. QED BY <1>1 DEF IInv, AcceptFails, Scheduled, InProgress, Together, plan

\* The clock of an accepted interval: set from the schedule it advances by dt.
LEMMA CommitClock ==
    ASSUME IInv, Commit
    PROVE  /\ ScheduleOK(schedule')
           /\ time' = time + dt
           /\ controlled /\ ~done(schedule') =>
                 /\ time' = nominalStart + schedule'.elapsed
                 /\ schedule'.nominal = schedule.nominal
<1>1. CASE ~controlled
  BY <1>1 DEF Commit, IInv, Scheduled
<1>2. CASE controlled
  <2>1. ScheduleOK(schedule) /\ ~done(schedule) /\ canAccept(schedule) /\ dt = step(schedule)
        /\ time = nominalStart + schedule.elapsed
    BY <1>2 DEF Commit, IInv, Scheduled, InProgress
  <2>2. /\ ScheduleOK(accept(schedule)) /\ accept(schedule).nominal = schedule.nominal
        /\ accept(schedule).elapsed = schedule.elapsed + dt
    BY <2>1, AcceptOK
  <2>3. schedule' = accept(schedule) /\ time' = nominalStart + accept(schedule).elapsed
    BY <1>2 DEF Commit
  <2>4. schedule.elapsed \in Nat /\ nominalStart \in Nat /\ dt \in Nat
    BY <2>1, PendingFacts DEF IInv, Types
  <2>. QED BY <2>1, <2>2, <2>3, <2>4
<1>. QED BY <1>1, <1>2 DEF IInv, Types

LEMMA CommitTypes == ASSUME IInv, Commit PROVE Types' /\ dtCurrentTrack' = dtCurrentTrack
<1>1. /\ ref' = ref + Speed * dt /\ beam' = beam + dt /\ phase' = "step"
      /\ limits' = limits /\ dt' = dt /\ nominalStart' = nominalStart
  BY DEF Commit
<1>2. time' \in Nat /\ ref' \in Nat /\ beam' \in Int
  BY <1>1, CommitClock DEF IInv, Types, Speed
<1>3. stepsDone' \in Nat
  <2>1. stepsDone' = stepsDone + 1 \/ stepsDone' = stepsDone
    BY DEF Commit
  <2>. QED BY <2>1 DEF IInv, Types
<1>4. active' \in BOOLEAN
  <2>1. \E c, s : active' = ~atStop(c, s)
    BY DEF Commit
  <2>. QED BY <2>1
<1>5. counter' \in [armed : BOOLEAN, turns : Nat]
  <2>1. counter' = counter \/ counter' = update(counter, ref + Speed * dt)
    BY DEF Commit
  <2>2. ASSUME NEW s \in Int PROVE update(counter, s) \in [armed : BOOLEAN, turns : Nat]
    <3>1. counter.turns \in Nat /\ counter.turns + 1 \in Nat
      BY DEF IInv, Types
    <3>3. (IF counts(counter, s) THEN counter.turns + 1 ELSE counter.turns) \in Nat
      BY <3>1
    <3>2. (arming(counter, s) /\ ~counts(counter, s)) \in BOOLEAN
      OBVIOUS
    <3>. QED BY <3>2, <3>3 DEF update
  <2>3. ref + Speed * dt \in Int
    BY <1>1, <1>2
  <2>. QED BY <2>1, <2>2, <2>3 DEF IInv, Types
<1>6. seen' \in [from : Int, to : Int, refined : BOOLEAN]
  <2>1. beam - dt \in Int /\ beam + dt \in Int
    BY DEF IInv, Types
  <2>2. (controlled /\ canSplit(schedule)) \in BOOLEAN
    OBVIOUS
  <2>. QED BY <2>1, <2>2 DEF Commit
<1>. QED BY <1>1, <1>2, <1>3, <1>4, <1>5, <1>6
     DEF Commit, IInv, Types, input, Segments, dtCurrentTrack

LEMMA CommitInv == ASSUME IInv, Commit PROVE IInv'
<1>1. Types' /\ dtCurrentTrack' = dtCurrentTrack
  BY CommitTypes
<1>2. Scheduled'
  <2>1. ScheduleOK(schedule') /\ phase' = "step"
    BY CommitClock DEF Commit
  <2>2. ASSUME controlled, ~done(schedule') PROVE InProgress(schedule, nominalStart, limits)'
    <3>1. controlled /\ schedule.nominal <= dtCurrentTrack /\ limits.terminal \in {None, schedule.nominal}
      BY <2>2 DEF IInv, Scheduled, InProgress, Commit
    <3>. QED BY <1>1, <2>2, <3>1, CommitClock DEF InProgress, Commit
  <2>. QED BY <2>1, <2>2 DEF Scheduled, Commit, input
<1>3. Together'
  <2>1. /\ ref' = ref + Speed * dt /\ beam' = beam + dt /\ phase' = "step"
        /\ seen'.to = beam + dt /\ beam = ref + dt
    BY DEF Commit, IInv, Together
  <2>2. time' = time + dt /\ ref = Speed * time
    BY CommitClock DEF IInv, Together
  <2>. QED BY <2>1, <2>2 DEF Together, IInv, Types, Speed
<1>. QED BY <1>1, <1>2, <1>3 DEF IInv

LEMMA EndSegmentInv == ASSUME IInv, EndSegment PROVE IInv'
<1>1. CASE segment < Len(Segments)
  <2>1. /\ segment' = segment + 1 /\ stepsDone' = 0 /\ active' = TRUE
        /\ dt' = selectDT(Segments[segment + 1].dt, limits)
        /\ schedule' = NoSchedule /\ nominalStart' = 0 /\ phase' = "step"
    BY <1>1 DEF EndSegment
  <2>2. Len(Segments) \in Nat /\ segment + 1 \in 1 .. Len(Segments)
    BY <1>1, SegmentTypes DEF IInv, Types, Segments
  <2>3. Segments[segment + 1].dt \in Nat \ {0}
    BY <2>2, SegmentTypes DEF IInv, Types, Segments
  <2>4. dt' \in Nat \ {0}
    BY <2>1, <2>3, SelectDT DEF IInv, Types
  <2>5. Types'
    BY <2>1, <2>2, <2>4 DEF IInv, Types, EndSegment, input, state, Segments
  <2>. QED BY <2>1, <2>5, NoScheduleOK DEF IInv, Scheduled, Together, EndSegment, state
<1>2. CASE ~(segment < Len(Segments))
  <2>1. UNCHANGED <<input, progress, schedule, nominalStart, dt, limits, state>>
        /\ phase' \in {"failed", "end"} /\ phase = "step"
    BY <1>2 DEF EndSegment
  <2>. QED BY <2>1 DEF IInv, Types, Scheduled, InProgress, Together, input, progress, state,
                       dtCurrentTrack, Segments
<1>. QED BY <1>1, <1>2

LEMMA Step == ASSUME IInv, [Next]_vars PROVE IInv'
<1>1. CASE Next
  BY <1>1, BeginStepInv, TerminalFailsInv, RejectUntriedInv, HalfDriftInv, RejectTrialInv,
     CommitInv, AcceptFailsInv, EndSegmentInv DEF Next
<1>2. CASE UNCHANGED vars
  BY <1>2 DEF vars, input, progress, plan, state, IInv, Types, Scheduled, InProgress, Together,
              dtCurrentTrack, Segments
<1>. QED BY <1>1, <1>2

THEOREM Inductive == Spec => []IInv
BY InitInv, Step, PTL DEF Spec

-----------------------------------------------------------------------------
(* The results.                                                             *)

\* What the stack of intervals may hold is bounded by its depth.
LEMMA StackBounded ==
    ASSUME NEW s, ScheduleOK(s)
    PROVE  Len(s.pending) <= MaxDepth + 1
<1>1. /\ Len(s.pending) \in Nat
      /\ \A i \in 1 .. Len(s.pending) : s.pending[i].depth \in 0 .. MaxDepth
  BY PendingFacts
<1>2. Len(s.pending) > 0 => s.pending[Len(s.pending)].depth >= Len(s.pending) - 1
  BY DEF ScheduleOK, Deep
<1>. QED BY <1>1, <1>2

\* Types hold, and the stack of intervals fits the array of depths, whatever
\* the depth, the budget, the ring and the particles are.
THEOREM TypeCorrect == Spec => []TypeOK
<1>1. IInv => TypeOK
  <2>1. SUFFICES ASSUME IInv PROVE TypeOK
    OBVIOUS
  <2>2. ScheduleOK(schedule)
    BY <2>1 DEF IInv, Scheduled
  <2>3. /\ schedule.trials \in 0 .. MaxTrials /\ schedule.elapsed \in Nat
        /\ schedule.nominal \in Nat /\ Len(schedule.pending) <= MaxDepth + 1
        /\ schedule.pending \in Seq(Tiles)
        /\ \A i \in 1 .. Len(schedule.pending) :
              /\ schedule.pending[i].depth \in 0 .. MaxDepth
              /\ schedule.pending[i].width \in Nat \ {0}
              /\ schedule.pending[i].end \in Nat
    BY <2>2, StackBounded, PendingFacts
  <2>4. DOMAIN schedule.pending = 1 .. Len(schedule.pending)
    BY <2>3
  <2>. QED BY <2>1, <2>3, <2>4 DEF IInv, Types, TypeOK
<1>. QED BY <1>1, Inductive, PTL

\* The pending intervals and the elapsed time always partition the nominal step.
THEOREM Tiling == Spec => []TilesTheStep
<1>1. IInv => TilesTheStep
  BY DEF IInv, Scheduled, ScheduleOK, Contiguous, TilesTheStep
<1>. QED BY <1>1, Inductive, PTL

\* The clock, the reference and the particles never part.
THEOREM ClockCorrect == Spec => []ClockFollowsBeam
<1>1. IInv => ClockFollowsBeam
  BY DEF IInv, Together, Types, ClockFollowsBeam
<1>. QED BY <1>1, Inductive, PTL

\* Monitors observe every stretch of the path once and in order.
THEOREM Observation == Spec => ObservedOnce
<1>1. ASSUME IInv, [Next]_vars PROVE [seen' # seen => seen'.from = seen.to]_vars
  <2>1. CASE Commit \/ AcceptFails
    <3>1. seen'.from = beam - dt /\ beam = ref + dt /\ seen.to = ref /\ ref \in Nat /\ dt \in Nat
      BY <1>1, <2>1 DEF IInv, Together, Types, Commit, AcceptFails
    <3>. QED BY <3>1
  <2>2. CASE ~(Commit \/ AcceptFails)
    BY <1>1, <2>2 DEF Next, BeginStep, TerminalFails, RejectUntried, HalfDrift, RejectTrial,
                      EndSegment, state, vars
  <2>. QED BY <2>1, <2>2
<1>. QED BY <1>1, Inductive, PTL DEF Spec, ObservedOnce

-----------------------------------------------------------------------------
(* Elements.                                                                *)

\* The hypothesis of the next result: what the ring has besides an element is not
\* shorter than an eighth of the element, unless the element is the whole ring. Beyond
\* it a particle can leave an element and be back within half a step.
RoomBesideElements ==
    \A L \in Lattices : \A e \in L : \/ e.end - e.begin = Circumference
                                     \/ 9 * (e.end - e.begin) <= 8 * Circumference

\* A step that passes both tests meets the same elements everywhere.
LEMMA SameSupport ==
    ASSUME RoomBesideElements, lattice \in Lattices, bunch \in Bunches,
           ref \in Nat, NEW h \in Nat \ {0}, ~boundaryCrossed(h), ~exceedsMaximumStep(h),
           NEW o \in bunch \cup {0}, NEW s \in ref .. ref + 2 * h
    PROVE  support(s + o) = support(ref + o)
<1>. DEFINE x == ref + o
            y == s + o
<1>1. o \in Int /\ x \in Int /\ y \in Int
  BY SteppingAssumption
<1>2. support(x) = support(x + h) /\ support(x) = support(x + 2 * h)
  BY DEF boundaryCrossed
<1>3. ASSUME NEW e \in lattice PROVE contains(e, y) <=> contains(e, x)
  <2>. DEFINE a == e.begin
              b == e.end
              m == Circumference
              In(z) == z % m \in a .. b - 1
  <2>1. a \in 0 .. m - 1 /\ b \in a + 1 .. m /\ m \in Nat \ {0}
    BY SteppingAssumption, TurnAssumption
  <2>2. /\ 8 * h <= b - a
        /\ b - a = m \/ 9 * (b - a) <= 8 * m
    <3>1. b - a = m \/ 9 * (b - a) <= 8 * m
      BY DEF RoomBesideElements
    <3>2. ~ (4 * Speed * h > b - a)
      BY DEF exceedsMaximumStep
    <3>3. 4 * Speed * h = 8 * h
      BY DEF Speed
    <3>. HIDE DEF a, b, m
    <3>. QED BY <2>1, <3>1, <3>2, <3>3
  <2>3. \A z \in Int : contains(e, z) <=> In(z)
    BY DEF contains
  <2>4. /\ In(x) <=> In(x + h)
        /\ In(x) <=> In(x + 2 * h)
    <3>1. \A z : e \in support(z) <=> contains(e, z)
      BY DEF support
    <3>2. contains(e, x) <=> contains(e, x + h)
      BY <1>2, <3>1
    <3>3. contains(e, x) <=> contains(e, x + 2 * h)
      BY <1>2, <3>1
    <3>. QED BY <1>1, <2>3, <3>2, <3>3
  <2>5. y = x + (s - ref) /\ s - ref \in 0 .. 2 * h
    BY SteppingAssumption
  <2>. HIDE DEF a, b, m, x, y
  <2>6. b - a = m \/ (h <= b - a /\ h <= m - (b - a))
    BY <2>1, <2>2
  <2>7. \A p, q \in Int : \A z \in p .. q :
           q - p = h /\ (In(p) <=> In(q)) => (In(z) <=> In(p))
    <3>. SUFFICES ASSUME NEW p \in Int, NEW q \in Int, NEW z \in p .. q,
                         q - p = h, In(p) <=> In(q)
                  PROVE  In(z) <=> In(p)
      OBVIOUS
    <3>1. b - a = m \/ (q - p <= b - a /\ q - p <= m - (b - a))
      BY <2>6
    <3>2. p % m \in a .. b - 1 <=> q % m \in a .. b - 1
      OBVIOUS
    <3>. QED BY <2>1, <3>1, <3>2, WholeStretch
  <2>. HIDE DEF In
  <2>8. x + h \in Int /\ x + 2 * h \in Int /\ (x + h) - x = h /\ (x + 2 * h) - (x + h) = h
    BY <1>1
  <2>9. y \in x .. x + h \/ y \in x + h .. x + 2 * h
    BY <1>1, <2>5
  <2>10. In(y) <=> In(x)
    BY <1>1, <2>4, <2>7, <2>8, <2>9
  <2>. QED BY <1>1, <2>3, <2>10
<1>. QED BY <1>3 DEF support

\* The ring and the bunch are those of the constants, and what has drifted and can
\* be bisected was not too long to be tried.
Tried ==
    /\ lattice \in Lattices /\ bunch \in Bunches
    /\ phase = "drifted" /\ controlled /\ canSplit(schedule)
          => ~exceedsMaximumStep(step(schedule))

\* The elements along a step are those at its start when the step was observed
\* although it could have been bisected.
LEMMA ObservedSupport ==
    ASSUME RoomBesideElements, IInv, Tried, phase = "drifted", controlled,
           canSplit(schedule), ~mustSplit
    PROVE  \A o \in bunch \cup {0} : \A s \in beam - dt .. beam + dt :
               support(s + o) = support((beam - dt) + o)
<1>. DEFINE h == step(schedule)
<1>1. /\ dt = h /\ dt \in Nat \ {0} /\ ref \in Nat /\ beam = ref + dt
  BY DEF IInv, Types, Scheduled, Together
<1>2. ~boundaryCrossed(h) /\ ~exceedsMaximumStep(h) /\ lattice \in Lattices /\ bunch \in Bunches
  BY DEF mustSplit, Tried
<1>. HIDE DEF h
<1>3. beam - dt = ref /\ beam + dt = ref + 2 * h /\ h \in Nat \ {0} /\ ref \in Nat
  BY <1>1
<1>4. ASSUME NEW o \in bunch \cup {0}, NEW s \in ref .. ref + 2 * h
      PROVE  support(s + o) = support(ref + o)
  BY <1>2, <1>3, SameSupport
<1>. QED BY <1>3, <1>4

LEMMA TriedStep == ASSUME IInv, Tried, [Next]_vars PROVE Tried'
<1>1. lattice' = lattice /\ bunch' = bunch /\ controlled' = controlled
  BY DEF Next, BeginStep, TerminalFails, RejectUntried, HalfDrift, RejectTrial, Commit,
         AcceptFails, EndSegment, input, vars
<1>2. ASSUME phase' = "drifted", controlled, canSplit(schedule')
      PROVE  ~exceedsMaximumStep(step(schedule))'
  <2>1. CASE HalfDrift
    <3>1. schedule' = schedule /\ ~mustSplitUntried
      BY <2>1 DEF HalfDrift
    <3>2. ~exceedsMaximumStep(step(schedule)) /\ step(schedule') = step(schedule)
      BY <1>2, <3>1 DEF mustSplitUntried
    <3>. QED BY <1>1, <3>1, <3>2 DEF exceedsMaximumStep
  <2>2. CASE UNCHANGED vars
    BY <1>1, <1>2, <2>2 DEF Tried, vars, plan, exceedsMaximumStep
  <2>3. CASE Next /\ ~HalfDrift
    BY <1>2, <2>3 DEF Next, BeginStep, TerminalFails, RejectUntried, RejectTrial, Commit,
                      AcceptFails, EndSegment
  <2>. QED BY <2>1, <2>2, <2>3
<1>. QED BY <1>1, <1>2 DEF Tried

LEMMA SkippedStep ==
    ASSUME RoomBesideElements, IInv, Tried, NoElementSkipped, [Next]_vars
    PROVE  NoElementSkipped'
<1>1. lattice' = lattice /\ bunch' = bunch
  BY DEF Next, BeginStep, TerminalFails, RejectUntried, HalfDrift, RejectTrial, Commit,
         AcceptFails, EndSegment, input, vars
<1>2. CASE seen' = seen
  BY <1>1, <1>2 DEF NoElementSkipped, support
<1>3. CASE Commit \/ AcceptFails
  <2>1. /\ phase = "drifted" /\ ~mustSplit
        /\ seen'.refined => controlled /\ canSplit(schedule)
        /\ seen'.from = beam - dt /\ seen'.to = beam + dt
    <3>1. CASE Commit
      BY <3>1 DEF Commit
    <3>2. CASE AcceptFails
      BY <3>2 DEF AcceptFails
    <3>. QED BY <1>3, <3>1, <3>2
  <2>2. SUFFICES ASSUME seen'.refined
                 PROVE  \A o \in bunch \cup {0} : \A s \in beam - dt .. beam + dt :
                            support(s + o) = support((beam - dt) + o)
    BY <1>1, <2>1 DEF NoElementSkipped, support
  <2>. QED BY <2>1, <2>2, ObservedSupport
<1>4. CASE ~(seen' = seen) /\ ~(Commit \/ AcceptFails)
  BY <1>4 DEF Next, BeginStep, TerminalFails, RejectUntried, HalfDrift, RejectTrial,
              EndSegment, state, vars
<1>. QED BY <1>2, <1>3, <1>4

\* On a ring with room beside its elements, whatever the elements, the particles and
\* the depth of the bisection are: an accepted step that could still have been
\* bisected meets, for every particle, the same elements everywhere on it, although
\* the code compares only its start, its midpoint and its end.
THEOREM ElementsMet ==
    ASSUME RoomBesideElements
    PROVE  Spec => []NoElementSkipped
<1>1. Init => Tried /\ NoElementSkipped
  BY DEF Init, Tried, NoElementSkipped
<1>2. IInv /\ Tried /\ NoElementSkipped /\ [Next]_vars => Tried' /\ NoElementSkipped'
  BY TriedStep, SkippedStep
<1>. QED BY <1>1, <1>2, Inductive, PTL DEF Spec

-----------------------------------------------------------------------------
(* Turns.                                                                   *)

\* The hypothesis of the last result, which terminalStep() and update() assume: a step
\* covers at most a quarter of the ring, and cannot pass over the half of it in which the
\* counter is armed.
ResolvingSteps ==
    \A c \in Commands : c.turns > 0 =>
        /\ 4 * (Speed * c.segments[1].dt) <= Circumference
        /\ 2 * (Speed * c.segments[1].dt) + 4 * Tolerance < Circumference

Quarter == Circumference \div 4

\* The ring has four quarters.
LEMMA Quarters == Quarter \in Nat \ {0} /\ Circumference = 4 * Quarter
<1>1. Circumference \in Nat \ {0} /\ Circumference % 4 = 0
  BY TurnAssumption
<1>2. Circumference = 4 * (Circumference \div 4)
  BY <1>1
<1>3. Circumference \div 4 \in Nat \ {0}
  BY <1>1, <1>2
<1>. QED BY <1>2, <1>3 DEF Quarter

\* The position r past the launch plane after k turns.
At(k, r) == k * Circumference + r

\* The launch plane as seen from there.
LEMMA DistanceAt ==
    ASSUME NEW k \in Int, NEW r \in 0 .. Circumference - 1
    PROVE  /\ distance(At(k, r)) = IF r <= Quarter THEN r
                                   ELSE IF r <= 3 * Quarter THEN 2 * Quarter - r
                                   ELSE r - 4 * Quarter
           /\ forward(At(k, r)) <=> r < Quarter \/ r > 3 * Quarter
<1>. DEFINE s == At(k, r)
<1>1. s % Circumference = r
  BY ResidueOf, TurnAssumption DEF At
<1>2. Circumference = 4 * Quarter /\ Circumference \div 4 = Quarter
  BY Quarters DEF Quarter
<1>. HIDE DEF s
<1>3. /\ distance(s) = IF r <= Quarter THEN r
                       ELSE IF r <= 3 * Quarter THEN 2 * Quarter - r ELSE r - Circumference
      /\ forward(s) <=> r < Quarter \/ r > 3 * Quarter
  BY <1>1, <1>2 DEF distance, forward
<1>. QED BY <1>2, <1>3 DEF s

\* A counter is right at s: it has the number of turns of the path, and is armed when the path
\* since the launch plane is beyond the tolerance past the opposite point.
TurnOK(c, s) ==
    \E r \in 0 .. Circumference - 1 :
        /\ s = At(c.turns, r)
        /\ c.armed => 2 * r > Circumference
        /\ ~c.armed => 2 * r <= Circumference + 2 * Tolerance

Resolving(d) == /\ d \in Nat \ {0} /\ 4 * d <= Circumference
                /\ 2 * d + 4 * Tolerance < Circumference

\* The counter stays right, however it has been armed.
LEMMA UpdateFollows ==
    ASSUME NEW c \in [armed : BOOLEAN, turns : Nat], NEW s \in Nat, TurnOK(c, s),
           NEW d, Resolving(d)
    PROVE  TurnOK(update(c, s + d), s + d)
<1>. DEFINE q == Quarter
            x == s + d
            u == update(c, x)
<1>1. q \in Nat \ {0} /\ Circumference = 4 * q
  BY Quarters
<1>2. PICK r \in 0 .. Circumference - 1 :
          /\ s = At(c.turns, r)
          /\ c.armed => 2 * r > Circumference
          /\ ~c.armed => 2 * r <= Circumference + 2 * Tolerance
  BY DEF TurnOK
<1>. HIDE DEF q
<1>3. /\ d \in Nat \ {0} /\ d <= q /\ d + 2 * Tolerance < 2 * q /\ Tolerance \in Nat \ {0}
      /\ r \in 0 .. 4 * q - 1 /\ c.turns \in Nat
      /\ c.armed => r > 2 * q
      /\ ~c.armed => r <= 2 * q + Tolerance
  <2>1. d \in Nat \ {0} /\ 4 * d <= Circumference /\ 2 * d + 4 * Tolerance < Circumference
    BY DEF Resolving
  <2>2. Tolerance \in Nat \ {0}
    BY TurnAssumption
  <2>. QED BY <1>1, <1>2, <2>1, <2>2
<1>4. x = At(c.turns, r + d) /\ x = At(c.turns + 1, r + d - 4 * q)
  <2>. DEFINE T == c.turns * Circumference
  <2>1. T \in Int /\ (c.turns + 1) * Circumference = T + 4 * q
    BY <1>1, <1>3
  <2>2. s = T + r
    BY <1>2 DEF At
  <2>. HIDE DEF T
  <2>3. x = T + (r + d) /\ x = (T + 4 * q) + (r + d - 4 * q)
    BY <1>1, <1>3, <2>1, <2>2
  <2>. QED BY <2>1, <2>3 DEF T, At
<1>5. \A k \in Int : \A y \in 0 .. 4 * q - 1 :
         /\ distance(At(k, y)) = IF y <= q THEN y ELSE IF y <= 3 * q THEN 2 * q - y ELSE y - 4 * q
         /\ forward(At(k, y)) <=> y < q \/ y > 3 * q
  BY <1>1, DistanceAt DEF q
<1>6. CASE r + d < 4 * q
  <2>. DEFINE y == r + d
  <2>1. y \in 0 .. 4 * q - 1 /\ x = At(c.turns, y) /\ y >= r
    BY <1>1, <1>3, <1>4, <1>6
  <2>. HIDE DEF x, y
  <2>2. /\ distance(x) = IF y <= q THEN y ELSE IF y <= 3 * q THEN 2 * q - y ELSE y - 4 * q
        /\ forward(x) <=> y < q \/ y > 3 * q
    BY <1>3, <1>5, <2>1
  <2>3. c.armed => distance(x) < 0
    BY <1>1, <1>3, <2>1, <2>2
  <2>4. ~c.armed => (distance(x) < -Tolerance <=> y > 2 * q + Tolerance)
    BY <1>1, <1>3, <2>1, <2>2 DEF y
  <2>5. distance(x) \in Int
    BY <1>1, <2>1, <2>2
  <2>6. ~counts(c, x) /\ (arming(c, x) => y > 2 * q) /\ (~arming(c, x) => y <= 2 * q + Tolerance)
    <3>1. CASE c.armed
      BY <1>1, <1>3, <2>1, <2>3, <2>5, <3>1 DEF counts, arming
    <3>2. CASE ~c.armed
      BY <1>1, <1>3, <2>1, <2>4, <2>5, <3>2 DEF counts, arming
    <3>. QED BY <3>1, <3>2
  <2>7. u.turns = c.turns /\ (u.armed <=> arming(c, x))
    BY <2>6 DEF update
  <2>. HIDE DEF u
  <2>8. /\ y \in 0 .. Circumference - 1 /\ x = At(u.turns, y)
        /\ u.armed => 2 * y > Circumference
        /\ ~u.armed => 2 * y <= Circumference + 2 * Tolerance
    BY <1>1, <1>3, <2>1, <2>6, <2>7
  <2>9. TurnOK(u, x)
    BY <2>8 DEF TurnOK
  <2>. QED BY <2>9 DEF x, u
<1>7. CASE r + d >= 4 * q
  <2>. DEFINE y == r + d - 4 * q
  <2>1. c.armed /\ y \in 0 .. q - 1 /\ y \in 0 .. 4 * q - 1
    BY <1>1, <1>3, <1>7
  <2>2. x = At(c.turns + 1, y) /\ c.turns + 1 \in Int
    BY <1>3, <1>4
  <2>. HIDE DEF x, y
  <2>3. distance(x) = y /\ forward(x)
    <3>1. /\ distance(x) = IF y <= q THEN y ELSE IF y <= 3 * q THEN 2 * q - y ELSE y - 4 * q
          /\ forward(x) <=> y < q \/ y > 3 * q
      BY <1>5, <2>1, <2>2
    <3>. QED BY <1>1, <2>1, <3>1
  <2>4. counts(c, x)
    BY <1>1, <2>1, <2>3 DEF counts, arming
  <2>5. u.turns = c.turns + 1 /\ ~u.armed
    BY <2>4 DEF update
  <2>. HIDE DEF u
  <2>6. /\ y \in 0 .. Circumference - 1 /\ x = At(u.turns, y)
        /\ ~u.armed /\ 2 * y <= Circumference + 2 * Tolerance
    BY <1>1, <1>3, <2>1, <2>2, <2>5
  <2>7. TurnOK(u, x)
    BY <2>6 DEF TurnOK
  <2>. QED BY <2>7 DEF x, u
<1>. QED BY <1>1, <1>3, <1>6, <1>7

\* A later turn is farther along the path.
LEMMA TurnsGrow ==
    ASSUME NEW a \in Int, NEW b \in Int, a <= b
    PROVE  /\ a * Circumference \in Int /\ b * Circumference \in Int
           /\ a * Circumference <= b * Circumference
           /\ (a + 1) * Circumference = a * Circumference + Circumference
<1>1. Circumference \in Nat \ {0}
  BY TurnAssumption
<1>2. \A k \in Int, m \in Nat : k >= 0 => k * m >= 0
  OBVIOUS
<1>3. (b - a) * Circumference >= 0
  BY <1>1, <1>2
<1>4. (b - a) * Circumference = b * Circumference - a * Circumference
  BY <1>1
<1>. QED BY <1>1, <1>3, <1>4

\* The first return from an even position is met exactly.
LEMMA ReturnIsExact ==
    ASSUME NEW k \in Nat, NEW t \in Nat, NEW r \in 0 .. Circumference - 1,
           2 * t = At(k, r), r >= 3 * Quarter, NEW d \in Nat \ {0},
           r + 2 * d >= Circumference
    PROVE  /\ firstReturn(2 * t, d, Speed) \in 1 .. d
           /\ 2 * t + 2 * firstReturn(2 * t, d, Speed) = (k + 1) * Circumference
<1>. DEFINE q == Quarter
            s == 2 * t
            n == k * q
            h0 == 2 * q - t + 2 * n
            Is(h) == /\ distance(s + Speed * h) >= 0
                     /\ \A g \in 1 .. h - 1 : distance(s + Speed * g) < 0
<1>1. q \in Nat \ {0} /\ Circumference = 4 * q
  BY Quarters
<1>2. n \in Int /\ k * Circumference = 4 * n /\ (k + 1) * Circumference = 4 * n + 4 * q
  BY <1>1
<1>3. s = 4 * n + r
  BY <1>2 DEF At
<1>4. \A j \in Int : \A y \in 0 .. 4 * q - 1 :
         distance(At(j, y)) = IF y <= q THEN y ELSE IF y <= 3 * q THEN 2 * q - y ELSE y - 4 * q
  BY <1>1, DistanceAt DEF q
<1>5. r >= 3 * q /\ r + 2 * d >= 4 * q /\ r \in 0 .. 4 * q - 1
  BY <1>1
<1>. HIDE DEF q, n
<1>6. h0 \in 1 .. d /\ 2 * h0 = 4 * q - r
  BY <1>1, <1>2, <1>3, <1>5
<1>. HIDE DEF h0
<1>7. s + Speed * h0 = 4 * n + 4 * q /\ At(k + 1, 0) = 4 * n + 4 * q
  BY <1>1, <1>2, <1>3, <1>6 DEF Speed, At
<1>8. distance(s + Speed * h0) = 0
  <2>1. k + 1 \in Int /\ 0 \in 0 .. 4 * q - 1 /\ 0 <= q
    BY <1>1
  <2>2. distance(At(k + 1, 0)) = 0
    BY <1>4, <2>1
  <2>. QED BY <1>7, <2>2
<1>9. ASSUME NEW g \in 1 .. h0 - 1 PROVE distance(s + Speed * g) < 0
  <2>. DEFINE y == r + 2 * g
  <2>1. y \in 0 .. 4 * q - 1 /\ y > 3 * q /\ g \in Nat
    BY <1>1, <1>5, <1>6
  <2>2. s + Speed * g = At(k, y)
    <3>1. At(k, y) = 4 * n + y
      BY <1>2 DEF At
    <3>. HIDE DEF s
    <3>. QED BY <1>2, <1>3, <2>1, <3>1 DEF Speed
  <2>. HIDE DEF y, s
  <2>3. distance(At(k, y)) = y - 4 * q
    <3>1. ~ (y <= q) /\ ~ (y <= 3 * q) /\ k \in Int
      BY <1>1, <2>1
    <3>. QED BY <1>4, <2>1, <3>1
  <2>. QED BY <1>1, <2>1, <2>2, <2>3
<1>10. Is(h0)
  BY <1>8, <1>9
<1>11. ASSUME NEW h \in 1 .. d, Is(h) PROVE h = h0
  <2>1. CASE h < h0
    <3>1. h \in 1 .. h0 - 1
      BY <1>6, <2>1
    <3>2. distance(s + Speed * h) < 0
      BY <1>9, <3>1
    <3>3. distance(s + Speed * h) \in Int
      BY DistanceInt DEF Speed
    <3>. QED BY <1>11, <3>2, <3>3
  <2>2. CASE h0 < h
    <3>1. h0 \in 1 .. h - 1
      BY <1>6, <2>2
    <3>. QED BY <1>8, <1>11, <3>1
  <2>. QED BY <1>6, <2>1, <2>2
<1>12. firstReturn(s, d, Speed) = h0
  <2>1. firstReturn(s, d, Speed) = CHOOSE h \in 1 .. d : Is(h)
    BY DEF firstReturn
  <2>. HIDE DEF Is
  <2>. QED BY <1>6, <1>10, <1>11, <2>1
<1>. QED BY <1>2, <1>3, <1>6, <1>7, <1>12 DEF Speed

\* The step that the last turn allows does not pass the requested turns, and ends on them
\* when it is shortened.
LEMMA TerminalExact ==
    ASSUME NEW c \in [armed : BOOLEAN, turns : Nat], NEW t \in Nat, TurnOK(c, 2 * t),
           NEW Q \in Nat, c.turns < Q, NEW d \in Nat \ {0}, Resolving(Speed * d)
    PROVE  LET T == terminalStep(c, 2 * t, Q, d, Speed)
           IN  /\ 2 * t + Speed * T <= Q * Circumference
               /\ T < d => 2 * t + Speed * T = Q * Circumference
<1>. DEFINE q == Quarter
            s == 2 * t
            k == c.turns
            T == terminalStep(c, s, Q, d, Speed)
<1>1. q \in Nat \ {0} /\ Circumference = 4 * q /\ Tolerance \in Nat \ {0} /\ k \in Nat
  BY Quarters, TurnAssumption
<1>2. PICK r \in 0 .. Circumference - 1 :
          /\ s = At(k, r)
          /\ c.armed => 2 * r > Circumference
          /\ ~c.armed => 2 * r <= Circumference + 2 * Tolerance
  BY DEF TurnOK
<1>3. 2 * d <= q /\ 2 * d + 2 * Tolerance < 2 * q
  BY <1>1 DEF Resolving, Speed
<1>4. \A j \in Int : \A y \in 0 .. 4 * q - 1 :
         /\ distance(At(j, y)) = IF y <= q THEN y ELSE IF y <= 3 * q THEN 2 * q - y ELSE y - 4 * q
         /\ forward(At(j, y)) <=> y < q \/ y > 3 * q
  BY <1>1, DistanceAt DEF q
<1>. DEFINE n == k * Circumference
<1>5. /\ n \in Int /\ (k + 1) * Circumference = n + 4 * q
      /\ (k + 2) * Circumference = n + 8 * q /\ s = n + r
  <2>1. k * Circumference \in Int /\ (k + 1) * Circumference = k * Circumference + Circumference
        /\ (k + 1 + 1) * Circumference = (k + 1) * Circumference + Circumference
    BY <1>1, TurnsGrow
  <2>2. k + 1 + 1 = k + 2
    BY <1>1
  <2>. HIDE DEF k
  <2>. QED BY <1>1, <1>2, <2>1, <2>2 DEF At
<1>6. Q * Circumference >= n + 4 * q /\ (Q # k + 1 => Q * Circumference >= n + 8 * q)
      /\ Q * Circumference \in Int
  <2>1. Q >= k + 1 /\ (Q # k + 1 => Q >= k + 2) /\ k + 1 \in Int /\ k + 2 \in Int /\ Q \in Int
    BY <1>1
  <2>2. (k + 1) * Circumference <= Q * Circumference /\ Q * Circumference \in Int
    BY <2>1, TurnsGrow
  <2>3. Q # k + 1 => (k + 2) * Circumference <= Q * Circumference
    BY <2>1, TurnsGrow
  <2>. HIDE DEF n, k, q
  <2>. QED BY <1>1, <1>5, <2>2, <2>3
<1>7. r \in 0 .. 4 * q - 1 /\ (c.armed => r > 2 * q) /\ (~c.armed => r <= 2 * q + Tolerance)
  BY <1>1, <1>2
<1>. HIDE DEF q, n
<1>8. CASE r + 2 * d < 4 * q
  <2>. DEFINE y == r + 2 * d
  <2>1. y \in 0 .. 4 * q - 1 /\ y >= r
    BY <1>1, <1>7, <1>8
  <2>2. s + Speed * d = At(k, y)
    <3>1. At(k, y) = n + y
      BY DEF At, n
    <3>2. Speed * d = 2 * d
      BY DEF Speed
    <3>. HIDE DEF s, k
    <3>. QED BY <1>1, <1>5, <1>7, <3>1, <3>2 DEF y
  <2>. HIDE DEF y
  <2>3. c.armed => distance(At(k, y)) < 0
    <3>1. k \in Int
      BY <1>1
    <3>2. distance(At(k, y)) = IF y <= q THEN y ELSE IF y <= 3 * q THEN 2 * q - y ELSE y - 4 * q
      BY <1>4, <2>1, <3>1
    <3>. HIDE DEF k
    <3>. QED BY <1>1, <1>7, <2>1, <3>2
  <2>4. ~returning(c, s, Q, d, Speed)
    <3>1. distance(s + Speed * d) \in Int
      BY DistanceInt DEF Speed
    <3>. QED BY <2>2, <2>3, <3>1 DEF returning, canReturn
  <2>5. T = d
    BY <2>4 DEF terminalStep
  <2>6. s + Speed * d <= Q * Circumference
    BY <1>1, <1>5, <1>6, <1>8 DEF Speed
  <2>. QED BY <2>5, <2>6
<1>9. CASE r + 2 * d >= 4 * q /\ Q # k + 1
  <2>1. ~canReturn(c, s, Q, Speed * d)
    BY <1>1, <1>9 DEF canReturn
  <2>2. T = d
    BY <2>1 DEF terminalStep, returning
  <2>3. s + Speed * d <= Q * Circumference
    BY <1>1, <1>3, <1>5, <1>6, <1>7, <1>9 DEF Speed
  <2>. QED BY <2>2, <2>3
<1>10. CASE r + 2 * d >= 4 * q /\ Q = k + 1
  <2>1. c.armed /\ r >= 3 * q
    BY <1>1, <1>3, <1>7, <1>10
  <2>2. distance(s) = r - 4 * q
    <3>1. k \in Int
      BY <1>1
    <3>2. distance(At(k, r)) = IF r <= q THEN r ELSE IF r <= 3 * q THEN 2 * q - r ELSE r - 4 * q
      BY <1>4, <1>7, <3>1
    <3>. HIDE DEF k, s
    <3>. QED BY <1>1, <1>2, <1>7, <2>1, <3>2
  <2>3. canReturn(c, s, Q, Speed * d)
    <3>1. Q > 0 /\ c.turns = Q - 1
      BY <1>1, <1>10
    <3>2. distance(s) < 0 /\ -distance(s) <= Speed * d
      <4>. HIDE DEF s
      <4>. QED BY <1>1, <1>7, <1>10, <2>2 DEF Speed
    <3>. QED BY <2>1, <3>1, <3>2 DEF canReturn
  <2>. DEFINE y == r + 2 * d - 4 * q
  <2>4. y \in 0 .. 4 * q - 1 /\ y < q
    BY <1>1, <1>3, <1>7, <1>10
  <2>5. s + Speed * d = At(k + 1, y) /\ k + 1 \in Int
    BY <1>1, <1>5, <1>7 DEF Speed, At
  <2>. HIDE DEF y
  <2>6. distance(At(k + 1, y)) = y /\ forward(At(k + 1, y))
    BY <1>1, <1>4, <2>4, <2>5
  <2>7. returning(c, s, Q, d, Speed)
    BY <2>3, <2>4, <2>5, <2>6 DEF returning
  <2>8. /\ firstReturn(s, d, Speed) \in 1 .. d
        /\ s + 2 * firstReturn(s, d, Speed) = (k + 1) * Circumference
    <3>1. r >= 3 * Quarter /\ r + 2 * d >= Circumference
      BY <1>1, <1>10, <2>1 DEF q
    <3>. QED BY <1>1, <1>2, <3>1, ReturnIsExact
  <2>9. T = firstReturn(s, d, Speed)
    BY <2>7 DEF terminalStep
  <2>10. s + Speed * T = Q * Circumference
    BY <1>10, <2>8, <2>9 DEF Speed
  <2>. QED BY <1>6, <2>10
<1>11. (r + 2 * d < 4 * q) \/ (r + 2 * d >= 4 * q)
  BY <1>1, <1>7
<1>. QED BY <1>8, <1>9, <1>10, <1>11

-----------------------------------------------------------------------------
(* The counters that end a run.                                             *)

\* The end of the step that has been begun, as a duration from its start.
ahead == IF controlled THEN step(schedule) ELSE dt

\* The counter is right, the reference never passes the requested turns, and no step
\* is begun that would.
Counted ==
    Requested > 0 =>
        /\ TurnOK(counter, ref)
        /\ ref <= Requested * Circumference
        /\ ~controlled => dt <= dtCurrentTrack
        /\ phase = "step" /\ active => counter.turns < Requested
        /\ phase \in {"trial", "drifted"} => ref + Speed * ahead <= Requested * Circumference
        /\ phase = "end" => counter.turns >= Requested

finished   == Requested > 0 /\ counter.turns >= Requested
onPlane(s) == Requested > 0 /\ s = Requested * Circumference

\* In the first segment a nominal step is the step of the segment, or ends on the plane.
Nominal ==
    segment = 1 =>
        /\ phase = "step" /\ done(schedule) /\ ~finished => time = stepsDone * dtCurrentTrack
        /\ ~controlled /\ phase = "step" /\ ~finished => dt = dtCurrentTrack
        /\ ~controlled /\ phase = "drifted" =>
              /\ time = stepsDone * dtCurrentTrack
              /\ dt = dtCurrentTrack \/ onPlane(ref + Speed * dt)
        /\ controlled /\ ~done(schedule) =>
              \/ /\ schedule.nominal = dtCurrentTrack
                 /\ nominalStart = stepsDone * dtCurrentTrack
              \/ onPlane(Speed * (nominalStart + schedule.nominal))
        /\ ~controlled => schedule = NoSchedule

\* A run that was asked for turns has one segment, whose steps resolve the ring.
LEMMA TurnRun ==
    ASSUME ResolvingSteps, Types, Requested > 0
    PROVE  /\ segment = 1 /\ Len(Segments) = 1
           /\ Requested \in Nat \ {0} /\ dtCurrentTrack \in Nat \ {0}
           /\ \A d \in 1 .. dtCurrentTrack : Resolving(Speed * d)
<1>1. command \in Commands /\ command.turns \in Nat /\ Len(command.segments) = 1
  BY SteppingAssumption DEF Types, Requested
<1>2. segment = 1 /\ dtCurrentTrack \in Nat \ {0} /\ dtCurrentTrack = command.segments[1].dt
  BY <1>1, TrackTypes DEF Types, Segments, dtCurrentTrack
<1>3. /\ 4 * (Speed * dtCurrentTrack) <= Circumference
      /\ 2 * (Speed * dtCurrentTrack) + 4 * Tolerance < Circumference
  BY <1>1, <1>2 DEF ResolvingSteps, Requested
<1>. DEFINE D == dtCurrentTrack
<1>4. D \in Nat \ {0} /\ 4 * (2 * D) <= Circumference /\ 2 * (2 * D) + 4 * Tolerance < Circumference
  BY <1>2, <1>3 DEF Speed
<1>5. Circumference \in Nat /\ Tolerance \in Nat
  BY TurnAssumption
<1>. HIDE DEF D
<1>6. \A d \in 1 .. D : Resolving(Speed * d)
  BY <1>4, <1>5 DEF Resolving, Speed
<1>. QED BY <1>1, <1>2, <1>6 DEF D, Segments, Requested

\* The step is that of the interval on top of the schedule.
LEMMA FreshStep ==
    ASSUME Types, Scheduled
    PROVE  /\ controlled => fresh.dt = step(fresh.schedule)
           /\ controlled /\ ~done(schedule) => /\ fresh.schedule = schedule
                                               /\ fresh.start = nominalStart
           /\ controlled /\ done(schedule) => /\ fresh.schedule = emplace(dtCurrentTrack)
                                              /\ fresh.start = time
           /\ ~controlled => fresh.dt = dt /\ fresh.schedule = schedule
<1>1. CASE ~controlled
  BY <1>1 DEF fresh
<1>2. CASE controlled
  <2>. DEFINE s == IF done(schedule) THEN emplace(dtCurrentTrack) ELSE schedule
              l == [terminal |-> None, boundary |-> step(s)]
              start == IF done(schedule) THEN time ELSE nominalStart
  <2>1. fresh = [schedule |-> s, limits |-> l, dt |-> selectDT(dtCurrentTrack, l), start |-> start]
    BY <1>2 DEF fresh
  <2>2. dtCurrentTrack \in Nat \ {0}
    BY TrackTypes
  <2>3. ScheduleOK(s) /\ ~done(s) /\ s.nominal <= dtCurrentTrack
    BY <1>2, <2>2, EmplaceOK DEF Scheduled, InProgress
  <2>4. step(s) \in Nat \ {0} /\ step(s) <= s.nominal /\ s.nominal \in Nat
    BY <2>3, CurrentFacts, PendingFacts
  <2>5. /\ l \in [terminal : Nat, boundary : Nat] /\ l.boundary = step(s)
        /\ l.terminal = None /\ l.boundary # None /\ l.boundary <= dtCurrentTrack
    BY <2>2, <2>3, <2>4 DEF None
  <2>6. selectDT(dtCurrentTrack, l) = step(s)
    BY <2>2, <2>5, SelectDT
  <2>7. fresh.dt = step(s) /\ fresh.schedule = s /\ fresh.start = start
    BY <2>1, <2>6
  <2>. HIDE DEF l
  <2>. QED BY <1>2, <2>7
<1>. QED BY <1>1, <1>2

\* The plan of a step is the fresh one, or one that ends on the launch plane.
LEMMA ChosenEnds ==
    ASSUME ResolvingSteps, IInv, Counted, phase = "step", active
    PROVE  /\ \/ chosen = fresh
              \/ /\ chosen = terminal(fresh, chosen.dt)
                 /\ chosen.dt \in Nat \ {0} /\ onPlane(ref + Speed * chosen.dt)
           /\ controlled => chosen.dt = step(chosen.schedule)
           /\ Requested > 0 => /\ ref + Speed * chosen.dt <= Requested * Circumference
                               /\ chosen.dt <= dtCurrentTrack
<1>. DEFINE T == terminalStep(counter, ref, Requested, fresh.dt, Speed)
<1>1. Types /\ Scheduled /\ ref = 2 * time /\ time \in Nat /\ counter \in [armed : BOOLEAN, turns : Nat]
  BY DEF IInv, Together, Types, Speed
<1>2. T \in 1 .. fresh.dt /\ fresh.dt \in Nat \ {0}
  BY <1>1, FreshOK, TerminalStep DEF Types
<1>3. controlled => fresh.dt = step(fresh.schedule)
  BY <1>1, FreshStep
<1>4. chosen = IF T < fresh.dt THEN terminal(fresh, T) ELSE fresh
  BY DEF chosen
<1>5. CASE ~(Requested > 0)
  <2>1. T = fresh.dt
    BY <1>5 DEF terminalStep, returning, canReturn
  <2>2. chosen = fresh
    BY <1>2, <1>4, <2>1
  <2>. QED BY <1>3, <1>5, <2>2
<1>6. CASE Requested > 0
  <2>1. /\ segment = 1 /\ Requested \in Nat /\ dtCurrentTrack \in Nat \ {0}
        /\ \A d \in 1 .. dtCurrentTrack : Resolving(Speed * d)
    BY <1>1, <1>6, TurnRun
  <2>2. fresh.dt <= dtCurrentTrack
    <3>1. CASE controlled
      BY <1>1, <3>1, FreshOK
    <3>2. CASE ~controlled
      BY <1>1, <1>6, <3>2, FreshStep DEF Counted
    <3>. QED BY <3>1, <3>2
  <2>3. Resolving(Speed * fresh.dt)
    BY <1>2, <2>1, <2>2
  <2>4. TurnOK(counter, 2 * time) /\ counter.turns < Requested
    BY <1>1, <1>6 DEF Counted
  <2>5. /\ ref + Speed * T <= Requested * Circumference
        /\ T < fresh.dt => ref + Speed * T = Requested * Circumference
    <3>. HIDE DEF T
    <3>1. LET U == terminalStep(counter, 2 * time, Requested, fresh.dt, Speed)
          IN  /\ 2 * time + Speed * U <= Requested * Circumference
              /\ U < fresh.dt => 2 * time + Speed * U = Requested * Circumference
      BY <1>1, <1>2, <2>1, <2>3, <2>4, TerminalExact
    <3>. QED BY <1>1, <3>1 DEF T
  <2>. HIDE DEF T
  <2>6. CASE T < fresh.dt
    <3>1. chosen = terminal(fresh, T) /\ chosen.dt = T
      BY <1>4, <2>6 DEF terminal
    <3>2. controlled => chosen.schedule = emplace(T)
      BY <3>1 DEF terminal
    <3>3. T \in Nat \ {0} /\ T <= dtCurrentTrack
      BY <1>2, <2>1, <2>2
    <3>4. step(emplace(T)) = T
      BY <3>3, EmplaceOK
    <3>. QED BY <1>6, <2>5, <2>6, <3>1, <3>2, <3>3, <3>4 DEF onPlane
  <2>7. CASE ~(T < fresh.dt)
    <3>1. chosen = fresh /\ T = fresh.dt
      BY <1>2, <1>4, <2>7
    <3>. QED BY <1>3, <2>2, <2>5, <3>1
  <2>. QED BY <2>6, <2>7
<1>. QED BY <1>5, <1>6

\* Bisection shortens the step.
LEMMA SplitShortens ==
    ASSUME NEW s, ScheduleOK(s), canSplit(s)
    PROVE  step(split(s)) \in Nat /\ step(s) \in Nat /\ step(split(s)) <= step(s)
<1>. DEFINE n == Len(s.pending)
            t == current(s)
            half == t.width \div 2
            r == [s.pending EXCEPT ![n] = Tile(t.depth + 1, half, t.end)]
            e == Tile(t.depth + 1, half, t.end - half)
<1>1. s.pending \in Seq(Tiles) /\ n \in Nat \ {0} /\ step(s) \in Nat \ {0} /\ t.width = step(s)
  BY CurrentFacts, PendingFacts DEF canSplit, step
<1>2. split(s).pending = Append(r, e)
  BY DEF split
<1>3. Append(r, e)[Len(Append(r, e))] = e
  <2>. DEFINE f == Tile(t.depth + 1, half, t.end)
              S == Tiles \cup {e, f}
  <2>. HIDE DEF e, f
  <2>1. s.pending \in Seq(S) /\ n \in 1 .. Len(s.pending) /\ e \in S /\ f \in S
    <3>1. Tiles \subseteq S
      OBVIOUS
    <3>. HIDE DEF S
    <3>2. s.pending \in Seq(S)
      BY <1>1, <3>1, SeqMonotonic
    <3>. QED BY <1>1, <3>2 DEF S
  <2>2. r \in Seq(S)
    <3>. HIDE DEF S
    <3>. QED BY <2>1, ExceptSeq DEF f
  <2>. HIDE DEF r, S, n
  <2>. QED BY <2>1, <2>2, AppendProperties
<1>4. step(split(s)) = e.width
  BY <1>2, <1>3 DEF step, current
<1>5. e.width = half
  BY DEF Tile
<1>6. half \in Nat /\ half <= t.width
  <2>. DEFINE w == t.width
  <2>1. w \in Nat \ {0}
    BY <1>1
  <2>. HIDE DEF w
  <2>2. w \div 2 \in Nat /\ w \div 2 <= w
    BY <2>1
  <2>. QED BY <2>2 DEF w
<1>. HIDE DEF half, e, t
<1>. QED BY <1>1, <1>4, <1>5, <1>6

\* Whatever is planned, the step that is begun does not pass the requested turns.
LEMMA CountedBegin == ASSUME ResolvingSteps, IInv, Counted, BeginStep PROVE Counted'
<1>1. /\ dt' = chosen.dt /\ schedule' = chosen.schedule /\ ref' = ref /\ counter' = counter
      /\ controlled' = controlled /\ Requested' = Requested /\ dtCurrentTrack' = dtCurrentTrack
      /\ phase' \in {"trial", "drifted"} /\ phase = "step" /\ active
  BY DEF BeginStep, stepDue, input, progress, Requested, dtCurrentTrack, Segments
<1>2. SUFFICES ASSUME Requested > 0 PROVE Counted'
  BY <1>1 DEF Counted
<1>3. /\ ref + Speed * chosen.dt <= Requested * Circumference /\ chosen.dt <= dtCurrentTrack
      /\ controlled => chosen.dt = step(chosen.schedule)
  BY <1>1, <1>2, ChosenEnds
<1>4. ahead' = chosen.dt
  BY <1>1, <1>3 DEF ahead
<1>. QED BY <1>1, <1>2, <1>3, <1>4 DEF Counted

LEMMA CountedReject == ASSUME IInv, Counted, RejectUntried \/ RejectTrial PROVE Counted'
<1>1. /\ ref' = ref /\ counter' = counter /\ controlled' = controlled /\ controlled
      /\ Requested' = Requested /\ dtCurrentTrack' = dtCurrentTrack
      /\ phase \in {"trial", "drifted"} /\ phase' \in {"trial", "failed"}
      /\ canSplit(schedule) /\ ScheduleOK(schedule)
      /\ phase' = "trial" => schedule' = split(schedule)
  <2>1. CASE RejectUntried
    BY <2>1 DEF RejectUntried, mustSplitUntried, IInv, Scheduled, input, progress, state, Requested,
                dtCurrentTrack, Segments
  <2>2. CASE RejectTrial
    BY <2>2 DEF RejectTrial, mustSplit, IInv, Scheduled, input, progress, Requested,
                dtCurrentTrack, Segments
  <2>. QED BY <2>1, <2>2
<1>2. SUFFICES ASSUME Requested > 0 PROVE Counted'
  BY <1>1 DEF Counted
<1>3. phase' = "trial" => ref + Speed * step(schedule') <= Requested * Circumference
  <2>1. ref + Speed * step(schedule) <= Requested * Circumference /\ ref \in Nat
    BY <1>1, <1>2 DEF Counted, ahead, IInv, Types
  <2>2. /\ step(split(schedule)) \in Nat /\ step(schedule) \in Nat
        /\ step(split(schedule)) <= step(schedule)
    BY <1>1, SplitShortens
  <2>3. Requested * Circumference \in Int
    BY <1>2, TurnAssumption, SteppingAssumption DEF IInv, Types, Requested
  <2>. QED BY <1>1, <2>1, <2>2, <2>3 DEF Speed
<1>. QED BY <1>1, <1>2, <1>3 DEF Counted, ahead

LEMMA CountedDrift == ASSUME IInv, Counted, HalfDrift PROVE Counted'
<1>1. /\ ref' = ref /\ counter' = counter /\ controlled' = controlled /\ controlled
      /\ Requested' = Requested /\ dtCurrentTrack' = dtCurrentTrack
      /\ phase = "trial" /\ phase' = "drifted" /\ schedule' = schedule
  BY DEF HalfDrift, IInv, Scheduled, input, progress, Requested, dtCurrentTrack, Segments
<1>. QED BY <1>1 DEF Counted, ahead

\* The reference has moved by the step and is where the turns end exactly if it has
\* taken them.
LEMMA CountedCommit ==
    ASSUME ResolvingSteps, IInv, Counted, Commit
    PROVE  /\ Counted'
           /\ onPlane(ref') => finished'
<1>1. /\ ref' = ref + Speed * dt /\ controlled' = controlled
      /\ Requested' = Requested /\ dtCurrentTrack' = dtCurrentTrack /\ dt' = dt
      /\ phase = "drifted" /\ phase' = "step"
      /\ Requested > 0 => counter' = update(counter, ref + Speed * dt)
      /\ Requested > 0 /\ active' => ~(counter'.turns >= Requested)
  BY DEF Commit, atStop, input, Requested, dtCurrentTrack, Segments
<1>2. SUFFICES ASSUME Requested > 0 PROVE Counted' /\ (onPlane(ref') => finished')
  BY <1>1 DEF Counted, onPlane
<1>3. /\ \A d \in 1 .. dtCurrentTrack : Resolving(Speed * d)
      /\ dtCurrentTrack \in Nat /\ Requested \in Nat
  BY <1>2, TurnRun DEF IInv
<1>4. dt \in 1 .. dtCurrentTrack /\ ahead = dt
  <2>1. dt \in Nat \ {0}
    BY DEF IInv, Types
  <2>2. CASE controlled
    <3>1. /\ dt = step(schedule) /\ ScheduleOK(schedule) /\ ~done(schedule)
          /\ schedule.nominal <= dtCurrentTrack
      BY <1>1, <2>2 DEF IInv, Scheduled, InProgress
    <3>2. step(schedule) <= schedule.nominal /\ schedule.nominal \in Nat
      BY <3>1, CurrentFacts, PendingFacts
    <3>. QED BY <1>3, <2>1, <2>2, <3>1, <3>2 DEF ahead
  <2>3. CASE ~controlled
    BY <1>2, <1>3, <2>1, <2>3 DEF Counted, ahead
  <2>. QED BY <2>2, <2>3
<1>5. ref + Speed * dt <= Requested * Circumference
  BY <1>1, <1>2, <1>4 DEF Counted
<1>6. TurnOK(counter', ref')
  <2>1. Resolving(Speed * dt)
    BY <1>3, <1>4
  <2>2. counter \in [armed : BOOLEAN, turns : Nat] /\ ref \in Nat
    BY DEF IInv, Types
  <2>3. TurnOK(counter, ref)
    BY <1>2 DEF Counted
  <2>4. TurnOK(update(counter, ref + Speed * dt), ref + Speed * dt)
    BY <2>1, <2>2, <2>3, UpdateFollows
  <2>. QED BY <1>1, <1>2, <2>4
<1>7. Counted'
  <2>1. counter' \in [armed : BOOLEAN, turns : Nat]
    BY CommitTypes DEF Types
  <2>2. active' => counter'.turns < Requested
    BY <1>1, <1>2, <1>3, <2>1
  <2>. QED BY <1>1, <1>2, <1>4, <1>5, <1>6, <2>2 DEF Counted
<1>8. ASSUME onPlane(ref') PROVE finished'
  <2>1. counter' \in [armed : BOOLEAN, turns : Nat]
    BY CommitTypes DEF Types
  <2>2. PICK r \in 0 .. Circumference - 1 : ref' = At(counter'.turns, r)
    BY <1>6 DEF TurnOK
  <2>3. ref' = Requested * Circumference
    BY <1>1, <1>8 DEF onPlane
  <2>. DEFINE k == counter'.turns
  <2>4. k \in Nat /\ Circumference \in Nat
    BY <2>1, TurnAssumption
  <2>5. k * Circumference + r = Requested * Circumference
    BY <2>2, <2>3 DEF At
  <2>. HIDE DEF k
  <2>6. ~(k < Requested)
    <3>1. SUFFICES ASSUME k < Requested PROVE FALSE
      OBVIOUS
    <3>2. k + 1 \in Int /\ k \in Int /\ Requested \in Int /\ k + 1 <= Requested /\ k <= k
      BY <1>3, <2>4, <3>1
    <3>3. (k + 1) * Circumference <= Requested * Circumference
      BY <3>2, TurnsGrow
    <3>4. (k + 1) * Circumference = k * Circumference + Circumference
          /\ k * Circumference \in Int
      BY <3>2, TurnsGrow
    <3>. DEFINE u == k * Circumference
                v == Requested * Circumference
    <3>5. u \in Int /\ u + Circumference <= v /\ u + r = v
      BY <2>5, <3>3, <3>4
    <3>. HIDE DEF u, v
    <3>. QED BY <2>4, <3>5
  <2>. QED BY <1>1, <1>2, <1>3, <2>4, <2>6 DEF finished, k
<1>. QED BY <1>7, <1>8

LEMMA CountedEnd == ASSUME IInv, Counted, EndSegment PROVE Counted'
<1>1. Requested' = Requested /\ ref' = ref /\ counter' = counter /\ controlled' = controlled
  BY DEF EndSegment, input, state, Requested
<1>2. SUFFICES ASSUME Requested > 0 PROVE Counted'
  BY <1>1 DEF Counted
<1>3. command \in Commands /\ segment \in 1 .. Len(Segments)
  BY DEF IInv, Types
<1>4. Len(Segments) = 1
  BY <1>2, <1>3, SteppingAssumption DEF Segments, Requested
<1>5. ~(segment < Len(Segments))
  BY <1>3, <1>4
<1>6. /\ dt' = dt /\ dtCurrentTrack' = dtCurrentTrack
      /\ phase' = IF counter.turns < Requested THEN "failed" ELSE "end"
  BY <1>5 DEF EndSegment, progress, input, dtCurrentTrack, Segments
<1>7. counter.turns \in Nat /\ Requested \in Nat
  BY <1>3, SteppingAssumption DEF IInv, Types, Requested
<1>. QED BY <1>1, <1>2, <1>6, <1>7 DEF Counted

LEMMA CountedStep == ASSUME ResolvingSteps, IInv, Counted, [Next]_vars PROVE Counted'
<1>1. CASE BeginStep
  BY <1>1, CountedBegin
<1>2. CASE RejectUntried \/ RejectTrial
  BY <1>2, CountedReject
<1>3. CASE HalfDrift
  BY <1>3, CountedDrift
<1>4. CASE Commit
  BY <1>4, CountedCommit
<1>5. CASE EndSegment
  BY <1>5, CountedEnd
<1>6. CASE TerminalFails \/ AcceptFails
  <2>1. /\ Requested' = Requested /\ ref' = ref /\ counter' = counter /\ controlled' = controlled
        /\ dt' = dt /\ dtCurrentTrack' = dtCurrentTrack /\ phase' = "failed"
    BY <1>6 DEF TerminalFails, AcceptFails, input, progress, plan, state, Requested,
                dtCurrentTrack, Segments
  <2>. QED BY <2>1 DEF Counted
<1>7. CASE UNCHANGED vars
  BY <1>7 DEF Counted, ahead, vars, input, progress, plan, state, Requested, dtCurrentTrack, Segments
<1>. QED BY <1>1, <1>2, <1>3, <1>4, <1>5, <1>6, <1>7 DEF Next

LEMMA NominalBegin ==
    ASSUME ResolvingSteps, IInv, Counted, Nominal, BeginStep PROVE Nominal'
<1>1. /\ dt' = chosen.dt /\ schedule' = chosen.schedule /\ nominalStart' = chosen.start
      /\ time' = time /\ ref' = ref /\ controlled' = controlled /\ segment' = segment
      /\ stepsDone' = stepsDone /\ Requested' = Requested /\ dtCurrentTrack' = dtCurrentTrack
      /\ phase' = IF controlled THEN "trial" ELSE "drifted"
      /\ phase = "step" /\ active
  BY DEF BeginStep, stepDue, input, progress, Requested, dtCurrentTrack, Segments
<1>2. SUFFICES ASSUME segment = 1 PROVE Nominal'
  BY <1>1 DEF Nominal
<1>3. ~finished
  <2>1. Requested \in Nat /\ counter.turns \in Nat
    BY SteppingAssumption DEF IInv, Types, Requested
  <2>2. Requested > 0 => counter.turns < Requested
    BY <1>1 DEF Counted
  <2>. QED BY <2>1, <2>2 DEF finished
<1>4. /\ \/ chosen = fresh
         \/ /\ chosen = terminal(fresh, chosen.dt)
            /\ chosen.dt \in Nat \ {0} /\ onPlane(ref + Speed * chosen.dt)
      /\ Types /\ Scheduled
  BY <1>1, ChosenEnds DEF IInv
<1>5. CASE ~controlled
  <2>1. schedule = NoSchedule /\ time = stepsDone * dtCurrentTrack /\ dt = dtCurrentTrack
    BY <1>1, <1>2, <1>3, <1>5, NoScheduleOK DEF Nominal
  <2>2. fresh.dt = dt /\ fresh.schedule = schedule
    BY <1>4, <1>5, FreshStep
  <2>3. chosen.schedule = NoSchedule
    BY <1>4, <1>5, <2>1, <2>2 DEF terminal
  <2>4. chosen.dt = dtCurrentTrack \/ onPlane(ref + Speed * chosen.dt)
    BY <1>4, <2>1, <2>2
  <2>5. onPlane(ref + Speed * chosen.dt) => onPlane(ref + Speed * dt)'
    BY <1>1 DEF onPlane
  <2>. QED BY <1>1, <1>5, <2>1, <2>3, <2>4, <2>5 DEF Nominal
<1>6. CASE controlled
  <2>1. CASE chosen = fresh /\ done(schedule)
    <3>1. schedule' = emplace(dtCurrentTrack) /\ nominalStart' = time
      BY <1>1, <1>4, <1>6, <2>1, FreshStep
    <3>2. time = stepsDone * dtCurrentTrack
      BY <1>1, <1>2, <1>3, <2>1 DEF Nominal
    <3>3. emplace(dtCurrentTrack).nominal = dtCurrentTrack
      BY DEF emplace
    <3>. QED BY <1>1, <1>6, <3>1, <3>2, <3>3 DEF Nominal
  <2>2. CASE chosen = fresh /\ ~done(schedule)
    <3>1. schedule' = schedule /\ nominalStart' = nominalStart
      BY <1>1, <1>4, <1>6, <2>2, FreshStep
    <3>. QED BY <1>1, <1>2, <1>6, <2>2, <3>1 DEF Nominal, onPlane
  <2>3. CASE /\ chosen = terminal(fresh, chosen.dt)
             /\ chosen.dt \in Nat \ {0} /\ onPlane(ref + Speed * chosen.dt)
    <3>1. schedule' = emplace(chosen.dt) /\ nominalStart' = time
      BY <1>1, <1>6, <2>3 DEF terminal
    <3>2. schedule'.nominal = chosen.dt
      BY <3>1 DEF emplace
    <3>3. Speed * (nominalStart' + schedule'.nominal) = ref + Speed * chosen.dt
      <4>1. ref = Speed * time /\ time \in Nat
        BY DEF IInv, Together, Types
      <4>. QED BY <2>3, <3>1, <3>2, <4>1 DEF Speed
    <3>4. onPlane(Speed * (nominalStart + schedule.nominal))'
      BY <1>1, <2>3, <3>3 DEF onPlane
    <3>. QED BY <1>1, <1>6, <3>4 DEF Nominal
  <2>. QED BY <1>4, <2>1, <2>2, <2>3
<1>. QED BY <1>5, <1>6

LEMMA NominalCommit ==
    ASSUME ResolvingSteps, IInv, Counted, Nominal, Commit PROVE Nominal'
<1>1. /\ controlled' = controlled /\ segment' = segment /\ nominalStart' = nominalStart
      /\ Requested' = Requested /\ dtCurrentTrack' = dtCurrentTrack /\ dt' = dt
      /\ ref' = ref + Speed * dt /\ phase = "drifted" /\ phase' = "step"
  BY DEF Commit, input, Requested, dtCurrentTrack, Segments
<1>2. SUFFICES ASSUME segment = 1 PROVE Nominal'
  BY <1>1 DEF Nominal
<1>3. onPlane(ref') => finished'
  BY CountedCommit
<1>4. /\ stepsDone \in Nat /\ dtCurrentTrack \in Nat /\ nominalStart \in Nat /\ dt \in Nat
      /\ (stepsDone + 1) * dtCurrentTrack = stepsDone * dtCurrentTrack + dtCurrentTrack
  BY TrackTypes DEF IInv, Types
<1>5. CASE ~controlled
  <2>1. /\ schedule' = schedule /\ schedule = NoSchedule /\ stepsDone' = stepsDone + 1
        /\ time' = time + dt
    BY <1>2, <1>5 DEF Commit, Nominal, stepCounted
  <2>2. /\ time = stepsDone * dtCurrentTrack
        /\ dt = dtCurrentTrack \/ onPlane(ref + Speed * dt)
    BY <1>1, <1>2, <1>5 DEF Nominal
  <2>3. CASE dt = dtCurrentTrack
    <3>1. time' = stepsDone' * dtCurrentTrack'
      BY <1>1, <1>4, <2>1, <2>2, <2>3
    <3>. QED BY <1>1, <1>5, <2>1, <2>3, <3>1 DEF Nominal
  <2>4. CASE onPlane(ref + Speed * dt)
    <3>1. finished'
      BY <1>1, <1>3, <2>4
    <3>. QED BY <1>1, <1>5, <2>1, <3>1 DEF Nominal
  <2>. QED BY <2>2, <2>3, <2>4
<1>6. CASE controlled
  <2>1. ScheduleOK(schedule) /\ ~done(schedule) /\ canAccept(schedule)
    BY <1>1, <1>6 DEF Commit, IInv, Scheduled
  <2>2. /\ schedule' = accept(schedule) /\ time' = nominalStart + accept(schedule).elapsed
        /\ stepsDone' = IF done(schedule') THEN stepsDone + 1 ELSE stepsDone
    BY <1>6 DEF Commit, stepCounted
  <2>3. /\ ScheduleOK(schedule') /\ schedule'.nominal = schedule.nominal
    BY <2>1, <2>2, AcceptOK
  <2>4. \/ schedule.nominal = dtCurrentTrack /\ nominalStart = stepsDone * dtCurrentTrack
        \/ onPlane(Speed * (nominalStart + schedule.nominal))
    BY <1>2, <1>6, <2>1 DEF Nominal
  <2>5. CASE ~done(schedule')
    <3>1. /\ stepsDone' = stepsDone
          /\ onPlane(Speed * (nominalStart + schedule.nominal))
                => onPlane(Speed * (nominalStart + schedule.nominal))'
      BY <1>1, <2>2, <2>3, <2>5 DEF onPlane
    <3>. QED BY <1>1, <1>6, <2>3, <2>4, <2>5, <3>1 DEF Nominal
  <2>6. CASE done(schedule')
    <3>1. schedule'.elapsed = schedule'.nominal /\ time' = nominalStart + schedule.nominal
      <4>1. Len(schedule'.pending) = 0
        BY <2>3, <2>6, PendingFacts
      <4>2. schedule'.elapsed = schedule'.nominal
        BY <2>3, <4>1 DEF ScheduleOK, Contiguous
      <4>. QED BY <2>2, <2>3, <4>2
    <3>2. CASE schedule.nominal = dtCurrentTrack /\ nominalStart = stepsDone * dtCurrentTrack
      <4>1. time' = stepsDone' * dtCurrentTrack'
        BY <1>1, <1>4, <2>2, <2>6, <3>1, <3>2
      <4>. QED BY <1>1, <1>6, <2>6, <4>1 DEF Nominal
    <3>3. CASE onPlane(Speed * (nominalStart + schedule.nominal))
      <4>1. ref' = Speed * time'
        BY CommitInv DEF IInv, Together
      <4>2. finished'
        BY <1>1, <1>3, <3>1, <3>3, <4>1 DEF onPlane
      <4>. QED BY <1>1, <1>6, <2>6, <4>2 DEF Nominal
    <3>. QED BY <2>4, <3>2, <3>3
  <2>. QED BY <2>5, <2>6
<1>. QED BY <1>5, <1>6

LEMMA NominalStep ==
    ASSUME ResolvingSteps, IInv, Counted, Nominal, [Next]_vars PROVE Nominal'
<1>1. CASE BeginStep
  BY <1>1, NominalBegin
<1>2. CASE Commit
  BY <1>2, NominalCommit
<1>3. CASE RejectUntried \/ HalfDrift \/ RejectTrial
  <2>1. /\ controlled' = controlled /\ controlled /\ segment' = segment
        /\ nominalStart' = nominalStart /\ stepsDone' = stepsDone
        /\ Requested' = Requested /\ dtCurrentTrack' = dtCurrentTrack
        /\ phase' \in {"trial", "drifted", "failed"} /\ ~done(schedule)
        /\ schedule'.nominal = schedule.nominal
    <3>1. CASE RejectUntried
      <4>1. schedule' = schedule \/ schedule' = split(schedule)
        BY <3>1 DEF RejectUntried
      <4>2. split(schedule).nominal = schedule.nominal
        BY DEF split
      <4>. QED BY <3>1, <4>1, <4>2 DEF RejectUntried, IInv, Scheduled, input, progress, Requested,
                                      dtCurrentTrack, Segments
    <3>2. CASE HalfDrift
      BY <3>2 DEF HalfDrift, IInv, Scheduled, input, progress, Requested, dtCurrentTrack, Segments
    <3>3. CASE RejectTrial
      <4>1. schedule' = schedule \/ schedule' = split(schedule)
        BY <3>3 DEF RejectTrial
      <4>2. split(schedule).nominal = schedule.nominal
        BY DEF split
      <4>. QED BY <3>3, <4>1, <4>2 DEF RejectTrial, mustSplit, IInv, Scheduled, input, progress,
                                      Requested, dtCurrentTrack, Segments
    <3>. QED BY <1>3, <3>1, <3>2, <3>3
  <2>. QED BY <2>1 DEF Nominal, onPlane
<1>4. CASE EndSegment
  <2>1. CASE segment < Len(Segments)
    <3>1. segment' = segment + 1 /\ segment \in Nat /\ segment >= 1
      BY <1>4, <2>1 DEF EndSegment, IInv, Types
    <3>2. segment' # 1
      BY <3>1
    <3>. QED BY <3>2 DEF Nominal
  <2>2. CASE ~(segment < Len(Segments))
    <3>1. /\ controlled' = controlled /\ segment' = segment /\ schedule' = schedule
          /\ nominalStart' = nominalStart /\ stepsDone' = stepsDone
          /\ Requested' = Requested /\ dtCurrentTrack' = dtCurrentTrack
          /\ phase' \in {"failed", "end"}
      BY <1>4, <2>2 DEF EndSegment, input, progress, Requested, dtCurrentTrack, Segments
    <3>. QED BY <3>1 DEF Nominal, onPlane
  <2>. QED BY <2>1, <2>2
<1>5. CASE TerminalFails \/ AcceptFails
  <2>1. /\ controlled' = controlled /\ segment' = segment /\ schedule' = schedule
        /\ nominalStart' = nominalStart /\ stepsDone' = stepsDone
        /\ Requested' = Requested /\ dtCurrentTrack' = dtCurrentTrack
        /\ phase' = "failed"
    BY <1>5 DEF TerminalFails, AcceptFails, input, progress, plan, Requested, dtCurrentTrack, Segments
  <2>. QED BY <2>1 DEF Nominal, onPlane
<1>6. CASE UNCHANGED vars
  BY <1>6 DEF Nominal, finished, onPlane, vars, input, progress, plan, state, Requested,
              dtCurrentTrack, Segments
<1>. QED BY <1>1, <1>2, <1>3, <1>4, <1>5, <1>6 DEF Next

LEMMA CountersInit == ASSUME Init PROVE Counted /\ Nominal
<1>1. Types /\ dt = dtCurrentTrack /\ dtCurrentTrack \in Nat /\ Requested \in Nat
  BY InitInv, TrackTypes, SteppingAssumption
     DEF Init, IInv, Types, dtCurrentTrack, Segments, Requested
<1>2. TurnOK(counter, ref)
  <2>1. counter.turns = 0 /\ ~counter.armed /\ ref = 0
    BY DEF Init, NewCounter
  <2>2. /\ 0 \in 0 .. Circumference - 1 /\ 2 * 0 <= Circumference + 2 * Tolerance
        /\ 0 = At(0, 0)
    BY TurnAssumption DEF At
  <2>. QED BY <2>1, <2>2 DEF TurnOK
<1>3. Requested > 0 => 0 <= Requested * Circumference
  <2>1. Requested > 0 => 0 * Circumference <= Requested * Circumference
    BY <1>1, TurnsGrow
  <2>. QED BY <2>1, TurnAssumption
<1>4. Counted
  BY <1>1, <1>2, <1>3 DEF Init, NewCounter, Counted
<1>5. 0 * dtCurrentTrack = 0
  BY <1>1
<1>6. Nominal
  BY <1>1, <1>5, NoScheduleOK DEF Init, Nominal
<1>. QED BY <1>4, <1>6

LEMMA CountersFollow == ASSUME ResolvingSteps, IInv, Counted, Nominal PROVE CountersFollowPath
<1>1. Types /\ Requested \in Nat /\ counter.turns \in Nat /\ ref \in Nat
  BY SteppingAssumption DEF IInv, Types, Requested
<1>2. StepsAreNominal
  <2>1. (Requested > 0 => counter.turns < Requested) => ~finished
    BY <1>1 DEF finished
  <2>. QED BY <2>1 DEF StepsAreNominal, Nominal, dtCurrentTrack
<1>3. TurnsAreReal
  <2>. SUFFICES ASSUME Requested > 0 PROVE counter.turns = ref \div Circumference
    BY DEF TurnsAreReal
  <2>1. PICK r \in 0 .. Circumference - 1 : ref = counter.turns * Circumference + r
    BY DEF Counted, TurnOK, At
  <2>2. Circumference \in Nat \ {0}
    BY TurnAssumption
  <2>3. ref % Circumference = r
    <3>1. \A k \in Int : (k * Circumference + r) % Circumference = r
      BY <2>2, ResidueOf
    <3>2. counter.turns \in Int
      BY <1>1
    <3>. QED BY <2>1, <3>1, <3>2
  <2>. DEFINE k == counter.turns
              j == ref \div Circumference
  <2>4. k \in Nat /\ j \in Int /\ ref = j * Circumference + (ref % Circumference)
    BY <1>1, <2>2
  <2>5. k * Circumference = j * Circumference
    <3>1. k * Circumference \in Int /\ j * Circumference \in Int
      BY <2>2, <2>4
    <3>. QED BY <2>1, <2>3, <2>4, <3>1
  <2>. HIDE DEF k, j
  <2>6. k = j
    <3>1. \A a, b \in Int : a < b => a * Circumference # b * Circumference
      <4>. SUFFICES ASSUME NEW a \in Int, NEW b \in Int, a < b
                    PROVE  a * Circumference # b * Circumference
        OBVIOUS
      <4>1. a + 1 \in Int /\ a + 1 <= b /\ a <= a
        OBVIOUS
      <4>2. (a + 1) * Circumference <= b * Circumference /\ b * Circumference \in Int
        BY <4>1, TurnsGrow
      <4>3. (a + 1) * Circumference = a * Circumference + Circumference /\ a * Circumference \in Int
        BY <4>1, TurnsGrow
      <4>. QED BY <2>2, <4>2, <4>3
    <3>2. k \in Int /\ j \in Int
      BY <2>4
    <3>. QED BY <2>5, <3>1, <3>2
  <2>. QED BY <2>6 DEF k, j
<1>4. TurnsEndOnPlane
  <2>. SUFFICES ASSUME phase = "end", Requested > 0 PROVE ref = Requested * Circumference
    BY DEF TurnsEndOnPlane
  <2>1. PICK r \in 0 .. Circumference - 1 : ref = counter.turns * Circumference + r
    BY DEF Counted, TurnOK, At
  <2>2. ref <= Requested * Circumference /\ Requested <= counter.turns
    BY <1>1 DEF Counted
  <2>3. /\ Requested * Circumference <= counter.turns * Circumference
        /\ Requested * Circumference \in Int /\ counter.turns * Circumference \in Int
    <3>1. Requested \in Int /\ counter.turns \in Int
      BY <1>1
    <3>. QED BY <2>2, <3>1, TurnsGrow
  <2>. QED BY <1>1, <2>1, <2>2, <2>3
<1>. QED BY <1>2, <1>3, <1>4 DEF CountersFollowPath

\* For steps that resolve the ring, whatever the depth and budget of the bisection, the
\* lattice and the particles are: the steps counted are nominal ones, the turns counted
\* are those of the path, although the counter only sees the signed distance to the plane
\* at the ends of intervals, and a run asked for turns that ends does so on the plane.
THEOREM CountersCorrect ==
    ASSUME ResolvingSteps
    PROVE  Spec => []CountersFollowPath
<1>1. Init => Counted /\ Nominal
  BY CountersInit
<1>2. IInv /\ Counted /\ Nominal /\ [Next]_vars => Counted' /\ Nominal'
  BY CountedStep, NominalStep
<1>3. IInv /\ Counted /\ Nominal => CountersFollowPath
  BY CountersFollow
<1>. QED BY <1>1, <1>2, <1>3, Inductive, PTL DEF Spec

=============================================================================
