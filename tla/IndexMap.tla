------------------------------ MODULE IndexMap ------------------------------
(***************************************************************************)
(* IndexMap: which elements the reference particle meets on which stretch   *)
(* of its path. OrbitThreader adds the stretches in the order of the path,   *)
(* the tracker asks for the elements around a position, on a ring with the   *)
(* position wrapped into the one turn that is stored.                        *)
(*                                                                         *)
(* Positions are whole numbers. The end of a stretch is stored one unit in    *)
(* the last place nearer to zero (oneMinusEpsilon_m), so ends are counted     *)
(* in halves: 2 * s is the position s, and 2 * s - 1 is just below it.        *)
(***************************************************************************)
EXTENDS Integers, FiniteSets, SequencesExt

\* Entries [begin, end, elements], ordered along the path; the first visit of
\* every element; the period, 0 for a line.
NewMap == [ranges |-> <<>>, visits |-> <<>>, origin |-> 0, period |-> 0]

\* finalS * oneMinusEpsilon_m.
rounded(s) == IF s > 0 THEN 2 * s - 1 ELSE IF s = 0 THEN 0 ELSE 2 * s + 1

\* almostEqual(s, end / oneMinusEpsilon_m).
meets(s, end) == end \in {2 * s, rounded(s)}

\* Whether a stretch continues the last entry: the same set, and no gap.
continues(map, initialS, val) ==
    /\ map.ranges # <<>>
    /\ Last(map.ranges).elements = val
    /\ meets(initialS, Last(map.ranges).end)

\* The first visit grows while the stretches touch it; later visits are not kept.
visited(visits, initialS, key, val) ==
    [e \in DOMAIN visits \cup val |->
        IF e \notin DOMAIN visits THEN key
        ELSE IF e \in val /\ meets(initialS, visits[e].end)
             THEN [visits[e] EXCEPT !.end = key.end] ELSE visits[e]]

\* IndexMap::add, for stretches that come in the order of the path.
add(map, initialS, finalS, val) ==
    IF initialS = finalS THEN map
    ELSE LET merged == continues(map, initialS, val)
             key    == [begin |-> IF merged THEN Last(map.ranges).begin ELSE 2 * initialS,
                        end   |-> rounded(finalS)]
             entry  == [begin |-> key.begin, end |-> key.end, elements |-> val]
         IN  [map EXCEPT
                 !.ranges = Append(IF merged THEN Front(map.ranges) ELSE map.ranges, entry),
                 !.visits = visited(map.visits, initialS, key, val)]

\* Faulty variant: the last stretch stays as it is.
tidyUpNothing(map, sStop) == map

\* A last stretch without elements is made to end exactly at sStop.
tidyUp(map, sStop) ==
    IF map.ranges # <<>> /\ Last(map.ranges).elements = {} /\ 2 * sStop > Last(map.ranges).begin
    THEN [map EXCEPT !.ranges = Append(Front(map.ranges),
                                       [Last(map.ranges) EXCEPT !.end = 2 * sStop])]
    ELSE map

setPeriod(map, origin, period) == [map EXCEPT !.origin = origin, !.period = period]

-----------------------------------------------------------------------------
(* Queries.                                                                 *)

\* Where the scan starts: the lower bound of (lower, lower), and back over the
\* entries that still reach into the interval.
scanStart(ranges, lower) ==
    LET before(r) == r.begin < 2 * lower \/ (r.begin = 2 * lower /\ r.end < 2 * lower)
        bound     == CHOOSE n \in 1 .. Len(ranges) + 1 :
                         /\ \A k \in 1 .. n - 1 : before(ranges[k])
                         /\ n <= Len(ranges) => ~before(ranges[n])
    IN  CHOOSE n \in 1 .. bound :
            /\ \A k \in n .. bound - 1 : ranges[k].end > 2 * lower
            /\ n > 1 => ranges[n - 1].end <= 2 * lower

\* IndexMap::queryRange: from the first entry that overlaps the interval to the
\* last that begins in it.
queryRange(map, lower, upper) ==
    LET ranges    == map.ranges
        start     == scanStart(ranges, lower)
        scanned   == {i \in start .. Len(ranges) :
                         \A k \in start .. i : ranges[k].begin <= 2 * upper}
        reached   == {i \in scanned : \E k \in start .. i : 2 * lower < ranges[k].end}
    IN  UNION {ranges[i].elements : i \in reached}

beyondEnd(map, lower) == map.ranges # <<>> /\ 2 * lower > Last(map.ranges).end

wrap(map, s) == map.origin + ((s - map.origin) % map.period)

turn(map, s) == (s - map.origin) \div map.period

\* Faulty variant: an interval over the seam is taken for one inside a turn.
inOneTurnAlways(map, lower, upper) == TRUE

inOneTurn(map, lower, upper) ==
    turn(map, lower) = turn(map, upper) /\ wrap(map, lower) <= wrap(map, upper)

\* The parts of the stored turn that an interval covers.
intervals(map, s, ds) ==
    LET lower == s - ds
        upper == s + ds
    IN  IF map.period = 0 THEN {<<lower, upper>>}
        ELSE IF inOneTurn(map, lower, upper) THEN {<<wrap(map, lower), wrap(map, upper)>>}
        ELSE {<<wrap(map, lower), map.origin + map.period>>, <<map.origin, wrap(map, upper)>>}

wholeTurn(map, ds) == map.period > 0 /\ 2 * ds >= map.period

\* IndexMap::query, and when it throws OutOfBounds.
query(map, s, ds) ==
    IF wholeTurn(map, ds) THEN UNION {map.ranges[i].elements : i \in DOMAIN map.ranges}
    ELSE UNION {queryRange(map, i[1], i[2]) : i \in intervals(map, s, ds)}

outOfBounds(map, s, ds) ==
    ~wholeTurn(map, ds) /\ \E i \in intervals(map, s, ds) : beyondEnd(map, i[1])
=============================================================================
