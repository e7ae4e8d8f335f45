---------------------------- MODULE OrbitThreader ----------------------------
(***************************************************************************)
(* OrbitThreader: before tracking, the reference particle is taken back by    *)
(* the length of the bunch and then along the whole line, or once round the    *)
(* ring, and the elements whose field it meets go into the IndexMap.           *)
(*                                                                         *)
(* The path is a whole number of units of length; the field support of an      *)
(* element is an interval of them. With linear maps, and on a ring, a step is   *)
(* cut where the support changes (here: into its units); otherwise the support  *)
(* at its middle counts for all of it.                                        *)
(***************************************************************************)
EXTENDS IndexMap

CONSTANTS
    Elements,
    Extents,         \* field supports [begin, length] that an element can have, with the
                     \* time steps that have to fit in, 0 for a marker or monitor
    Circumference,   \* of the closed orbit of the reference on a ring
    Period,          \* of the ring's design
    NumSteps,        \* MAXSTEPS of all segments at the finest time step
    FinalStop,       \* last ZSTOP
    Launches,        \* what is threaded, see launch
    MaxBack          \* bound on the steps taken back

ASSUME ThreaderAssumption ==
    /\ \A x \in Extents : x.begin \in Int /\ x.length \in Nat \ {0} /\ x.steps \in Nat
    /\ {Circumference, Period, NumSteps, FinalStop} \subseteq Nat \ {0}
    /\ MaxBack \in Nat
    /\ \A l \in Launches : /\ {l.ring, l.closes, l.maps} \subseteq BOOLEAN
                           /\ {l.start, l.tail} \subseteq Nat
                           /\ l.step \in Nat \ {0} /\ l.step % 2 = 0

VARIABLES
    launch,       \* ring or line, whether its orbit closes, linear maps, path length
                  \* of the reference, how far the bunch reaches behind it, and the
                  \* drift of the reference in one time step
    extent,       \* element -> its field support
    phase,        \* "back", "turn", "forward", "done" or "failed"
    pathLength,   \* pathLength_m
    currentStep,  \* currentStep_m
    first,        \* path length and step at which the forward pass starts
    stretch,      \* [from, elements]: initialS and elementSet of the loop
    returnLength, \* referenceReturnLength_m, -1 until it is known
    imap          \* imap_m

job  == <<launch, extent>>
vars == <<job, phase, pathLength, currentStep, first, stretch, returnLength, imap>>

-----------------------------------------------------------------------------
(* The lattice.                                                             *)

\* OpalBeamline::getElements: the elements with a field in the unit from u on.
getElements(u) ==
    {e \in Elements :
        LET distance == u - extent[e].begin
        IN  IF launch.ring THEN distance % Circumference < extent[e].length
            ELSE distance \in 0 .. extent[e].length - 1}

StepLength == launch.step

nextMidpointPosition(s, direction) == s + direction * (StepLength \div 2)

stretchFrom(s, direction) ==
    [from |-> s, elements |-> getElements(nextMidpointPosition(s, direction))]

sStop == IF launch.ring THEN launch.start + Period ELSE FinalStop + 2 * launch.tail

resolveSupport == launch.ring \/ launch.maps

\* checkElementLengths throws for an element shorter than the steps it needs,
\* unless the reference is past the last stop.
tooShort(s, elements) ==
    s <= FinalStop /\ \E e \in elements : extent[e].length < extent[e].steps * StepLength

-----------------------------------------------------------------------------
(* trackBack.                                                               *)

distTrackBack == IF launch.start < launch.tail THEN launch.start ELSE launch.tail

\* Faulty variant: the distance is taken in the wrong direction.
goneBackForwards(s) == s - launch.start >= distTrackBack

goneBack(s) == launch.start - s >= distTrackBack

Init ==
    /\ launch \in Launches /\ extent \in [Elements -> Extents]
    /\ pathLength = launch.start /\ currentStep = 0
    /\ phase = IF goneBack(pathLength) THEN "turn" ELSE "back"
    /\ first = [path |-> launch.start, step |-> 0]
    /\ stretch = stretchFrom(pathLength, -1)
    /\ returnLength = -1 /\ imap = NewMap

\* A step back; integrate() goes on until the support changes, on a line without
\* support for one step only.
StepBack ==
    /\ phase = "back" /\ currentStep < MaxBack
    /\ LET s       == pathLength - StepLength
           next    == stretchFrom(s, -1)
           leaving == \/ ~launch.ring /\ stretch.elements = {}
                      \/ next.elements # stretch.elements
       IN  /\ pathLength' = s
           /\ currentStep' = currentStep + 1
           /\ phase' = IF leaving /\ goneBack(s) THEN "turn" ELSE "back"
           /\ stretch' = IF leaving THEN next ELSE stretch
    /\ UNCHANGED <<job, first, returnLength, imap>>

TurnForward ==
    /\ phase = "turn"
    /\ currentStep' = -currentStep
    /\ first' = [path |-> pathLength, step |-> -currentStep]
    /\ stretch' = stretchFrom(pathLength, 1)
    /\ phase' = IF tooShort(pathLength, stretch'.elements) THEN "failed" ELSE "forward"
    /\ UNCHANGED <<job, pathLength, returnLength, imap>>

-----------------------------------------------------------------------------
(* The forward pass.                                                        *)

stepOutside(n) == n <= first.step \/ n >= NumSteps

pathOutside(s) == s <= first.path \/ s >= sStop

\* The end of execute(): the period of a ring, and the last stretch.
finished(map, s, length) ==
    tidyUp(IF launch.ring THEN setPeriod(map, launch.start, length) ELSE map,
           IF launch.ring THEN s ELSE sStop)

\* A step of a line without maps, where the support at its middle counts. The
\* loop of integrate() ends at the end of the line or where the support changes,
\* the one of execute() there, when the steps are used up, or in the element
\* after the one that reaches past the stop.
PlainStep ==
    /\ phase = "forward" /\ ~resolveSupport
    /\ LET s       == pathLength + StepLength
           n       == currentStep + 1
           next    == stretchFrom(s, 1)
           atEnd   == stretch.elements = {} /\ (pathOutside(s) \/ stepOutside(n))
           leaving == atEnd \/ next.elements # stretch.elements
           over    == \/ atEnd
                      \/ stepOutside(n)
                      \/ /\ pathOutside(s)
                         /\ next.elements # {} /\ stretch.elements # {}
                         /\ next.elements \cap stretch.elements = {}
           added   == add(imap, stretch.from, s, stretch.elements)
       IN  /\ pathLength' = s /\ currentStep' = n
           /\ IF ~leaving THEN UNCHANGED <<phase, stretch, imap>>
              ELSE IF over THEN /\ phase' = "done"
                                /\ imap' = finished(added, s, 0)
                                /\ UNCHANGED stretch
              ELSE /\ phase' = IF tooShort(s, next.elements) THEN "failed" ELSE "forward"
                   /\ imap' = added
                   /\ stretch' = next
    /\ UNCHANGED <<job, first, returnLength>>

\* Side of the launch plane on which the reference is: 1 in front of it, -1
\* behind, 0 on it.
side(s) ==
    LET x == (s - launch.start) % Circumference
    IN  IF ~launch.closes THEN (IF s < launch.start THEN -1 ELSE 1)
        ELSE IF 2 * x \in {0, Circumference} THEN 0
        ELSE IF 2 * x < Circumference THEN 1 ELSE -1

\* Faulty variant: the plane is crossed in either direction.
returnsEitherWay(u) == side(u) # 0 /\ side(u + 1) # side(u)

\* checkRingReturn between u and u + 1. Being behind the plane arms it, so that
\* only leaving the plane at the launch is no return.
returns(u) == side(u) = -1 /\ side(u + 1) # -1

searchedTooFar(s) == s - launch.start > 2 * Period

\* Whether threading ends, or fails, in the unit from u on.
endsIn(u) ==
    IF launch.ring THEN returns(u) \/ searchedTooFar(u + 1) ELSE u + 1 >= sStop

\* The units of a step that is cut where the support changes.
resolved(s) ==
    LET ends(n) == endsIn(s + n - 1)
        last    == CHOOSE n \in 1 .. StepLength :
                       /\ \A k \in 1 .. n - 1 : ~ends(k)
                       /\ ends(n) \/ n = StepLength
    IN  [n \in 1 .. last |-> s + n - 1]

addedUnits(map, units) ==
    LET added[n \in 0 .. Len(units)] ==
            IF n = 0 THEN map
            ELSE add(added[n - 1], units[n], units[n] + 1, getElements(units[n]))
    IN  added[Len(units)]

\* A step of a ring or with linear maps: every piece goes into the index.
ResolvedStep ==
    /\ phase = "forward" /\ resolveSupport
    /\ LET units  == resolved(pathLength)
           s      == Last(units) + 1
           added  == addedUnits(imap, units)
           back   == launch.ring /\ returns(s - 1)
           length == IF back THEN s - launch.start ELSE returnLength
           failed == launch.ring /\ (IF back THEN length <= 0 ELSE searchedTooFar(s))
           next   == stretchFrom(s, 1)
       IN  /\ pathLength' = s /\ currentStep' = currentStep + 1
           /\ returnLength' = length
           /\ IF failed THEN phase' = "failed" /\ UNCHANGED <<stretch, imap>>
              ELSE IF endsIn(s - 1) THEN /\ phase' = "done"
                                         /\ imap' = finished(added, s, length)
                                         /\ UNCHANGED stretch
              ELSE /\ imap' = added
                   /\ IF next.elements = stretch.elements THEN UNCHANGED <<phase, stretch>>
                      ELSE /\ stretch' = next
                           /\ phase' = IF tooShort(s, next.elements) THEN "failed" ELSE "forward"
    /\ UNCHANGED <<job, first>>

Next == StepBack \/ TurnForward \/ PlainStep \/ ResolvedStep

Spec == Init /\ [][Next]_vars /\ WF_vars(Next)

-----------------------------------------------------------------------------
(* Properties.                                                              *)

\* Types; the entries of the index follow each other, and no two that touch have
\* the same elements.
TypeOK ==
    /\ phase \in {"back", "turn", "forward", "done", "failed"}
    /\ {pathLength, currentStep, returnLength} \subseteq Int
    /\ stretch.elements \subseteq Elements
    /\ \A i \in DOMAIN imap.ranges :
           /\ imap.ranges[i].begin < imap.ranges[i].end
           /\ imap.ranges[i].elements \subseteq Elements
           /\ i > 1 => LET last == imap.ranges[i - 1]
                       IN  /\ imap.ranges[i].begin \div 2 >= last.end \div 2
                           /\ imap.ranges[i].elements # last.elements
    /\ DOMAIN imap.visits \subseteq Elements

\* The elements with a field between lower and upper, as far as the path went.
onPath(lower, upper) ==
    UNION {getElements(u) :
              u \in {v \in lower .. upper : launch.ring \/ v \in first.path .. pathLength - 1}}

positions == IF launch.ring THEN launch.start - Circumference .. launch.start + Circumference
             ELSE first.path - 1 .. pathLength + 1

widths == 0 .. Circumference \div 2

\* The tracker is given exactly the elements whose field the interval meets, on
\* a ring in whatever turn and across its seam, when the supports were resolved.
QueryIsExact ==
    phase = "done" /\ resolveSupport =>
        \A s \in positions, ds \in widths :
            IF launch.ring
            THEN ~outOfBounds(imap, s, ds) /\ query(imap, s, ds) = onPath(s - ds, s + ds)
            ELSE ~outOfBounds(imap, s, ds) => query(imap, s, ds) = onPath(s - ds, s + ds)

\* The length of path in the support of an element.
lengthOnPath(e) == Cardinality({u \in first.path .. pathLength - 1 : e \in getElements(u)})

\* Without resolved supports no element that the reference is in for the length
\* of a step is missed if the interval is widened by half a step.
NoElementMissed ==
    phase = "done" /\ ~resolveSupport =>
        \A s \in positions, ds \in widths :
            LET wide == ds + StepLength \div 2
            IN  ~outOfBounds(imap, s, wide) =>
                    {e \in onPath(s - ds, s + ds) : lengthOnPath(e) >= StepLength}
                        \subseteq query(imap, s, wide)

\* The tracker is told that the line has ended only past its last stop, unless
\* the steps of the threader were used up inside an element.
EndOfLineIsPastStop ==
    phase = "done" /\ ~launch.ring =>
        \/ stepOutside(currentStep) /\ stretch.elements # {}
        \/ \A s \in positions, ds \in widths : outOfBounds(imap, s, ds) => s - ds >= sStop

firstVisit(e) ==
    LET path  == first.path .. pathLength - 1
        begin == CHOOSE u \in path : /\ e \in getElements(u)
                                     /\ \A v \in first.path .. u - 1 : e \notin getElements(v)
        end   == CHOOSE u \in begin + 1 .. pathLength :
                     /\ u = pathLength \/ e \notin getElements(u)
                     /\ \A v \in begin .. u - 1 : e \in getElements(v)
    IN  [begin |-> 2 * begin, end |-> rounded(end)]

\* The range of an element is its first visit, whatever entries it was made of
\* and whether the path came back to it.
RangeIsFirstVisit ==
    phase = "done" /\ resolveSupport =>
        \A e \in DOMAIN imap.visits : imap.visits[e] = firstVisit(e)

\* What the index answers is what the reference met.
IndexFollowsPath == TypeOK /\ QueryIsExact /\ NoElementMissed /\ RangeIsFirstVisit

\* OrbitThreader.h: a ring ends at the crossing of the launch plane "after
\* travelling at least half the design circumference".
RingReturnIsATurn == returnLength # -1 => 2 * returnLength >= Period

\* Threading ends, on a ring also when its orbit does not close.
Terminates == <>(phase \in {"done", "failed"})
=============================================================================
