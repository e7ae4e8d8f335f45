-------------------------- MODULE BoundaryStepping --------------------------
(***************************************************************************)
(* The time steps of ParallelTracker::execute on a ring: the boundary       *)
(* controlled mode, which bisects a step until no particle changes the set  *)
(* of elements it is in, and the last step of a run that was asked for a    *)
(* number of TURNS. One beam, nothing lost, nothing emitted; in the plain   *)
(* mode the same loop takes whole steps.                                    *)
(*                                                                         *)
(* Ranks take every decision together (an allreduce), so one schedule       *)
(* stands for all of them; the particles of all ranks are a set of offsets  *)
(* from the reference. Time is in ticks, positions in half ticks of flight. *)
(***************************************************************************)
EXTENDS BorisStepControl, DirectedTurnCounter, FiniteSets

CONSTANTS
    Commands,    \* the runs to consider: [segments, turns], where segments is a
                 \* sequence of [dt, stop, steps] and turns is 0 without TURNS
    Lattices,    \* the rings to consider, each a set of elements [begin, end]
    Bunches      \* the bunches to consider, each a set of offsets

Speed == 2       \* positions covered in one tick
None  == 0       \* terminalStepDt_m and boundaryStepDt_m when they do not limit dt

ASSUME SteppingAssumption ==
    /\ \A c \in Commands :
          /\ c.turns \in Nat
          /\ c.segments \in Seq([dt : Nat \ {0}, stop : Nat, steps : Nat])
          /\ c.segments # <<>>
          /\ c.turns > 0 => Len(c.segments) = 1
    /\ \A B \in Bunches : B \subseteq Int
    /\ \A L \in Lattices : \A e \in L : /\ e.begin \in 0 .. Circumference - 1
                                        /\ e.end \in e.begin + 1 .. Circumference

VARIABLES
    command, lattice, bunch,      \* the run, the ring and the particles
    controlled,   \* boundaryControlled_m
    phase,        \* where the loop is: "step", "trial", "drifted", "end" or "failed"
    segment,      \* position in the schedule of step sizes
    stepsDone,    \* stepsCompletedInSegment
    active,       \* the container is active
    schedule,     \* boundarySchedule
    nominalStart, \* boundaryNominalStart
    limits,       \* terminalStepDt_m and boundaryStepDt_m
    dt,           \* bunch time step
    time,         \* bunch time
    beam,         \* displacement of the particles
    ref,          \* path length of the reference particle
    counter,      \* the directed turn counter
    seen          \* the last stretch of path a monitor observed, and how

input    == <<command, lattice, bunch, controlled>>
progress == <<segment, stepsDone, active>>
plan     == <<schedule, nominalStart, limits, dt>>
state    == <<time, beam, ref, counter, seen>>
vars     == <<input, phase, progress, plan, state>>

Segments  == command.segments
Requested == command.turns

-----------------------------------------------------------------------------
(* Supports and the trial of a step.                                        *)

contains(e, s) == s % Circumference \in e.begin .. e.end - 1
support(s)     == {e \in lattice : contains(e, s)}

\* boundaryCrossed: start, midpoint and end of a trial are compared, for the
\* particles of every rank and for the reference.
boundaryCrossed(h) ==
    \E o \in bunch \cup {0} :
        \/ support(ref + o) # support(ref + o + h)
        \/ support(ref + o) # support(ref + o + 2 * h)

\* Faulty variant: no step is too long for the elements.
noMaximumStep(h) == FALSE

\* Four steps of maximumStep are the flight through the shortest element.
exceedsMaximumStep(h) == \E e \in lattice : 4 * Speed * h > e.end - e.begin

\* Faulty variant: the bisected interval does not limit the bunch time step.
selectDTUnbisected(track, lim) ==
    IF lim.terminal # None /\ lim.terminal < track THEN lim.terminal ELSE track

\* selectDT without emission.
selectDT(track, lim) ==
    LET m(a, b) == IF b # None /\ b < a THEN b ELSE a
    IN  m(m(track, lim.terminal), lim.boundary)

dtCurrentTrack == Segments[segment].dt

-----------------------------------------------------------------------------
(* The loop.                                                                *)

Init ==
    /\ command \in Commands /\ lattice \in Lattices /\ bunch \in Bunches /\ controlled \in BOOLEAN
    /\ phase = "step"
    /\ segment = 1 /\ stepsDone = 0 /\ active = TRUE
    /\ schedule = NoSchedule /\ nominalStart = 0
    /\ limits = [terminal |-> None, boundary |-> None]
    /\ dt = Segments[1].dt
    /\ time = 0 /\ beam = 0 /\ ref = 0
    /\ counter = NewCounter
    /\ seen = [from |-> 0, to |-> 0, refined |-> FALSE]

stepDue == phase = "step" /\ active /\ stepsDone < Segments[segment].steps

\* The plan of the coming step before the last turn is looked at.
fresh ==
    IF controlled
    THEN LET s == IF done(schedule) THEN emplace(dtCurrentTrack) ELSE schedule
             l == [terminal |-> None, boundary |-> step(s)]
         IN  [schedule |-> s, limits |-> l, dt |-> selectDT(dtCurrentTrack, l),
              start |-> IF done(schedule) THEN time ELSE nominalStart]
    ELSE [schedule |-> schedule, limits |-> limits, dt |-> dt, start |-> nominalStart]

\* The step that ends on the launch plane replaces what is left of the nominal step.
terminal(f, duration) ==
    [schedule |-> IF controlled THEN emplace(duration) ELSE f.schedule,
     limits   |-> [terminal |-> duration,
                   boundary |-> IF controlled THEN duration ELSE f.limits.boundary],
     dt       |-> duration,
     start    |-> IF controlled THEN time ELSE f.start]

chosen ==
    LET duration == terminalStep(counter, ref, Requested, fresh.dt, Speed)
    IN  IF duration < fresh.dt THEN terminal(fresh, duration) ELSE fresh

terminalRefused == unresolved(counter, ref, Requested, fresh.dt, Speed)

\* One pass of the loop up to the first half drift; a plain step drifts at once.
BeginStep ==
    /\ stepDue /\ ~terminalRefused
    /\ schedule' = chosen.schedule /\ nominalStart' = chosen.start
    /\ limits' = chosen.limits /\ dt' = chosen.dt
    /\ phase' = IF controlled THEN "trial" ELSE "drifted"
    /\ beam' = IF controlled THEN beam ELSE beam + chosen.dt
    /\ UNCHANGED <<input, progress, time, ref, counter, seen>>

\* The last turn cannot be resolved, or the reference meets material on the way.
TerminalFails ==
    /\ stepDue
    /\ returning(counter, ref, Requested, fresh.dt, Speed)
    /\ phase' = "failed"
    /\ UNCHANGED <<input, progress, plan, state>>

\* Faulty variant: a rejected half drift is left in the particles.
driftLeft(h) == beam

reverseTrialDrift(h) == beam - h

mustSplitUntried == canSplit(schedule) /\ exceedsMaximumStep(step(schedule))

\* prepareBoundaryStep: an interval too long for the elements is not tried.
RejectUntried ==
    /\ phase = "trial" /\ mustSplitUntried
    /\ limits' = [limits EXCEPT !.boundary = step(schedule)]
    /\ dt' = selectDT(dtCurrentTrack, limits')
    /\ IF trialsLeft(schedule) THEN schedule' = split(schedule) /\ phase' = "trial"
                               ELSE schedule' = schedule /\ phase' = "failed"
    /\ UNCHANGED <<input, progress, nominalStart, state>>

HalfDrift ==
    /\ phase = "trial" /\ ~mustSplitUntried
    /\ limits' = [limits EXCEPT !.boundary = step(schedule)]
    /\ dt' = selectDT(dtCurrentTrack, limits')
    /\ beam' = beam + step(schedule)
    /\ phase' = "drifted"
    /\ UNCHANGED <<input, progress, schedule, nominalStart, time, ref, counter, seen>>

mustSplit == controlled /\ canSplit(schedule) /\ boundaryCrossed(step(schedule))

\* Reject a trial that changed elements: undo the drift, then bisect.
RejectTrial ==
    /\ phase = "drifted" /\ mustSplit
    /\ beam' = reverseTrialDrift(step(schedule))
    /\ IF trialsLeft(schedule) THEN schedule' = split(schedule) /\ phase' = "trial"
                               ELSE schedule' = schedule /\ phase' = "failed"
    /\ UNCHANGED <<input, progress, nominalStart, limits, dt, time, ref, counter, seen>>

\* setPcAtSStop: by turns, or near the stop of the segment.
atStop(c, s) ==
    IF Requested > 0 THEN c.turns >= Requested
    ELSE LET gap == Segments[segment].stop - s
         IN  2 * (IF gap < 0 THEN -gap ELSE gap) < Speed * dt

stepCounted(s) == ~controlled \/ done(s)

\* Accept the trial: monitors, the kick and second half drift, the clock, the
\* reference, the turn counter and the stop test.
Commit ==
    /\ phase = "drifted" /\ ~mustSplit
    /\ controlled => canAccept(schedule)
    /\ LET s == IF controlled THEN accept(schedule) ELSE schedule
           t == IF controlled THEN nominalStart + s.elapsed ELSE time + dt
           r == ref + Speed * dt
           c == IF Requested > 0 THEN update(counter, r) ELSE counter
       IN  /\ schedule' = s /\ time' = t /\ ref' = r /\ counter' = c
           /\ beam' = beam + dt
           /\ seen' = [from |-> beam - dt, to |-> beam + dt,
                       refined |-> controlled /\ canSplit(schedule)]
           /\ stepsDone' = IF stepCounted(s) THEN stepsDone + 1 ELSE stepsDone
           /\ active' = ~atStop(c, r)
    /\ phase' = "step"
    /\ UNCHANGED <<input, segment, nominalStart, limits, dt>>

\* The budget is exhausted when the kicked particles are to be accepted.
AcceptFails ==
    /\ phase = "drifted" /\ ~mustSplit
    /\ controlled /\ ~canAccept(schedule)
    /\ beam' = beam + dt
    /\ seen' = [from |-> beam - dt, to |-> beam + dt, refined |-> canSplit(schedule)]
    /\ phase' = "failed"
    /\ UNCHANGED <<input, progress, plan, time, ref, counter>>

\* The inner loop ends: the next segment, or the end of execute(), which fails
\* if the requested turns are missing. What the head of a last pass plans before it
\* sees that no container is active is planned again before any use, and left out.
EndSegment ==
    /\ phase = "step" /\ ~(active /\ stepsDone < Segments[segment].steps)
    /\ IF segment < Len(Segments)
       THEN /\ segment' = segment + 1 /\ stepsDone' = 0 /\ active' = TRUE
            /\ dt' = selectDT(Segments[segment + 1].dt, limits)
            /\ schedule' = NoSchedule /\ nominalStart' = 0
            /\ phase' = "step"
       ELSE /\ phase' = IF counter.turns < Requested THEN "failed" ELSE "end"
            /\ UNCHANGED <<progress, schedule, nominalStart, dt>>
    /\ UNCHANGED <<input, limits, state>>

Next ==
    \/ BeginStep \/ TerminalFails
    \/ RejectUntried \/ HalfDrift \/ RejectTrial
    \/ Commit \/ AcceptFails
    \/ EndSegment

Spec == Init /\ [][Next]_vars
-----------------------------------------------------------------------------
(* Properties.                                                              *)

\* Types; the stack of intervals never outgrows the array that holds the
\* depths (maximumDepth + 1 entries), and the budget is never exceeded.
TypeOK ==
    /\ phase \in {"step", "trial", "drifted", "end", "failed"}
    /\ controlled \in BOOLEAN /\ active \in BOOLEAN
    /\ segment \in 1 .. Len(Segments)
    /\ stepsDone \in Nat
    /\ Len(schedule.pending) <= MaxDepth + 1
    /\ schedule.trials \in 0 .. MaxTrials
    /\ schedule.elapsed \in Nat /\ schedule.nominal \in Nat /\ nominalStart \in Nat
    /\ \A i \in DOMAIN schedule.pending :
           /\ schedule.pending[i].depth \in 0 .. MaxDepth
           /\ schedule.pending[i].width \in Nat \ {0}
           /\ schedule.pending[i].end \in Nat
    /\ limits \in [terminal : Nat, boundary : Nat]
    /\ dt \in Nat \ {0} /\ time \in Nat /\ beam \in Int /\ ref \in Nat
    /\ counter \in [armed : BOOLEAN, turns : Nat]
    /\ seen \in [from : Int, to : Int, refined : BOOLEAN]

\* However often intervals are bisected, the pending ones and the elapsed time
\* partition the nominal step: no time is lost and none is integrated twice.
TilesTheStep ==
    LET p == schedule.pending  n == Len(p)
    IN  /\ n > 0 => /\ p[1].end = schedule.nominal
                    /\ p[n].end - p[n].width = schedule.elapsed
        /\ \A i \in 1 .. n - 1 : p[i].end - p[i].width = p[i + 1].end
        /\ n = 0 => schedule.elapsed = schedule.nominal

\* The clock (set from the schedule), the reference (advanced by the bunch
\* time step) and the particles (drifted, undone and drifted again) stay
\* together, also when the last turn replaces a half finished schedule.
ClockFollowsBeam ==
    /\ phase \in {"step", "end"} => Speed * time = ref /\ beam = ref
    /\ phase = "trial" => beam = ref
    /\ phase = "drifted" => beam = ref + dt

\* A step that could still be bisected is accepted only if no particle of any
\* rank meets another set of elements anywhere on it, although only the start,
\* the midpoint and the end are looked at.
NoElementSkipped ==
    seen.refined => \A o \in bunch \cup {0} : \A s \in seen.from .. seen.to :
                        support(s + o) = support(seen.from + o)

\* MAXSTEPS counts nominal steps, whatever number of intervals they took.
StepsAreNominal ==
    /\ phase = "step" /\ done(schedule) /\ segment = 1
    /\ Requested > 0 => counter.turns < Requested
    => time = stepsDone * Segments[1].dt

\* The counter agrees with the path after every accepted interval.
TurnsAreReal ==
    phase = "step" /\ Requested > 0 => counter.turns = ref \div Circumference

\* A run asked for turns that ends does so on the launch plane.
TurnsEndOnPlane ==
    phase = "end" /\ Requested > 0 => ref = Requested * Circumference

\* The counters that end a run, of steps and of turns, agree with the path.
CountersFollowPath == StepsAreNominal /\ TurnsAreReal /\ TurnsEndOnPlane

\* A monitor observes every stretch of the path once and in order, although
\* trials pass it and are undone.
ObservedOnce == [][seen' # seen => seen'.from = seen.to]_vars
=============================================================================
