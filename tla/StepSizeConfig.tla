--------------------------- MODULE StepSizeConfig ---------------------------
(***************************************************************************)
(* The step-size schedule of a TRACK command: a list of segments, each with *)
(* a time step, a stop position on the reference path and a budget of      *)
(* integration steps (class StepSizeConfig), and the queries the tracker   *)
(* makes of it. The list iterator is an index 0 .. NumSegments passed by    *)
(* the caller; NumSegments is "end of list".                                *)
(***************************************************************************)
EXTENDS Integers

CONSTANTS
    NumSegments,   \* number of entries after TRACK pads DT, MAXSTEPS and ZSTOP
    SegmentDt,     \* segment -> time step
    SStop,         \* segment -> stop position, ascending (sortAscendingSStop)
    StepsBefore    \* index -> summed MAXSTEPS of all earlier segments

Segments == 0 .. NumSegments - 1
Indices  == 0 .. NumSegments

ASSUME ScheduleAssumption ==
    /\ NumSegments \in Nat \ {0}
    /\ SegmentDt \in [Segments -> Nat \ {0}]
    /\ SStop \in [Segments -> Int]
    /\ \A i, j \in Segments : i <= j => SStop[i] <= SStop[j]
    /\ StepsBefore \in [Indices -> Nat]
    /\ StepsBefore[0] = 0
    /\ \A i, j \in Indices : i <= j => StepsBefore[i] <= StepsBefore[j]

reachedEnd(i) == i = NumSegments

getNumSteps(i) == StepsBefore[i + 1] - StepsBefore[i]

getMaxSteps == StepsBefore[NumSegments]

\* advanceToPos moves from the first entry while the stop lies before spos and
\* a next entry exists, so it never runs off the end of the list; i is where it
\* comes to rest.
advancesToPos(i, spos) ==
    /\ \A j \in Segments : j < i => SStop[j] < spos
    /\ SStop[i] >= spos \/ i = NumSegments - 1

\* advanceToResumePosition throws unless the stored offset lies inside the
\* stored segment; the end of the schedule is accepted with offset zero only.
acceptsResumePosition(segment, stepsCompleted) ==
    /\ segment \in Indices
    /\ IF reachedEnd(segment) THEN stepsCompleted = 0
                              ELSE stepsCompleted < getNumSteps(segment)
=============================================================================
