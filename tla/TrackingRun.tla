----------------------------- MODULE TrackingRun -----------------------------
(***************************************************************************)
(* What a tracking job promises, without beams, clocks or files: it walks  *)
(* through the schedule segment by segment, one counted step at a time;    *)
(* now and then it saves where the next step is; after an interruption it  *)
(* goes on from the saved position, or from the start if there is none.    *)
(* ParallelTracker implements this specification.                          *)
(***************************************************************************)
EXTENDS StepSizeConfig

VARIABLES
    status,      \* "idle", "tracking", "interrupted", "finished", "refused"
    gstep,       \* steps done
    segment,     \* segment of the schedule
    stepsDone,   \* steps done in the segment
    saved        \* saved position, NotSaved before the first save

vars == <<status, gstep, segment, stepsDone, saved>>

NotSaved == [gstep |-> -1]

savedAt(g, seg, steps) == [gstep |-> g, segment |-> seg, stepsDone |-> steps]

Init ==
    /\ status = "idle"
    /\ gstep = 0 /\ segment = 0 /\ stepsDone = 0
    /\ saved = NotSaved

Begin ==
    /\ status \in {"idle", "interrupted"} /\ saved = NotSaved
    /\ status' = "tracking"
    /\ gstep' = 0 /\ stepsDone' = 0 /\ segment' \in Segments
    /\ UNCHANGED saved

\* A position saved now in a later segment closes the current one: were the run
\* to work on in it, the steps done would be done again after an interruption
\* under a different segment.
SegmentClosed ==
    saved # NotSaved /\ saved.gstep = gstep /\ saved.segment > segment

Work ==
    /\ status = "tracking" /\ segment \in Segments
    /\ stepsDone < getNumSteps(segment)
    /\ ~SegmentClosed
    /\ gstep' = gstep + 1
    /\ stepsDone' = stepsDone + 1
    /\ \/ UNCHANGED saved
       \/ /\ stepsDone' < getNumSteps(segment)
          /\ saved' = savedAt(gstep', segment, stepsDone')
       \/ saved' = savedAt(gstep', segment + 1, 0)
    /\ UNCHANGED <<status, segment>>

CloseSegment ==
    /\ status = "tracking" /\ segment \in Segments
    /\ segment' = segment + 1 /\ stepsDone' = 0
    /\ UNCHANGED <<status, gstep, saved>>

Finish ==
    /\ status = "tracking"
    /\ status' = "finished"
    /\ UNCHANGED <<gstep, segment, stepsDone, saved>>

Interrupt ==
    /\ status = "tracking"
    /\ status' = "interrupted"
    /\ UNCHANGED <<gstep, segment, stepsDone, saved>>

Resume ==
    /\ status = "interrupted" /\ saved # NotSaved
    /\ gstep' = saved.gstep
    /\ segment' = saved.segment
    /\ stepsDone' = saved.stepsDone
    /\ status' = IF reachedEnd(saved.segment) THEN "finished" ELSE "tracking"
    /\ UNCHANGED saved

Refuse ==
    /\ status = "interrupted" /\ saved # NotSaved
    /\ status' = "refused"
    /\ UNCHANGED <<gstep, segment, stepsDone, saved>>

Next == Begin \/ Work \/ CloseSegment \/ Finish \/ Interrupt \/ Resume \/ Refuse

Spec == Init /\ [][Next]_vars
=============================================================================
