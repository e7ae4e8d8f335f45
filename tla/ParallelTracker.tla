--------------------------- MODULE ParallelTracker ---------------------------
(***************************************************************************)
(* The time loop of ParallelTracker::execute over the step-size schedule,   *)
(* the activity flags PartBunch keeps per particle container, the periodic  *)
(* checkpoint, and a crash followed by a restart from that checkpoint.      *)
(*                                                                         *)
(* All MPI ranks run this loop in lockstep on replicated control state, so  *)
(* one process stands for the job. A container is reduced to "holds         *)
(* particles or not"; path lengths and times are integers.                  *)
(***************************************************************************)
EXTENDS StepSizeConfig, FiniteSets

CONSTANTS
    Containers,      \* particle containers, one per beam
    Root,            \* container -> container owning its reference particle
    Speed,           \* container -> path length per unit of time
    Loaded,          \* containers filled before tracking starts
    Windowed,        \* containers fed by a source with a time window (FlatTop)
    EmitEnd,         \* windowed source -> time at which emission is done
    Inventory,       \* containers fed from a list of births (EmittedFromFile, OpalFlatTop)
    EmitDt,          \* inventory source -> emission time step, 0 for none
    Daughter,        \* decaying container -> container of its decay products
    StartTime,       \* bunch time after the global phase shift, may be negative
    StartPos,        \* ZSTART
    LatticeEnd,      \* path length beyond which IndexMap queries are out of bounds
    ApertureLosses,  \* TRUE if apertures can remove the last particle of a container
    CheckpointFreq,  \* CHECKPOINTFREQ, 0 disables checkpoints
    MaxCrashes       \* bound on the number of crashes

Emits    == Windowed \cup Inventory
Decaying == DOMAIN Daughter

ASSUME TrackerAssumption ==
    /\ IsFiniteSet(Containers)
    /\ Root \in [Containers -> Containers]
    /\ \A c \in Containers : Root[Root[c]] = Root[c]
    /\ Speed \in [Containers -> Nat]
    /\ Loaded \subseteq Containers
    /\ Windowed \subseteq Containers /\ Inventory \subseteq Containers
    /\ \A c \in Loaded \cup Emits : Root[c] = c
    /\ EmitEnd \in [Windowed -> Int]
    /\ EmitDt \in [Inventory -> Nat]
    /\ Decaying \subseteq Containers
    /\ Daughter \in [Decaying -> Containers]
    /\ \A p \in Decaying : Daughter[p] # p /\ Root[Daughter[p]] = Root[p]
    /\ StartTime \in Int /\ StartPos \in Int /\ LatticeEnd \in Int
    /\ ApertureLosses \in BOOLEAN
    /\ CheckpointFreq \in Nat
    /\ MaxCrashes \in Nat

VARIABLES
    phase,        \* where the job is in execute()
    segment,      \* position of stepSizes_m, equal to segmentIndex
    stepsDone,    \* stepsCompletedInSegment
    resuming,     \* restarting_m and the first segment has not been entered
    gstep,        \* global track step: steps completed so far
    time,         \* bunch time
    dt,           \* bunch time step
    spent,        \* inventory sources that have emitted all their particles
    nonEmpty,     \* containers holding particles
    active,       \* pcActive_m
    atSStop,      \* pcAtSStop_m
    sPos,         \* path length of each container's reference particle
    globalEOL,    \* globalEOL_m of the last step
    checkpoint,   \* contents of the published checkpoint file
    crashes       \* number of crashes so far

position == <<segment, stepsDone, resuming>>
clock    == <<gstep, time, dt>>
bunch    == <<spent, nonEmpty, active, atSStop, sPos>>
vars     == <<phase, position, clock, bunch, globalEOL, checkpoint, crashes>>

NoCheckpoint == [gstep |-> -1]

-----------------------------------------------------------------------------
(* Emission sources, time step selection and reference particles.           *)

\* A windowed source is done once its window has passed, an inventory source
\* once it has emitted its last particle.
isEmissionDone(c, t) == t >= EmitEnd[c]

Emitting(t, done) == {c \in Windowed : ~isEmissionDone(c, t)} \cup (Inventory \ done)

EmissionSteps(done) == {EmitDt[c] : c \in {i \in Inventory \ done : EmitDt[i] > 0}}

TimeSteps == {SegmentDt[i] : i \in Segments} \cup EmissionSteps({})

\* selectDT: the smallest step of an unfinished emission source that has one,
\* otherwise the step of the current segment.
selectsDT(d, dtCurrentTrack, done) ==
    IF EmissionSteps(done) = {} THEN d = dtCurrentTrack
    ELSE d \in EmissionSteps(done) /\ \A e \in EmissionSteps(done) : d <= e

\* Faulty variant: frozen containers are not left out.
everyReferenceMoves(r, activeSet) == TRUE

\* Reference particles that advance: those of roots with an active container
\* among themselves and their followers (PartBunch::referenceMoves).
referenceMoves(r, activeSet) == \E c \in activeSet : Root[c] = r

\* updateReference advances every moving reference by min(T, dT) and copies the
\* root's reference to its followers; it is skipped while T is not positive.
updateReference(t, d, activeSet) ==
    LET advance == IF t <= 0 THEN 0 ELSE IF t < d THEN t ELSE d
    IN  [c \in Containers |->
            sPos[Root[c]] + (IF referenceMoves(Root[c], activeSet)
                             THEN advance * Speed[Root[c]] ELSE 0)]

drift(c, d) == d * Speed[Root[c]]

\* The end-of-step test that freezes a container at the stop of the segment.
reachesSStop(c, s, d) ==
    LET distance == SStop[segment] - s
    IN  2 * distance < drift(c, d) /\ -2 * distance < drift(c, d)

-----------------------------------------------------------------------------
(* The checkpoint file.                                                     *)

\* Faulty variant: the time is saved before it is incremented.
snapshotOfEarlierTime(g, t, d, seg, steps, populated, stopped, s, live) ==
    [gstep |-> g, time |-> t - d, dt |-> d, segment |-> seg, stepsDone |-> steps,
     nonEmpty |-> populated, atSStop |-> stopped, sPos |-> s,
     liveActive |-> live]

\* What the file holds at a position of the schedule. The last field is
\* not written by the code: it records the live run for the properties.
snapshot(g, t, d, seg, steps, populated, stopped, s, live) ==
    [gstep |-> g, time |-> t, dt |-> d, segment |-> seg, stepsDone |-> steps,
     nonEmpty |-> populated, atSStop |-> stopped, sPos |-> s,
     liveActive |-> live]

\* TrackRun refuses to restart with emission sources or decays; execute throws
\* if the position is not in the schedule or its time step differs.
acceptsRestart(ck) ==
    /\ Emits = {} /\ Decaying = {}
    /\ acceptsResumePosition(ck.segment, ck.stepsDone)
    /\ ~reachedEnd(ck.segment) => SegmentDt[ck.segment] = ck.dt

\* Faulty variant: the stop flags are not restored.
stopFlagsLost(ck) == {}

\* Flags after CheckpointFile::read and the reset at the start of execute.
resumedAtSStop(ck) == IF ck.stepsDone = 0 THEN {} ELSE ck.atSStop
resumedActive(ck)  == ck.nonEmpty \ resumedAtSStop(ck)

-----------------------------------------------------------------------------
Init ==
    /\ phase = "idle"
    /\ segment = 0 /\ stepsDone = 0 /\ resuming = FALSE
    /\ gstep = 0 /\ time = StartTime /\ dt = SegmentDt[0]
    /\ spent = {} /\ nonEmpty = {} /\ active = {} /\ atSStop = {}
    /\ sPos = [c \in Containers |-> StartPos]
    /\ globalEOL = FALSE
    /\ checkpoint = NoCheckpoint
    /\ crashes = 0

\* A fresh run: load the initial distributions and start in the first segment
\* whose stop is not behind ZSTART.
FreshStart ==
    /\ phase \in {"idle", "interrupted"}
    /\ checkpoint = NoCheckpoint
    /\ segment' \in Segments /\ advancesToPos(segment', StartPos)
    /\ stepsDone' = 0 /\ resuming' = FALSE
    /\ gstep' = 0 /\ time' = StartTime /\ dt' = SegmentDt[0]
    /\ spent' = {} /\ nonEmpty' = Loaded
    /\ active' = Loaded \cup Emitting(StartTime, {})
    /\ atSStop' = {}
    /\ sPos' = [c \in Containers |-> StartPos]
    /\ globalEOL' = FALSE
    /\ phase' = "segment"
    /\ UNCHANGED <<checkpoint, crashes>>

\* A restart: CheckpointFile::read, then the checks at the top of execute.
Restart ==
    /\ phase = "interrupted"
    /\ checkpoint # NoCheckpoint
    /\ acceptsRestart(checkpoint)
    /\ segment' = checkpoint.segment
    /\ stepsDone' = checkpoint.stepsDone
    /\ resuming' = TRUE
    /\ gstep' = checkpoint.gstep /\ time' = checkpoint.time /\ dt' = checkpoint.dt
    /\ spent' = {} /\ nonEmpty' = checkpoint.nonEmpty
    /\ active' = resumedActive(checkpoint)
    /\ atSStop' = resumedAtSStop(checkpoint)
    /\ sPos' = checkpoint.sPos
    /\ globalEOL' = FALSE
    /\ phase' = IF reachedEnd(checkpoint.segment) THEN "finished" ELSE "segment"
    /\ UNCHANGED <<checkpoint, crashes>>

RefuseRestart ==
    /\ phase = "interrupted"
    /\ checkpoint # NoCheckpoint
    /\ ~acceptsRestart(checkpoint)
    /\ phase' = "refused"
    /\ UNCHANGED <<position, clock, bunch, globalEOL, checkpoint, crashes>>

\* Faulty variant: the stop flags of the last segment are not cleared.
resetActiveOnly == active' = nonEmpty \cup Emitting(time, spent) /\ UNCHANGED atSStop

\* Flags at the start of a segment; containers with emission to come are switched
\* on (PartBunch::resetPcActive, activateEmittingContainers).
resetPcActive == active' = nonEmpty \cup Emitting(time, spent) /\ atSStop' = {}

\* Top of the outer loop: the flags are reset except in the segment a restart
\* re-enters half way.
BeginSegment ==
    /\ phase = "segment"
    /\ ~reachedEnd(segment)
    /\ dt' \in TimeSteps /\ selectsDT(dt', SegmentDt[segment], spent)
    /\ IF resuming /\ stepsDone > 0
       THEN active' = active \cup Emitting(time, spent) /\ UNCHANGED atSStop
       ELSE resetPcActive
    /\ resuming' = FALSE
    /\ phase' = "step"
    /\ UNCHANGED <<segment, stepsDone, gstep, time, spent, nonEmpty, sPos,
                   globalEOL, checkpoint, crashes>>

\* D may be the set of containers with a decay this step: each was populated or
\* received a decay product earlier in the same sweep.
mayDecay(D, populated) ==
    \A p \in D : p \in populated \/ \E q \in D : Daughter[q] = p

\* refreshPcActiveAfterEmit: populated containers are switched on unless frozen.
refreshed(flags, populated) == flags \cup (populated \ atSStop)

\* Faulty variant: the container of the decay products is not switched on.
neverRefreshedAfterDecay(flags, decayed, populated) == flags

\* The refresh after the global processes, made when one of them took effect.
refreshedAfterDecay(flags, decayed, populated) ==
    IF decayed = {} THEN flags ELSE refreshed(flags, populated)

\* The containers frozen at the end of a step that moved the given ones.
stopsAfter(moving, s, d) == {c \in moving : reachesSStop(c, s[c], d)}

\* What happens to the particles and references in one step: emission, decay,
\* reference update, aperture losses, stop test. The arguments are the containers
\* that receive emitted particles, that have a decay, that lose their last
\* particle to decay, and that lose their last particle to an aperture.
Push(emitted, decayed, exhausted, lost) ==
    LET filled == nonEmpty \cup emitted
        bred   == filled \cup {Daughter[p] : p \in decayed}
        live   == refreshed(active, filled)
        moving == refreshedAfterDecay(live, decayed, bred)
    IN  /\ mayDecay(decayed, filled)
        /\ lost \subseteq IF ApertureLosses THEN moving ELSE {}
        /\ nonEmpty' = (bred \ exhausted) \ lost
        /\ sPos' = updateReference(time', dt', moving)
        /\ globalEOL' = (\E c \in moving : sPos'[c] > LatticeEnd)
        /\ active' = moving \ stopsAfter(moving, sPos', dt')
        /\ atSStop' = atSStop \cup stopsAfter(moving, sPos', dt')

\* Faulty variant: counts the steps of the segment instead of all steps.
checkpointDueInSegment(g) == CheckpointFreq > 0 /\ stepsDone' % CheckpointFreq = 0

checkpointDue(g) == CheckpointFreq > 0 /\ g % CheckpointFreq = 0

\* Faulty variant: the end of a segment by its budget is not noticed.
segmentCompleteByStop == active' = {}

\* On the last step of a segment the file names the start of the next one.
segmentComplete == active' = {} \/ stepsDone' = getNumSteps(segment)

\* Faulty variants: the index is advanced twice, or not at all.
nextSegmentTwice == IF segmentComplete THEN segment + 2 ELSE segment
nextSegmentForgotten == segment

nextSegment == IF segmentComplete THEN segment + 1 ELSE segment

\* Faulty variant: the offset in the segment is not saved.
nextSegmentStepsForgotten == 0

nextSegmentSteps == IF segmentComplete THEN 0 ELSE stepsDone'

WriteCheckpoint ==
    checkpoint' = IF checkpointDue(gstep')
                  THEN snapshot(gstep', time', dt', nextSegment, nextSegmentSteps,
                                nonEmpty', atSStop', sPos', active')
                  ELSE checkpoint

\* One pass through the inner loop, up to the checkpoint at its end. The time step
\* is selected again after emission: in the step that uses up an inventory the
\* clock already advances by the step that follows.
IntegrationStep ==
    /\ phase = "step"
    /\ stepsDone < getNumSteps(segment)
    /\ active # {}
    /\ gstep' = gstep + 1
    /\ stepsDone' = stepsDone + 1
    /\ \E emitted \in SUBSET (Emitting(time, spent) \ atSStop) :
          /\ spent' \in {spent \cup used : used \in SUBSET (emitted \cap Inventory)}
          /\ dt' \in TimeSteps /\ selectsDT(dt', SegmentDt[segment], spent')
          /\ time' = time + dt'
          /\ \E decayed \in SUBSET Decaying, lost \in SUBSET Containers :
             \E exhausted \in SUBSET decayed :
                Push(emitted, decayed, exhausted, lost)
    /\ UNCHANGED <<segment, resuming>>

TimeStep ==
    /\ IntegrationStep
    /\ WriteCheckpoint
    /\ UNCHANGED <<phase, crashes>>

\* Faulty variant: a spent budget does not end the segment.
innerLoopDoneByStop == active = {}

\* The inner loop is left when no container is active or the budget is spent.
innerLoopDone == active = {} \/ stepsDone = getNumSteps(segment)

\* Bottom of the outer loop: leave for good at the end of the line, otherwise
\* go on to the next segment.
LeaveSegment ==
    /\ phase = "step"
    /\ innerLoopDone
    /\ IF globalEOL
       THEN phase' = "finished" /\ UNCHANGED <<segment, stepsDone>>
       ELSE phase' = "segment" /\ segment' = segment + 1 /\ stepsDone' = 0
    /\ UNCHANGED <<resuming, clock, bunch, globalEOL, checkpoint, crashes>>

EndOfSchedule ==
    /\ phase = "segment"
    /\ reachedEnd(segment)
    /\ phase' = "finished"
    /\ UNCHANGED <<position, clock, bunch, globalEOL, checkpoint, crashes>>

\* The job is killed, or ends with an exception; only the checkpoint file survives.
Crash ==
    /\ phase \in {"segment", "step"}
    /\ crashes < MaxCrashes
    /\ phase' = "interrupted"
    /\ crashes' = crashes + 1
    /\ UNCHANGED <<position, clock, bunch, globalEOL, checkpoint>>

\* What the program and the operator who resubmits it do.
Run == FreshStart \/ Restart \/ RefuseRestart \/ BeginSegment \/ TimeStep
       \/ LeaveSegment \/ EndOfSchedule

Next == Run \/ Crash

Spec == Init /\ [][Next]_vars

FairSpec == Spec /\ WF_vars(Run)

-----------------------------------------------------------------------------
(* Properties.                                                              *)

Snapshots ==
    [gstep : Nat, time : Int, dt : TimeSteps, segment : Indices, stepsDone : Nat,
     nonEmpty : SUBSET Containers, atSStop : SUBSET Containers,
     sPos : [Containers -> Int], liveActive : SUBSET Containers]

\* Every variable has its type.
TypeOK ==
    /\ phase \in {"idle", "segment", "step", "finished", "refused", "interrupted"}
    /\ segment \in Indices
    /\ stepsDone \in Nat
    /\ resuming \in BOOLEAN
    /\ gstep \in Nat /\ time \in Int /\ dt \in TimeSteps
    /\ spent \subseteq Inventory
    /\ nonEmpty \subseteq Containers
    /\ active \subseteq Containers
    /\ atSStop \subseteq Containers
    /\ sPos \in [Containers -> Int]
    /\ globalEOL \in BOOLEAN
    /\ checkpoint \in Snapshots \cup {NoCheckpoint}
    /\ crashes \in 0 .. MaxCrashes

Tracking == phase \in {"segment", "step"}

\* However often the job is killed and restarted, no segment is given more
\* integration steps than MAXSTEPS grants it, and the global step count never
\* exceeds what the segments up to the current position allow.
MaxStepsHonoured ==
    Tracking => /\ gstep <= StepsBefore[segment] + stepsDone
                /\ segment < NumSegments => stepsDone <= getNumSteps(segment)
                /\ gstep <= getMaxSteps

\* A crash never loses more than CHECKPOINTFREQ - 1 completed steps, whether
\* or not a segment ended in between.
LostWorkBounded ==
    (Tracking /\ CheckpointFreq > 0) =>
        IF checkpoint = NoCheckpoint
        THEN gstep < CheckpointFreq
        ELSE /\ checkpoint.gstep <= gstep
             /\ gstep - checkpoint.gstep < CheckpointFreq

\* A restart never runs the clock backwards relative to the steps: between the
\* checkpoint and any later step of the same timeline the bunch time has grown.
\* The phase-space files are cut back by time on the strength of this.
ClockOrdersSteps ==
    (Tracking /\ checkpoint # NoCheckpoint) =>
        /\ checkpoint.gstep = gstep => checkpoint.time = time
        /\ checkpoint.gstep < gstep => checkpoint.time < time

\* While steps are taken every container that holds particles is either pushed
\* or frozen at the stop of the segment, never both and never forgotten; this
\* has to survive emission, decay into an empty container, and a restart.
ActivityPartition ==
    phase = "step" => /\ nonEmpty \subseteq active \cup atSStop
                      /\ active \cap atSStop = {}

\* A frozen container was frozen within half a step's drift of the stop of the
\* segment being tracked: flags of an earlier segment never leak into it.
FrozenNearStop ==
    phase = "step" =>
        \A c \in atSStop : \E d \in TimeSteps :
            /\ 2 * (SStop[segment] - sPos[c]) < drift(c, d)
            /\ 2 * (sPos[c] - SStop[segment]) < drift(c, d)

\* A container frozen at the stop of a segment does not move before the next
\* segment, whatever the other containers do.
FrozenAtStop ==
    [][(phase = "step" /\ phase' = "step" /\ gstep' > gstep) =>
          \A c \in atSStop : sPos'[c] = sPos[c]]_vars

\* No container was being pushed without particles when the file was written.
NoEmptyActive(ck) == ck.liveActive \subseteq ck.nonEmpty

\* A published checkpoint can be restarted from with the unchanged input.
CheckpointResumable ==
    (checkpoint # NoCheckpoint /\ Emits = {} /\ Decaying = {}) =>
        acceptsRestart(checkpoint)

\* A restart into the middle of a segment pushes exactly the containers the
\* run that wrote the checkpoint would have pushed, unless one of these had lost
\* all its particles in that segment.
ResumeKeepsPopulatedActivity ==
    (checkpoint # NoCheckpoint /\ checkpoint.stepsDone > 0
        /\ NoEmptyActive(checkpoint)) =>
        resumedActive(checkpoint) = checkpoint.liveActive

\* The state of the abstract run: a job that is tracking, and the position that
\* the checkpoint file names.
status == IF Tracking THEN "tracking" ELSE phase

saved == IF checkpoint = NoCheckpoint THEN [gstep |-> -1]
         ELSE [gstep |-> checkpoint.gstep, segment |-> checkpoint.segment,
               stepsDone |-> checkpoint.stepsDone]

Walk == INSTANCE TrackingRun WITH status <- status, saved <- saved

\* No completed step is repeated under another segment, skipped, or counted
\* twice, across segment ends, checkpoints, crashes and restarts.
WalksTheSchedule == Walk!Spec

\* With finitely many crashes every job ends.
Termination == <>(phase \in {"finished", "refused"})
=============================================================================
