------------------------ MODULE TrackerOutput_proofs ------------------------
(* The files of a run of ParallelTracker, for every schedule, set of loaded    *)
(* beams, checkpoint and dump frequency, and for every way in which a job can  *)
(* be killed: a restart leaves in them what an uninterrupted run would have.  *)
EXTENDS TrackerOutput, ParallelTracker_proofs, WellFoundedInduction

USE ScheduleAssumption, TrackerAssumption, OutputAssumption

-----------------------------------------------------------------------------
(* Conditions on the input.                                                 *)

\* All beams are loaded before tracking starts, which is what a restart accepts.
LoadedBeams == Emits = {} /\ Decaying = {}

\* All beams have one velocity and reach the stop of a segment together.
OneSpeed == \A c, d \in Loaded : Speed[c] > 0 /\ Speed[c] = Speed[d]

\* A job that leaves the lattice before the last segment ends its run there. If the
\* next segment had the same DT, a restart from the checkpoint of that step would go
\* on with it.
LeavesForGood ==
    (phase = "step" /\ globalEOL /\ segment + 1 \in Segments) =>
        SegmentDt[segment + 1] # SegmentDt[segment]

-----------------------------------------------------------------------------
(* Invariants.                                                              *)

\* A restart goes on from the checkpoint, so what is in the files matters.
Resumable ==
    /\ checkpoint # NoCheckpoint
    /\ acceptsRestart(checkpoint) /\ ~reachedEnd(checkpoint.segment)

\* Only loaded beams exist, and no particle comes back but by a restart.
BeamsInv ==
    /\ nonEmpty \cup active \cup atSStop \subseteq Loaded
    /\ checkpoint # NoCheckpoint =>
         checkpoint.nonEmpty \cup checkpoint.atSStop \subseteq Loaded
    /\ (Tracking /\ checkpoint # NoCheckpoint) =>
         /\ nonEmpty \subseteq checkpoint.nonEmpty
         /\ checkpoint.gstep = gstep => /\ nonEmpty = checkpoint.nonEmpty
                                        /\ sPos = checkpoint.sPos

\* The flags of the segment the job is in.
FlagsInUse == phase = "step" \/ (phase = "segment" /\ resuming /\ stepsDone > 0)

AtOnePlace(populated, s) == \A c, d \in populated : s[c] = s[d]

\* Beams of one velocity stay together and stop together.
TogetherInv ==
    /\ Tracking => AtOnePlace(nonEmpty \cup active, sPos)
    /\ FlagsInUse => active = {} \/ atSStop = {}
    /\ checkpoint # NoCheckpoint =>
         /\ AtOnePlace(checkpoint.nonEmpty, checkpoint.sPos)
         /\ checkpoint.stepsDone > 0 => checkpoint.atSStop = {}

\* Without losses no container is pushed that holds no particles.
PopulatedInv ==
    /\ Tracking => active \subseteq nonEmpty
    /\ (checkpoint # NoCheckpoint /\ checkpoint.stepsDone > 0) =>
         resumedActive(checkpoint) # {}

\* A job at the step of its checkpoint has integration steps to do before it can end,
\* or it has just written it at the end of a segment.
GoesOnInv ==
    (Tracking /\ Resumable /\ checkpoint.gstep = gstep /\ nonEmpty # {}) =>
        \/ /\ segment = checkpoint.segment /\ stepsDone = checkpoint.stepsDone
           /\ FlagsInUse => active # {}
        \/ /\ phase = "step"
           /\ checkpoint.segment = segment + 1 /\ checkpoint.stepsDone = 0
           /\ checkpoint.dt = SegmentDt[segment]

Records == [step : Nat, time : Int, s : Int]

\* The phase-space records of a container while the job is tracking.
H5Follows(c) ==
    /\ PsDumpFreq = 0 => h5[c] = <<>>
    /\ \A i \in DOMAIN h5[c] : h5[c][i].step = i * PsDumpFreq /\ h5[c][i].time <= time
    /\ Len(h5[c]) * PsDumpFreq <= gstep
    /\ (PsDumpFreq > 0 /\ c \in nonEmpty) => gstep < (Len(h5[c]) + 1) * PsDumpFreq

\* A cut at the time of the checkpoint leaves the n records of the steps before it.
H5CutLeaves(c, n) ==
    /\ n \in 0 .. Len(h5[c])
    /\ PsDumpFreq = 0 => h5[c] = <<>>
    /\ \A i \in 1 .. n : /\ h5[c][i].step = i * PsDumpFreq
                         /\ h5[c][i].time <= checkpoint.time
    /\ n < Len(h5[c]) => h5[c][n + 1].time > checkpoint.time
    /\ n * PsDumpFreq <= checkpoint.gstep
    /\ (PsDumpFreq > 0 /\ c \in checkpoint.nonEmpty) => checkpoint.gstep < (n + 1) * PsDumpFreq

PhaseSpaceInv ==
    \A c \in Loaded :
        /\ Tracking => h5[c] \in Seq(Records) /\ H5Follows(c)
        /\ (phase \in {"segment", "step", "interrupted"} /\ Resumable) =>
             h5[c] \in Seq(Records) /\ \E n \in Nat : H5CutLeaves(c, n)

\* Time and path do not run backwards, and a populated beam moves in every step.
PathInv ==
    /\ Tracking => time >= 0
    /\ checkpoint # NoCheckpoint => checkpoint.time >= 0
    /\ (Tracking /\ checkpoint # NoCheckpoint) =>
         \A c \in checkpoint.nonEmpty :
            checkpoint.gstep < gstep => checkpoint.sPos[c] < sPos[c]

\* The first n rows of a statistics file have the steps, times and path lengths
\* of different steps up to the given one.
InOrder(rows, n, g, t, s) ==
    /\ StatDumpFreq = 0 => rows = <<>>
    /\ \A i \in 1 .. n :
         /\ rows[i].step \in 1 .. g /\ rows[i].step % StatDumpFreq = 0
         /\ rows[i].time <= t /\ rows[i].s <= s
         /\ i > 1 => rows[i].step > rows[i - 1].step /\ rows[i].time > rows[i - 1].time

StatCutLeaves(c, n) ==
    /\ n \in 0 .. Len(stat[c])
    /\ InOrder(stat[c], n, checkpoint.gstep, checkpoint.time, checkpoint.sPos[c])
    /\ n < Len(stat[c]) => stat[c][n + 1].s > checkpoint.sPos[c]

\* The containers that hold particles, or will after a restart.
Populated == IF checkpoint = NoCheckpoint THEN nonEmpty ELSE checkpoint.nonEmpty

StatisticsInv ==
    \A c \in Populated :
        /\ Tracking => /\ stat[c] \in Seq(Records)
                       /\ InOrder(stat[c], Len(stat[c]), gstep, time, sPos[c])
        /\ (phase \in {"segment", "step", "interrupted"} /\ Resumable) =>
             stat[c] \in Seq(Records) /\ \E n \in Nat : StatCutLeaves(c, n)

-----------------------------------------------------------------------------
(* The time loop within OutSpec.                                            *)

\* What the loop itself keeps to.
LoopInv == TypeInv /\ ActivityInv /\ ClockInv

\* A step is one of the loop, or it is killed before its checkpoint, or a kill while
\* the files are cut back.
LEMMA OutStep ==
    ASSUME [OutNext]_<<vars, files>>
    PROVE  [Next]_vars \/ KilledInStep \/ KilledInRewind
<1>1. KilledInFinalDump => Crash
  BY DEF KilledInFinalDump, Crash
<1> QED BY <1>1 DEF OutNext, StartRun, RestartRun, RefusedRun, EnterSegment, DumpingStep,
          NextSegment, FinishRun, KilledBetweenSteps, KilledInPhaseSpaceRewind,
          KilledInStatisticsRewind, Next, Run

\* A killed job has well-typed variables; of its flags and its clock nothing is used.
LEMMA NextLoop ==
    ASSUME LoopInv, [OutNext]_<<vars, files>>
    PROVE  LoopInv'
<1>1. CASE [Next]_vars
  BY <1>1, NextType, NextActivity, NextClock DEF LoopInv
<1>2. CASE KilledInStep
  <2>1. /\ phase' = "interrupted" /\ crashes' = crashes + 1 /\ crashes < MaxCrashes
        /\ checkpoint' = checkpoint /\ IntegrationStep
    BY <1>2 DEF KilledInStep
  <2>2. TypeOK'
    BY <2>1, IntegrationEffect DEF LoopInv, TypeInv, TypeOK
  <2> QED BY <2>1, <2>2 DEF LoopInv, TypeInv, ActivityInv, ClockInv, Tracking
<1>3. CASE KilledInRewind
  BY <1>3 DEF KilledInRewind, LoopInv, TypeInv, TypeOK, ActivityInv, ClockInv, Tracking,
              position, clock, bunch
<1> QED BY <1>1, <1>2, <1>3, OutStep

\* The loop keeps its invariants whatever happens to the files.
LEMMA LoopInvariant == OutSpec => []LoopInv
<1>1. OutInit => LoopInv
  BY InitType DEF OutInit, Init, LoopInv, TypeInv, ActivityInv, ClockInv
<1> QED BY <1>1, NextLoop, PTL DEF OutSpec

\* One pass through the inner loop with loaded beams: what moves are the containers
\* switched on, and containers are only emptied.
LEMMA LoadedStep ==
    ASSUME LoadedBeams, LoopInv, BeamsInv, IntegrationStep
    PROVE  /\ nonEmpty' \subseteq nonEmpty
           /\ ~ApertureLosses => nonEmpty' = nonEmpty
           /\ sPos' = updateReference(time', dt', active)
           /\ active' = active \ stopsAfter(active, sPos', dt')
           /\ atSStop' = atSStop \cup stopsAfter(active, sPos', dt')
           /\ dt' = SegmentDt[segment]
<1>1. PICK emitted \in SUBSET (Emitting(time, spent) \ atSStop), decayed \in SUBSET Decaying,
           lost \in SUBSET Containers :
        \E exhausted \in SUBSET decayed : Push(emitted, decayed, exhausted, lost)
  BY DEF IntegrationStep
<1>2. PICK exhausted \in SUBSET decayed : Push(emitted, decayed, exhausted, lost)
  BY <1>1
<1>3. emitted = {} /\ decayed = {} /\ exhausted = {}
  BY DEF LoadedBeams, Emits, Emitting
<1>4. nonEmpty \subseteq active \cup atSStop
  BY DEF LoopInv, ActivityInv, Partition, IntegrationStep
<1>5. refreshed(active, nonEmpty) = active
  BY <1>4 DEF refreshed
<1>6. nonEmpty \cup {} = nonEmpty
  OBVIOUS
<1>7. /\ lost \subseteq IF ApertureLosses THEN active ELSE {}
      /\ nonEmpty' = ((nonEmpty \cup {Daughter[p] : p \in {}}) \ {}) \ lost
      /\ sPos' = updateReference(time', dt', active)
      /\ active' = active \ stopsAfter(active, sPos', dt')
      /\ atSStop' = atSStop \cup stopsAfter(active, sPos', dt')
  BY <1>2, <1>3, <1>5, <1>6 DEF Push, refreshedAfterDecay
<1>8. EmissionSteps(spent') = {}
  BY DEF LoadedBeams, Emits, EmissionSteps
<1>9. dt' = SegmentDt[segment]
  BY <1>8 DEF IntegrationStep, selectsDT
<1> QED BY <1>7, <1>9

\* The length of time for which a reference particle advances, as updateReference
\* has it.
AdvanceTime(t, d) == IF t <= 0 THEN 0 ELSE IF t < d THEN t ELSE d

LEMMA AdvanceNat ==
    \A t \in Int, d \in Nat \ {0} :
        AdvanceTime(t, d) \in Nat /\ (t > 0 => AdvanceTime(t, d) > 0)
BY DEF AdvanceTime

LEMMA LaterTime == \A t \in Int, d \in Nat \ {0} : t + d \in Int /\ t < t + d
OBVIOUS

LEMMA StillLater == \A s, t, u \in Int : s <= t /\ t < u => s < u
OBVIOUS

\* What every pass through the inner loop does.
LEMMA StepTypes ==
    ASSUME LoopInv, IntegrationStep
    PROVE  /\ phase = "step" /\ segment' = segment /\ stepsDone' = stepsDone + 1
           /\ gstep \in Nat /\ gstep' = gstep + 1
           /\ time \in Int /\ dt' \in Nat \ {0} /\ time' = time + dt' /\ time' \in Int
           /\ sPos \in [Containers -> Int] /\ sPos' \in [Containers -> Int]
           /\ active # {} /\ stepsDone < getNumSteps(segment)
<1>1. TypeOK
  BY DEF LoopInv, TypeInv
<1>2. gstep \in Nat /\ time \in Int /\ sPos \in [Containers -> Int]
  BY <1>1 DEF TypeOK
<1> QED BY <1>1, <1>2, IntegrationEffect, TimeStepsPositive

\* The path of a loaded beam in a step: it moves if it is switched on.
LEMMA LoadedPath ==
    ASSUME LoadedBeams, LoopInv, BeamsInv, IntegrationStep, NEW c \in Loaded
    PROVE  /\ AdvanceTime(time', dt') \in Nat
           /\ time' > 0 => AdvanceTime(time', dt') > 0
           /\ c \in active => sPos'[c] = sPos[c] + AdvanceTime(time', dt') * Speed[c]
           /\ c \notin active => sPos'[c] = sPos[c]
<1> DEFINE advance == AdvanceTime(time', dt')
<1>1. time' \in Int /\ dt' \in Nat \ {0} /\ sPos \in [Containers -> Int]
  BY StepTypes
<1>2. advance \in Nat /\ (time' > 0 => advance > 0)
  BY <1>1, AdvanceNat
<1>3. c \in Containers /\ Root[c] = c /\ \A b \in active : Root[b] = b
  BY DEF BeamsInv
<1>4. referenceMoves(c, active) <=> c \in active
  BY <1>3 DEF referenceMoves
<1>5. sPos' = updateReference(time', dt', active)
  BY LoadedStep
<1>6. sPos'[c] = sPos[c] + (IF c \in active THEN advance * Speed[c] ELSE 0)
  BY <1>1, <1>3, <1>4, <1>5 DEF updateReference, AdvanceTime
<1>7. sPos[c] + 0 = sPos[c]
  BY <1>1, <1>3
<1> QED BY <1>2, <1>6, <1>7

\* No beam moves backwards.
LEMMA PathForward ==
    ASSUME LoadedBeams, LoopInv, BeamsInv, IntegrationStep, NEW c \in Loaded
    PROVE  sPos[c] \in Int /\ sPos'[c] \in Int /\ sPos[c] <= sPos'[c]
<1> DEFINE advance == AdvanceTime(time', dt')
<1>1. c \in Containers /\ sPos[c] \in Int /\ sPos'[c] \in Int /\ Speed[c] \in Nat
  BY StepTypes
<1>2. /\ advance \in Nat
      /\ c \in active => sPos'[c] = sPos[c] + advance * Speed[c]
      /\ c \notin active => sPos'[c] = sPos[c]
  BY LoadedPath
<1>3. \A a, b \in Nat : a * b \in Nat
  OBVIOUS
<1>4. advance * Speed[c] \in Nat
  <2> HIDE DEF advance
  <2> QED BY <1>1, <1>2, <1>3
<1> HIDE DEF advance
<1> QED BY <1>1, <1>2, <1>4

\* The fields of a checkpoint.
LEMMA CheckpointType ==
    ASSUME LoopInv, checkpoint # NoCheckpoint
    PROVE  /\ checkpoint.gstep \in Nat /\ checkpoint.time \in Int
           /\ checkpoint.segment \in Indices /\ checkpoint.stepsDone \in Nat
           /\ checkpoint.nonEmpty \subseteq Containers
           /\ checkpoint.sPos \in [Containers -> Int]
BY DEF LoopInv, TypeInv, TypeOK, Snapshots

\* What a step that writes a checkpoint writes of the beams.
LEMMA SavedBeams ==
    ASSUME LoopInv, TimeStep
    PROVE  \/ checkpoint' = checkpoint
           \/ /\ checkpoint' # NoCheckpoint
              /\ checkpoint'.gstep = gstep' /\ checkpoint'.time = time' /\ checkpoint'.dt = dt'
              /\ checkpoint'.nonEmpty = nonEmpty' /\ checkpoint'.atSStop = atSStop'
              /\ checkpoint'.sPos = sPos'
              /\ \/ /\ active' # {} /\ stepsDone' # getNumSteps(segment)
                    /\ checkpoint'.segment = segment /\ checkpoint'.stepsDone = stepsDone'
                 \/ checkpoint'.segment = segment + 1 /\ checkpoint'.stepsDone = 0
<1>1. gstep' # -1
  BY StepTypes DEF TimeStep
<1>2. checkpoint' = NoCheckpoint => checkpoint'.gstep = -1
  BY DEF NoCheckpoint
<1> QED BY <1>1, <1>2, WriteCheckpointEffect DEF LoopInv, TypeInv, snapshot

\* The time at a checkpoint is before that of the steps after it.
LEMMA StepAfterCheckpoint ==
    ASSUME LoopInv, IntegrationStep
    PROVE  /\ gstep \in Nat /\ gstep' = gstep + 1
           /\ time \in Int /\ time' \in Int /\ time < time'
           /\ checkpoint # NoCheckpoint => /\ checkpoint.gstep < gstep'
                                           /\ checkpoint.time < time'
<1>1. /\ phase = "step" /\ gstep' = gstep + 1 /\ gstep \in Nat
      /\ time \in Int /\ time' \in Int /\ time' = time + dt' /\ dt' \in Nat \ {0}
  BY StepTypes
<1>2. time < time'
  BY <1>1, LaterTime, Zenon
<1>3. checkpoint # NoCheckpoint =>
        /\ checkpoint.gstep <= gstep /\ checkpoint.time <= time
        /\ checkpoint.gstep \in Nat /\ checkpoint.time \in Int
  BY <1>1, CheckpointType DEF LoopInv, ClockInv, Tracking
<1>4. checkpoint # NoCheckpoint => checkpoint.time < time'
  BY <1>1, <1>2, <1>3, StillLater, Zenon
<1>5. checkpoint # NoCheckpoint => checkpoint.gstep < gstep'
  BY <1>1, <1>3
<1> QED BY <1>1, <1>2, <1>4, <1>5

-----------------------------------------------------------------------------
(* The beams.                                                               *)

\* With loaded beams nothing is emitted, and the flags at the start of a segment are
\* those of the checkpoint or new ones.
LEMMA LoadedSegment ==
    ASSUME LoadedBeams, BeginSegment
    PROVE  /\ phase = "segment" /\ phase' = "step" /\ ~resuming'
           /\ ~reachedEnd(segment)
           /\ UNCHANGED <<segment, stepsDone, gstep, time, nonEmpty, sPos, checkpoint>>
           /\ FlagsInUse => UNCHANGED <<active, atSStop>>
           /\ ~FlagsInUse => active' = nonEmpty /\ atSStop' = {}
<1>1. Emitting(time, spent) = {}
  BY DEF LoadedBeams, Emits, Emitting
<1> QED BY <1>1 DEF BeginSegment, resetPcActive, FlagsInUse

\* What a fresh start and a restart set.
LEMMA LoadedStart ==
    ASSUME LoadedBeams
    PROVE  /\ FreshStart =>
                /\ phase' = "segment" /\ checkpoint = NoCheckpoint /\ checkpoint' = checkpoint
                /\ stepsDone' = 0 /\ gstep' = 0 /\ time' = StartTime
                /\ nonEmpty' = Loaded /\ active' = Loaded /\ atSStop' = {}
                /\ sPos' = [c \in Containers |-> StartPos]
           /\ Restart =>
                /\ phase = "interrupted" /\ phase' \in {"segment", "finished"}
                /\ phase' = "segment" => ~reachedEnd(checkpoint.segment)
                /\ checkpoint # NoCheckpoint /\ checkpoint' = checkpoint
                /\ acceptsRestart(checkpoint)
                /\ segment' = checkpoint.segment /\ stepsDone' = checkpoint.stepsDone
                /\ gstep' = checkpoint.gstep /\ time' = checkpoint.time
                /\ nonEmpty' = checkpoint.nonEmpty /\ sPos' = checkpoint.sPos
                /\ active' = resumedActive(checkpoint)
                /\ atSStop' = resumedAtSStop(checkpoint)
<1>1. Emitting(StartTime, {}) = {}
  BY DEF LoadedBeams, Emits, Emitting
<1> QED BY <1>1 DEF FreshStart, Restart

\* The other steps of the loop leave clock, beams and checkpoint alone, and stop
\* tracking or go on to the next segment.
QuietStep ==
    /\ UNCHANGED <<resuming, gstep, time, nonEmpty, active, atSStop, sPos, checkpoint>>
    /\ \/ UNCHANGED <<phase, segment, stepsDone, globalEOL>>
       \/ phase' \in {"interrupted", "finished", "refused"} /\ UNCHANGED <<segment, stepsDone>>
       \/ /\ phase = "step" /\ innerLoopDone /\ ~globalEOL
          /\ phase' = "segment" /\ segment' = segment + 1 /\ stepsDone' = 0

\* The steps of the loop and its files.
LEMMA StepKinds ==
    ASSUME [OutNext]_<<vars, files>>
    PROVE  \/ FreshStart \/ Restart \/ BeginSegment \/ TimeStep
           \/ KilledInStep \/ QuietStep
<1>1. RefuseRestart => QuietStep
  BY DEF RefuseRestart, QuietStep, position, clock, bunch
<1>2. LeaveSegment => QuietStep
  BY DEF LeaveSegment, QuietStep, clock, bunch
<1>3. EndOfSchedule => QuietStep
  BY DEF EndOfSchedule, QuietStep, position, clock, bunch
<1>4. Crash => QuietStep
  BY DEF Crash, QuietStep, position, clock, bunch
<1>5. KilledInRewind => QuietStep
  BY DEF KilledInRewind, QuietStep, position, clock, bunch
<1>6. UNCHANGED vars => QuietStep
  BY DEF vars, QuietStep, position, clock, bunch
<1> QED BY <1>1, <1>2, <1>3, <1>4, <1>5, <1>6, OutStep DEF Next, Run

\* The job is killed in a step before its checkpoint is written.
LEMMA KilledStep ==
    ASSUME KilledInStep
    PROVE  /\ IntegrationStep /\ phase' = "interrupted" /\ checkpoint' = checkpoint
           /\ ~Tracking' /\ ~FlagsInUse'
BY DEF KilledInStep, Tracking, FlagsInUse

\* Beams are only emptied, and only a restart fills them again.
LEMMA NextBeams ==
    ASSUME LoadedBeams, LoopInv, BeamsInv, [OutNext]_<<vars, files>>
    PROVE  BeamsInv'
<1>1. CASE FreshStart
  BY <1>1, LoadedStart DEF BeamsInv
<1>2. CASE Restart
  BY <1>2, LoadedStart DEF BeamsInv, resumedActive, resumedAtSStop
<1>3. CASE BeginSegment
  BY <1>3, LoadedSegment DEF BeamsInv, Tracking
<1>4. ASSUME IntegrationStep
      PROVE  /\ nonEmpty' \cup active' \cup atSStop' \subseteq Loaded
             /\ nonEmpty' \subseteq nonEmpty
  <2>1. stopsAfter(active, sPos', dt') \subseteq active
    BY DEF stopsAfter
  <2> QED BY <1>4, <2>1, LoadedStep DEF BeamsInv
<1>5. CASE TimeStep
  <2>1. IntegrationStep /\ phase = "step"
    BY <1>5 DEF TimeStep, IntegrationStep
  <2>2. CASE checkpoint' = checkpoint
    <3>1. checkpoint # NoCheckpoint => checkpoint.gstep # gstep'
      BY <2>1, StepAfterCheckpoint, CheckpointType
    <3> QED BY <1>4, <2>1, <2>2, <3>1 DEF BeamsInv, Tracking
  <2>3. CASE checkpoint' # checkpoint
    <3>1. /\ checkpoint'.gstep = gstep' /\ checkpoint'.nonEmpty = nonEmpty'
          /\ checkpoint'.atSStop = atSStop' /\ checkpoint'.sPos = sPos'
      BY <1>5, <2>3, SavedBeams
    <3> QED BY <1>4, <2>1, <3>1 DEF BeamsInv
  <2> QED BY <2>2, <2>3
<1>6. CASE KilledInStep
  BY <1>4, <1>6, KilledStep DEF BeamsInv
<1>7. CASE QuietStep
  BY <1>7 DEF QuietStep, BeamsInv, Tracking
<1> QED BY <1>1, <1>2, <1>3, <1>5, <1>6, <1>7, StepKinds

\* The invariants of the loop with loaded beams.
LEMMA BeamsInvariant ==
    ASSUME LoadedBeams
    PROVE  OutSpec => [](LoopInv /\ BeamsInv)
<1>1. OutInit => BeamsInv
  BY DEF OutInit, Init, BeamsInv
<1>2. LoopInv /\ BeamsInv /\ [OutNext]_<<vars, files>> => BeamsInv'
  BY NextBeams
<1> QED BY <1>1, <1>2, LoopInvariant, PTL DEF OutSpec

\* Beams of one velocity that are at one place move and stop together.
LEMMA TogetherStep ==
    ASSUME LoadedBeams, OneSpeed, LoopInv, BeamsInv, TogetherInv, IntegrationStep
    PROVE  /\ nonEmpty \subseteq active
           /\ AtOnePlace(nonEmpty' \cup active', sPos')
           /\ active' = {} \/ atSStop' = {}
<1> DEFINE advance == AdvanceTime(time', dt')
<1>1. /\ active # {} /\ phase = "step" /\ Partition(nonEmpty, active, atSStop)
      /\ sPos \in [Containers -> Int]
  BY StepTypes DEF LoopInv, ActivityInv
<1>2. atSStop = {} /\ AtOnePlace(active, sPos)
  BY <1>1 DEF TogetherInv, FlagsInUse, Tracking, AtOnePlace
<1>3. nonEmpty \subseteq active /\ active \subseteq Loaded
  BY <1>1, <1>2 DEF Partition, BeamsInv
<1>4. ASSUME NEW c \in active, NEW d \in active
      PROVE  sPos'[c] = sPos'[d] /\ drift(c, dt') = drift(d, dt')
  <2>1. sPos[c] = sPos[d] /\ c \in Loaded /\ d \in Loaded /\ Speed[c] = Speed[d]
    BY <1>2, <1>3 DEF AtOnePlace, OneSpeed
  <2>2. /\ sPos'[c] = sPos[c] + advance * Speed[c]
        /\ sPos'[d] = sPos[d] + advance * Speed[d]
    BY <2>1, LoadedPath
  <2>3. Root[c] = c /\ Root[d] = d
    BY <2>1
  <2> HIDE DEF advance
  <2> QED BY <2>1, <2>2, <2>3 DEF drift
<1>5. ASSUME NEW c \in active, NEW d \in active, reachesSStop(c, sPos'[c], dt')
      PROVE  reachesSStop(d, sPos'[d], dt')
  BY <1>4, <1>5 DEF reachesSStop
<1>6. stopsAfter(active, sPos', dt') \in {{}, active}
  BY <1>5 DEF stopsAfter
<1>7. /\ nonEmpty' \subseteq nonEmpty
      /\ active' = active \ stopsAfter(active, sPos', dt')
      /\ atSStop' = atSStop \cup stopsAfter(active, sPos', dt')
  BY LoadedStep
<1>8. nonEmpty' \cup active' \subseteq active
  BY <1>3, <1>7
<1>9. AtOnePlace(nonEmpty' \cup active', sPos')
  BY <1>4, <1>8 DEF AtOnePlace
<1> QED BY <1>2, <1>3, <1>6, <1>7, <1>9

\* Beams of one velocity stay together.
LEMMA NextTogether ==
    ASSUME LoadedBeams, OneSpeed, LoopInv, BeamsInv, TogetherInv, [OutNext]_<<vars, files>>
    PROVE  TogetherInv'
<1>1. CASE FreshStart
  <2>1. /\ phase' = "segment" /\ checkpoint' = NoCheckpoint /\ stepsDone' = 0
        /\ nonEmpty' \cup active' = Loaded /\ sPos' = [c \in Containers |-> StartPos]
    BY <1>1, LoadedStart
  <2>2. AtOnePlace(nonEmpty' \cup active', sPos')
    BY <2>1 DEF AtOnePlace
  <2> QED BY <2>1, <2>2 DEF TogetherInv, FlagsInUse
<1>2. CASE Restart
  <2>1. /\ phase' \in {"segment", "finished"} /\ checkpoint' = checkpoint
        /\ checkpoint # NoCheckpoint /\ stepsDone' = checkpoint.stepsDone
        /\ nonEmpty' = checkpoint.nonEmpty /\ sPos' = checkpoint.sPos
        /\ active' \subseteq nonEmpty' /\ atSStop' = resumedAtSStop(checkpoint)
    BY <1>2, LoadedStart DEF resumedActive
  <2>2. nonEmpty' \cup active' = checkpoint.nonEmpty
    BY <2>1
  <2>3. FlagsInUse' => atSStop' = {}
    BY <2>1 DEF TogetherInv, FlagsInUse, resumedAtSStop
  <2> QED BY <2>1, <2>2, <2>3 DEF TogetherInv, AtOnePlace
<1>3. CASE BeginSegment
  <2>1. /\ phase = "segment" /\ phase' = "step" /\ Tracking
        /\ nonEmpty' = nonEmpty /\ sPos' = sPos /\ checkpoint' = checkpoint
    BY <1>3, LoadedSegment DEF Tracking
  <2>2. CASE FlagsInUse
    BY <1>3, <2>1, <2>2, LoadedSegment DEF TogetherInv, AtOnePlace
  <2>3. CASE ~FlagsInUse
    BY <1>3, <2>1, <2>3, LoadedSegment DEF TogetherInv, AtOnePlace
  <2> QED BY <2>2, <2>3
<1>4. CASE TimeStep
  <2>1. /\ AtOnePlace(nonEmpty' \cup active', sPos')
        /\ active' = {} \/ atSStop' = {}
    BY <1>4, TogetherStep DEF TimeStep
  <2>2. CASE checkpoint' = checkpoint
    BY <2>1, <2>2 DEF TogetherInv
  <2>3. CASE checkpoint' # checkpoint
    <3>1. /\ checkpoint'.nonEmpty = nonEmpty' /\ checkpoint'.sPos = sPos'
          /\ checkpoint'.atSStop = atSStop'
          /\ active' # {} \/ checkpoint'.stepsDone = 0
      BY <1>4, <2>3, SavedBeams
    <3> QED BY <2>1, <3>1 DEF TogetherInv, AtOnePlace
  <2> QED BY <2>2, <2>3
<1>5. CASE KilledInStep
  BY <1>5, KilledStep DEF TogetherInv
<1>6. CASE QuietStep
  BY <1>6 DEF QuietStep, TogetherInv, Tracking, FlagsInUse
<1> QED BY <1>1, <1>2, <1>3, <1>4, <1>5, <1>6, StepKinds

\* Without losses a container that is pushed holds particles, also after a restart.
LEMMA NextPopulated ==
    ASSUME LoadedBeams, ~ApertureLosses, LoopInv, BeamsInv, PopulatedInv,
           [OutNext]_<<vars, files>>
    PROVE  PopulatedInv'
<1>1. CASE FreshStart
  BY <1>1, LoadedStart DEF PopulatedInv
<1>2. CASE Restart
  BY <1>2, LoadedStart DEF PopulatedInv, resumedActive
<1>3. CASE BeginSegment
  BY <1>3, LoadedSegment DEF PopulatedInv, Tracking
<1>4. CASE TimeStep
  <2>1. phase = "step" /\ phase' = "step" /\ IntegrationStep
    BY <1>4 DEF TimeStep, IntegrationStep
  <2>2. active' \subseteq nonEmpty'
    BY <2>1, LoadedStep DEF PopulatedInv, Tracking
  <2>3. Partition(nonEmpty', active', atSStop')
    <3>1. [Next]_vars
      BY <1>4 DEF Next, Run
    <3> QED BY <2>1, <3>1, NextActivity DEF LoopInv, ActivityInv
  <2>4. CASE checkpoint' = checkpoint
    BY <2>2, <2>4 DEF PopulatedInv
  <2>5. CASE checkpoint' # checkpoint
    <3>1. /\ checkpoint'.nonEmpty = nonEmpty' /\ checkpoint'.atSStop = atSStop'
          /\ active' # {} \/ checkpoint'.stepsDone = 0
      BY <1>4, <2>5, SavedBeams
    <3>2. checkpoint'.stepsDone > 0 => resumedActive(checkpoint') # {}
      BY <2>2, <2>3, <3>1 DEF Partition, resumedActive, resumedAtSStop
    <3> QED BY <2>2, <3>2 DEF PopulatedInv, resumedActive, resumedAtSStop
  <2> QED BY <2>4, <2>5
<1>5. CASE KilledInStep
  BY <1>5, KilledStep DEF PopulatedInv, resumedActive, resumedAtSStop
<1>6. CASE QuietStep
  BY <1>6 DEF QuietStep, PopulatedInv, Tracking, resumedActive, resumedAtSStop
<1> QED BY <1>1, <1>2, <1>3, <1>4, <1>5, <1>6, StepKinds

\* A restart into the middle of a segment pushes something unless all is lost.
ResumesMoving ==
    (checkpoint # NoCheckpoint /\ checkpoint.stepsDone > 0 /\ checkpoint.nonEmpty # {}) =>
        resumedActive(checkpoint) # {}

\* This is so with one velocity, and without losses.
LEMMA MovesAgain ==
    ASSUME TogetherInv \/ PopulatedInv
    PROVE  ResumesMoving
<1>1. TogetherInv => ResumesMoving
  BY DEF TogetherInv, ResumesMoving, resumedActive, resumedAtSStop
<1>2. PopulatedInv => ResumesMoving
  BY DEF PopulatedInv, ResumesMoving
<1> QED BY <1>1, <1>2

\* A job at the step of its checkpoint has steps to do in its segment.
LEMMA NextGoesOn ==
    ASSUME LoadedBeams, LoopInv, BeamsInv, ResumesMoving, GoesOnInv, [OutNext]_<<vars, files>>
    PROVE  GoesOnInv'
<1>1. CASE FreshStart
  BY <1>1, LoadedStart DEF GoesOnInv, Resumable
<1>2. CASE Restart
  <2>1. /\ checkpoint' = checkpoint /\ checkpoint # NoCheckpoint
        /\ segment' = checkpoint.segment /\ stepsDone' = checkpoint.stepsDone
        /\ nonEmpty' = checkpoint.nonEmpty /\ active' = resumedActive(checkpoint)
        /\ phase' \in {"segment", "finished"}
    BY <1>2, LoadedStart
  <2>2. nonEmpty' # {} /\ FlagsInUse' => active' # {}
    BY <2>1 DEF ResumesMoving, FlagsInUse
  <2> QED BY <2>1, <2>2 DEF GoesOnInv
<1>3. CASE BeginSegment
  BY <1>3, LoadedSegment DEF GoesOnInv, Tracking, Resumable, FlagsInUse
<1>4. CASE TimeStep
  <2>1. phase = "step" /\ phase' = "step" /\ IntegrationStep /\ segment' = segment
    BY <1>4 DEF TimeStep, IntegrationStep
  <2>2. CASE checkpoint' = checkpoint
    <3>1. checkpoint # NoCheckpoint => checkpoint.gstep # gstep'
      BY <2>1, StepAfterCheckpoint, CheckpointType
    <3> QED BY <2>2, <3>1 DEF GoesOnInv, Resumable
  <2>3. CASE checkpoint' # checkpoint
    <3>1. checkpoint'.dt = SegmentDt[segment]
      BY <1>4, <2>1, <2>3, SavedBeams, LoadedStep
    <3>2. \/ /\ active' # {}
             /\ checkpoint'.segment = segment' /\ checkpoint'.stepsDone = stepsDone'
          \/ checkpoint'.segment = segment' + 1 /\ checkpoint'.stepsDone = 0
      BY <1>4, <2>1, <2>3, SavedBeams
    <3> QED BY <2>1, <3>1, <3>2 DEF GoesOnInv
  <2> QED BY <2>2, <2>3
<1>5. CASE KilledInStep
  BY <1>5, KilledStep DEF GoesOnInv
<1>6. CASE QuietStep
  <2>1. SUFFICES ASSUME Tracking', Resumable', checkpoint'.gstep = gstep', nonEmpty' # {}
                 PROVE  GoesOnInv'
    BY DEF GoesOnInv
  <2>2. /\ Tracking /\ Resumable /\ checkpoint.gstep = gstep /\ nonEmpty # {}
        /\ checkpoint' = checkpoint
    BY <1>6, <2>1 DEF QuietStep, Tracking, Resumable
  <2>3. CASE UNCHANGED <<phase, segment, stepsDone>>
    <3>1. /\ UNCHANGED <<phase, segment, stepsDone, active, checkpoint, nonEmpty, gstep>>
          /\ FlagsInUse' = FlagsInUse
      BY <1>6, <2>3 DEF QuietStep, FlagsInUse
    <3> QED BY <2>2, <3>1 DEF GoesOnInv
  <2>4. CASE phase' \in {"interrupted", "finished", "refused"}
    BY <2>1, <2>4 DEF Tracking
  <2>5. CASE /\ phase = "step" /\ innerLoopDone
             /\ phase' = "segment" /\ segment' = segment + 1 /\ stepsDone' = 0
    <3>1. ~FlagsInUse'
      BY <2>5 DEF FlagsInUse
    <3>2. segment = checkpoint.segment /\ stepsDone = checkpoint.stepsDone => active = {}
      <4>1. stepsDone \in Nat /\ getNumSteps(segment) \in Int
        BY <2>5, NumStepsNat DEF LoopInv, TypeInv, TypeOK
      <4>2. checkpoint.stepsDone < getNumSteps(checkpoint.segment)
        BY <2>2 DEF Resumable, acceptsRestart, acceptsResumePosition
      <4> QED BY <2>5, <4>1, <4>2 DEF innerLoopDone
    <3>3. segment' = checkpoint.segment /\ stepsDone' = checkpoint.stepsDone
      BY <2>2, <2>5, <3>2 DEF GoesOnInv, FlagsInUse
    <3> QED BY <2>2, <3>1, <3>3 DEF GoesOnInv
  <2> QED BY <1>6, <2>3, <2>4, <2>5 DEF QuietStep
<1> QED BY <1>1, <1>2, <1>3, <1>4, <1>5, <1>6, StepKinds

\* What a killed final dump has written is therefore cut off again, if the job goes on.
LEMMA FinalDumpIsLater ==
    ASSUME LoopInv, BeamsInv, GoesOnInv, LeavesForGood, Resumable, KilledInFinalDump,
           checkpoint.nonEmpty # {}
    PROVE  checkpoint.gstep < gstep /\ checkpoint.time < time
<1>1. /\ Tracking
      /\ \/ phase = "segment" /\ reachedEnd(segment)
         \/ phase = "step" /\ globalEOL /\ innerLoopDone
  BY DEF KilledInFinalDump, Tracking
<1>2. checkpoint.gstep \in Nat /\ gstep \in Nat /\ checkpoint.gstep <= gstep
  BY <1>1, CheckpointType DEF LoopInv, TypeInv, TypeOK, ClockInv, Resumable
<1>3. ASSUME checkpoint.gstep = gstep PROVE FALSE
  <2>1. nonEmpty # {}
    BY <1>1, <1>3 DEF BeamsInv, Resumable
  <2>2. /\ ~reachedEnd(checkpoint.segment) /\ checkpoint.segment \in Indices
        /\ checkpoint.stepsDone < getNumSteps(checkpoint.segment)
        /\ SegmentDt[checkpoint.segment] = checkpoint.dt
    BY DEF Resumable, acceptsRestart, acceptsResumePosition
  <2>3. CASE segment = checkpoint.segment /\ stepsDone = checkpoint.stepsDone
    <3>1. phase = "step" /\ innerLoopDone
      BY <1>1, <2>2, <2>3
    <3>2. active # {}
      <4>1. segment # segment + 1
        BY DEF LoopInv, TypeInv, TypeOK, Indices
      <4> QED BY <1>1, <1>3, <2>1, <2>3, <3>1, <4>1 DEF GoesOnInv, FlagsInUse
    <3>3. stepsDone \in Nat /\ getNumSteps(segment) \in Int
      BY <3>1, NumStepsNat DEF LoopInv, TypeInv, TypeOK
    <3> QED BY <2>2, <2>3, <3>1, <3>2, <3>3 DEF innerLoopDone
  <2>4. CASE /\ phase = "step" /\ checkpoint.segment = segment + 1
             /\ checkpoint.dt = SegmentDt[segment]
    <3>1. globalEOL
      BY <1>1, <2>4
    <3>2. segment + 1 \in Segments
      BY <2>2, <2>4 DEF Indices, Segments, reachedEnd
    <3> QED BY <2>2, <2>4, <3>1, <3>2 DEF LeavesForGood
  <2> QED BY <1>1, <1>3, <2>1, <2>3, <2>4 DEF GoesOnInv
<1>4. checkpoint.gstep < gstep
  BY <1>2, <1>3
<1> QED BY <1>1, <1>4 DEF LoopInv, ClockInv, Resumable

-----------------------------------------------------------------------------
(* Files.                                                                   *)

\* A cut keeps the values up to the first one beyond the bound.
LEMMA RowsUpTo ==
    ASSUME NEW v \in Seq(Int), NEW b \in Int, NEW n \in 0 .. Len(v),
           \A i \in 1 .. n : v[i] <= b, n < Len(v) => v[n + 1] > b
    PROVE  rowsUpTo(v, b) = n
<1> DEFINE I == {i \in 1 .. Len(v) : v[i] > b}
           first == IF I # {} THEN Min(I) ELSE 0
<1>1. rowsUpTo(v, b) = IF first = 0 THEN Len(v) ELSE first - 1
  BY DEF rowsUpTo, SelectInSeq
<1>2. Len(v) \in Nat /\ \A i \in 1 .. Len(v) : v[i] \in Int
  OBVIOUS
<1>3. \A i \in I : i \in n + 1 .. Len(v)
  BY <1>2
<1>4. CASE n = Len(v)
  BY <1>1, <1>3, <1>4
<1>5. CASE n < Len(v)
  <2>1. n + 1 \in I
    BY <1>5
  <2>2. \A i \in I : n + 1 <= i
    BY <1>3
  <2>3. Min(I) = n + 1
    <3> HIDE DEF I
    <3>1. \A x \in I : (\A y \in I : x <= y) => x = n + 1
      BY <1>3, <2>1, <2>2
    <3> QED BY <2>1, <2>2, <3>1 DEF Min
  <2> QED BY <1>1, <2>1, <2>3
<1> QED BY <1>2, <1>4, <1>5

\* The record of a step.
LEMMA RecordType ==
    ASSUME NEW c \in Containers, NEW g \in Nat, NEW t \in Int, NEW s \in [Containers -> Int]
    PROVE  record(c, g, t, s) \in Records
BY DEF record, Records

\* Multiples of the dump frequency.
LEMMA MultiplesAscend ==
    ASSUME NEW f \in Nat \ {0}, NEW a \in Nat, NEW b \in Nat, a < b
    PROVE  a * f < b * f /\ (a + 1) * f <= b * f /\ a * f \in Nat /\ (a + 1) * f = a * f + f
<1>1. PICK d \in Nat : b = a + 1 + d
  <2>1. b - a - 1 \in Nat /\ b = a + 1 + (b - a - 1)
    OBVIOUS
  <2> QED BY <2>1
<1>2. d * f \in Nat /\ a * f \in Nat
  OBVIOUS
<1>3. b * f = a * f + f + d * f /\ (a + 1) * f = a * f + f
  BY <1>1
<1> QED BY <1>2, <1>3

\* The quotient and the remainder of a number between two multiples.
LEMMA Quotient ==
    ASSUME NEW f \in Nat \ {0}, NEW k \in Nat, NEW g \in Nat, k * f <= g, g < (k + 1) * f
    PROVE  g \div f = k /\ g % f = g - k * f
<1> DEFINE q == g \div f
           r == g % f
<1>1. q \in Nat /\ r \in 0 .. f - 1 /\ g = q * f + r
  OBVIOUS
<1> HIDE DEF q, r
<1>2. ~ (q < k)
  <2> SUFFICES ASSUME q < k PROVE FALSE
    OBVIOUS
  <2>1. (q + 1) * f <= k * f /\ q * f \in Nat /\ (q + 1) * f = q * f + f
    BY <1>1, MultiplesAscend
  <2>2. k * f \in Nat
    OBVIOUS
  <2> QED BY <1>1, <2>1, <2>2
<1>3. ~ (k < q)
  <2> SUFFICES ASSUME k < q PROVE FALSE
    OBVIOUS
  <2>1. (k + 1) * f <= q * f /\ (k + 1) * f \in Nat /\ q * f \in Nat
    BY <1>1, MultiplesAscend
  <2> QED BY <1>1, <2>1
<1>4. q = k
  BY <1>1, <1>2, <1>3
<1>5. k * f \in Nat
  OBVIOUS
<1>6. r = g - k * f
  BY <1>1, <1>4, <1>5
<1> QED BY <1>4, <1>6 DEF q, r

\* How many multiples there are up to a number.
LEMMA MultiplesUpTo ==
    ASSUME NEW f \in Nat \ {0}, NEW k \in Nat, NEW g \in Nat, NEW n, k * f <= g, n = g \div f
    PROVE  n \in Nat /\ k <= n /\ (g < (k + 1) * f => n = k)
<1> DEFINE r == g % f
<1>1. n \in Nat /\ r \in 0 .. f - 1 /\ g = n * f + r
  OBVIOUS
<1> HIDE DEF r
<1>2. n * f \in Nat /\ k * f \in Nat /\ (n + 1) * f = n * f + f
  BY <1>1
<1>3. ~ (n < k)
  <2> SUFFICES ASSUME n < k PROVE FALSE
    OBVIOUS
  <2>1. (n + 1) * f <= k * f
    BY <1>1, MultiplesAscend
  <2> QED BY <1>1, <1>2, <2>1
<1>4. g < (k + 1) * f => n = k
  BY Quotient
<1> QED BY <1>1, <1>3, <1>4

\* A dump is due in the step that reaches the next multiple of the frequency.
LEMMA DumpAtMultiple ==
    ASSUME NEW f \in Nat \ {0}, NEW k \in Nat, NEW g \in Nat,
           k * f <= g, g < (k + 1) * f
    PROVE  /\ dumpDue(f, g) <=> g + 1 = (k + 1) * f
           /\ ~dumpDue(f, g) => g + 1 < (k + 1) * f
<1>1. g % f = g - k * f
  BY Quotient
<1>2. k * f \in Nat /\ (k + 1) * f = k * f + f
  OBVIOUS
<1>3. dumpDue(f, g) <=> g - k * f + 1 = f
  BY <1>1 DEF dumpDue
<1>4. ASSUME NEW m \in Nat, NEW n, n = m + f, g < n
      PROVE  /\ g - m + 1 = f <=> g + 1 = n
             /\ g - m + 1 # f => g + 1 < n
  BY <1>4
<1> QED BY <1>2, <1>3, <1>4

\* What a step or a final dump, killed or not, does to a container's phase-space file.
LEMMA H5Appended ==
    ASSUME NEW c \in Containers, DumpingStep \/ KilledInStep \/ KilledInFinalDump
    PROVE  \/ h5'[c] = h5[c]
           \/ /\ h5'[c] = Append(h5[c], record(c, gstep', time', sPos'))
              /\ PsDumpFreq > 0 /\ c \in nonEmpty'
<1> DEFINE Appended(S) ==
      h5' = [b \in Containers |-> IF b \in S \cap nonEmpty'
                                  THEN Append(h5[b], record(b, gstep', time', sPos')) ELSE h5[b]]
<1>1. \A S, T : AppendRecords(T, S) => Appended(S)
  BY DEF AppendRecords
<1>2. ASSUME NEW due, NEW done, due => PsDumpFreq > 0,
             Appended(containersIf(due) \cap done) \/ Appended(containersIf(due)) \/ Appended({})
      PROVE  \/ h5'[c] = h5[c]
             \/ /\ h5'[c] = Append(h5[c], record(c, gstep', time', sPos'))
                /\ PsDumpFreq > 0 /\ c \in nonEmpty'
  BY <1>2 DEF containersIf
<1>3. /\ dumpDue(PsDumpFreq, gstep) => PsDumpFreq > 0
      /\ finalDumpDue(PsDumpFreq, gstep) => PsDumpFreq > 0
  BY DEF dumpDue, finalDumpDue
<1> HIDE DEF Appended
<1>4. CASE DumpingStep
  BY <1>1, <1>2, <1>3, <1>4 DEF DumpingStep, writePhaseSpace
<1>5. CASE KilledInStep
  <2>1. \E done : \/ Appended(containersIf(dumpDue(PsDumpFreq, gstep)) \cap done)
                  \/ Appended({})
    BY <1>1, <1>5 DEF KilledInStep, writePhaseSpaceKilled
  <2> QED BY <1>2, <1>3, <2>1
<1>6. CASE KilledInFinalDump
  <2>1. \E done : \/ Appended(containersIf(finalDumpDue(PsDumpFreq, gstep)) \cap done)
                  \/ Appended({})
    BY <1>1, <1>6 DEF KilledInFinalDump, writePhaseSpaceKilled
  <2> QED BY <1>2, <1>3, <2>1
<1> QED BY <1>4, <1>5, <1>6

\* A record after the checkpoint does not change what a cut leaves.
LEMMA H5CutAppend ==
    ASSUME NEW c \in Loaded, NEW n \in Nat, h5[c] \in Seq(Records), H5CutLeaves(c, n),
           checkpoint' = checkpoint, NEW r \in Records, checkpoint.time < r.time,
           h5'[c] = h5[c] \/ (h5'[c] = Append(h5[c], r) /\ PsDumpFreq > 0)
    PROVE  h5'[c] \in Seq(Records) /\ H5CutLeaves(c, n)'
<1>1. CASE h5'[c] = h5[c]
  BY <1>1 DEF H5CutLeaves
<1>2. CASE h5'[c] = Append(h5[c], r) /\ PsDumpFreq > 0
  <2>1. /\ h5'[c] \in Seq(Records) /\ Len(h5'[c]) = Len(h5[c]) + 1 /\ Len(h5[c]) \in Nat
        /\ \A i \in 1 .. Len(h5[c]) : h5'[c][i] = h5[c][i]
        /\ h5'[c][Len(h5[c]) + 1] = r
    BY <1>2
  <2>2. n \in 0 .. Len(h5[c])
    BY DEF H5CutLeaves
  <2>3. n < Len(h5'[c]) /\ n \in 0 .. Len(h5'[c]) /\ \A i \in 1 .. n : h5'[c][i] = h5[c][i]
    BY <2>1, <2>2
  <2>4. h5'[c][n + 1].time > checkpoint.time
    <3>1. CASE n = Len(h5[c])
      BY <2>1, <3>1 DEF Records
    <3>2. CASE n < Len(h5[c])
      <4>1. n + 1 \in 1 .. Len(h5[c])
        BY <2>1, <2>2, <3>2
      <4>2. h5'[c][n + 1] = h5[c][n + 1]
        BY <2>1, <4>1
      <4> QED BY <3>2, <4>2 DEF H5CutLeaves
    <3> QED BY <2>1, <2>2, <3>1, <3>2
  <2> QED BY <1>2, <2>1, <2>3, <2>4 DEF H5CutLeaves
<1> QED BY <1>1, <1>2

\* What rewindToTime leaves.
LEMMA H5Rewound ==
    ASSUME NEW c \in Loaded, NEW n \in Nat, h5[c] \in Seq(Records), H5CutLeaves(c, n),
           checkpoint.time \in Int
    PROVE  /\ rewoundH5(c) \in Seq(Records) /\ Len(rewoundH5(c)) = n
           /\ \A i \in 1 .. n : rewoundH5(c)[i] = h5[c][i]
<1> DEFINE v == [i \in DOMAIN h5[c] |-> h5[c][i].time]
<1>1. v \in Seq(Int) /\ Len(v) = Len(h5[c]) /\ \A i \in 1 .. Len(h5[c]) : v[i] = h5[c][i].time
  <2>1. Len(h5[c]) \in Nat /\ DOMAIN h5[c] = 1 .. Len(h5[c])
    OBVIOUS
  <2>2. \A i \in 1 .. Len(h5[c]) : h5[c][i] \in Records
    OBVIOUS
  <2>3. \A i \in 1 .. Len(h5[c]) : h5[c][i].time \in Int
    BY <2>2 DEF Records
  <2>4. v \in [1 .. Len(h5[c]) -> Int]
    BY <2>1, <2>3
  <2> QED BY <2>1, <2>4
<1>2. n \in 0 .. Len(v) /\ \A i \in 1 .. n : v[i] <= checkpoint.time
  BY <1>1 DEF H5CutLeaves
<1>3. n < Len(v) => v[n + 1] > checkpoint.time
  BY <1>1, <1>2 DEF H5CutLeaves
<1>4. rowsUpTo(v, checkpoint.time) = n
  <2> HIDE DEF v
  <2> QED BY <1>1, <1>2, <1>3, RowsUpTo
<1>5. rewoundH5(c) = SubSeq(h5[c], 1, n)
  BY <1>4 DEF rewoundH5, rewindToTime
<1> QED BY <1>1, <1>2, <1>5

\* A file that has been cut back stays as a further cut would leave it.
LEMMA H5CutTwice ==
    ASSUME NEW c \in Loaded, NEW n \in Nat, h5[c] \in Seq(Records), H5CutLeaves(c, n),
           LoopInv, checkpoint # NoCheckpoint, checkpoint' = checkpoint, h5'[c] = rewoundH5(c)
    PROVE  /\ h5'[c] \in Seq(Records) /\ Len(h5'[c]) = n
           /\ \A i \in 1 .. n : h5'[c][i] = h5[c][i]
           /\ H5CutLeaves(c, n)'
<1>1. /\ h5'[c] \in Seq(Records) /\ Len(h5'[c]) = n
      /\ \A i \in 1 .. n : h5'[c][i] = h5[c][i]
  BY CheckpointType, H5Rewound
<1>2. h5[c] = <<>> => n = 0
  BY DEF H5CutLeaves
<1>3. n = 0 => h5'[c] = <<>>
  BY <1>1
<1>4. n \in 0 .. Len(h5'[c]) /\ ~ (n < Len(h5'[c]))
  BY <1>1
<1>5. PsDumpFreq = 0 => h5'[c] = <<>>
  BY <1>2, <1>3 DEF H5CutLeaves
<1>6. /\ n * PsDumpFreq <= checkpoint.gstep
      /\ (PsDumpFreq > 0 /\ c \in checkpoint.nonEmpty) =>
           checkpoint.gstep < (n + 1) * PsDumpFreq
  BY DEF H5CutLeaves
<1>7. \A i \in 1 .. n : /\ h5'[c][i].step = i * PsDumpFreq
                        /\ h5'[c][i].time <= checkpoint.time
  BY <1>1 DEF H5CutLeaves
<1>8. H5CutLeaves(c, n)'
  BY <1>4, <1>5, <1>6, <1>7, Zenon DEF H5CutLeaves
<1> QED BY <1>1, <1>8

\* What a completed step leaves in the phase-space file.
LEMMA H5Dumped ==
    ASSUME LoadedBeams, LoopInv, BeamsInv, DumpingStep, NEW c \in Loaded,
           h5[c] \in Seq(Records), H5Follows(c)
    PROVE  h5'[c] \in Seq(Records) /\ H5Follows(c)'
<1> DEFINE f == PsDumpFreq
           k == Len(h5[c])
           r == record(c, gstep', time', sPos')
<1>1. /\ IntegrationStep /\ gstep \in Nat /\ gstep' = gstep + 1
      /\ time \in Int /\ time' \in Int /\ time < time'
  BY StepAfterCheckpoint DEF DumpingStep, TimeStep
<1>2. h5'[c] = IF dumpDue(f, gstep) /\ c \in nonEmpty' THEN Append(h5[c], r) ELSE h5[c]
  <2>1. c \in Containers
    OBVIOUS
  <2> QED BY <2>1 DEF DumpingStep, writePhaseSpace, AppendRecords, containersIf
<1>3. nonEmpty' \subseteq nonEmpty
  BY <1>1, LoadedStep
<1>4. /\ f \in Nat /\ k \in Nat
      /\ \A i \in 1 .. k : /\ h5[c][i] \in Records
                           /\ h5[c][i].step = i * f /\ h5[c][i].time <= time
      /\ k * f <= gstep
      /\ f = 0 => h5[c] = <<>>
      /\ (f > 0 /\ c \in nonEmpty) => gstep < (k + 1) * f
  BY DEF H5Follows
<1>5. \A i \in 1 .. k : h5[c][i].time <= time'
  <2>1. \A i \in 1 .. k : h5[c][i].time \in Int
    BY <1>4 DEF Records
  <2>2. \A s, t, u \in Int : s <= t /\ t < u => s <= u
    OBVIOUS
  <2> QED BY <1>1, <1>4, <2>1, <2>2
<1>6. k * f \in Nat
  BY <1>4
<1>7. (f > 0 /\ c \in nonEmpty) =>
         /\ dumpDue(f, gstep) => gstep' = (k + 1) * f
         /\ ~dumpDue(f, gstep) => gstep' < (k + 1) * f
  <2> HIDE DEF f, k
  <2>1. ASSUME f > 0, c \in nonEmpty
        PROVE  /\ dumpDue(f, gstep) => gstep + 1 = (k + 1) * f
               /\ ~dumpDue(f, gstep) => gstep + 1 < (k + 1) * f
    <3>1. f \in Nat \ {0} /\ k * f <= gstep /\ gstep < (k + 1) * f
      BY <1>4, <2>1
    <3> QED BY <1>1, <1>4, <3>1, DumpAtMultiple
  <2> QED BY <1>1, <2>1
<1>8. CASE f = 0
  <2>1. ~dumpDue(f, gstep)
    BY <1>8 DEF dumpDue
  <2>2. h5'[c] = <<>>
    BY <1>2, <1>4, <1>8, <2>1
  <2>3. \A i \in DOMAIN h5'[c] : FALSE
    BY <2>2
  <2>4. Len(h5'[c]) * f <= gstep'
    BY <1>1, <1>8, <2>2
  <2>5. h5'[c] \in Seq(Records)
    BY <2>2
  <2> QED BY <1>8, <2>2, <2>3, <2>4, <2>5 DEF H5Follows
<1>9. CASE f > 0 /\ dumpDue(f, gstep) /\ c \in nonEmpty'
  <2>1. gstep' = (k + 1) * f
    BY <1>3, <1>9, <1>7
  <2>2. (k + 1) * f < (k + 1 + 1) * f
    BY <1>4, <1>9, MultiplesAscend
  <2>3. r \in Records /\ r.step = gstep' /\ r.time = time'
    <3>1. c \in Containers /\ gstep' \in Nat /\ sPos' \in [Containers -> Int]
      BY <1>1, StepTypes
    <3> QED BY <1>1, <3>1, RecordType DEF record
  <2>4. h5'[c] = Append(h5[c], r)
    BY <1>2, <1>9
  <2> HIDE DEF r, f
  <2>5. /\ h5'[c] \in Seq(Records) /\ Len(h5'[c]) = k + 1 /\ h5'[c][k + 1] = r
        /\ \A i \in 1 .. k : h5'[c][i] = h5[c][i]
        /\ DOMAIN h5'[c] = 1 .. k + 1
    BY <2>3, <2>4
  <2> HIDE DEF k
  <2>6. \A i \in 1 .. k + 1 : i \in 1 .. k \/ i = k + 1
    BY <1>4
  <2>7. \A i \in 1 .. k + 1 : h5'[c][i].step = i * f /\ h5'[c][i].time <= time'
    <3>1. time' <= time'
      BY <1>1
    <3>2. h5'[c][k + 1].step = (k + 1) * f /\ h5'[c][k + 1].time <= time'
      BY <2>1, <2>3, <2>5, <3>1
    <3> QED BY <1>4, <1>5, <2>5, <2>6, <3>2
  <2>8. /\ Len(h5'[c]) * f <= gstep' /\ gstep' < (Len(h5'[c]) + 1) * f
        /\ f # 0
    BY <1>1, <1>9, <2>1, <2>2, <2>5
  <2> QED BY <2>5, <2>7, <2>8 DEF H5Follows, f
<1>10. CASE f > 0 /\ ~(dumpDue(f, gstep) /\ c \in nonEmpty')
  <2>1. h5'[c] = h5[c]
    BY <1>2, <1>10
  <2>2. c \in nonEmpty' => gstep' < (k + 1) * f
    <3>1. c \in nonEmpty' => ~dumpDue(f, gstep) /\ c \in nonEmpty
      BY <1>3, <1>10
    <3> QED BY <1>10, <1>7, <3>1
  <2>3. k * f <= gstep'
    BY <1>1, <1>4, <1>6
  <2>4. DOMAIN h5[c] = 1 .. k
    OBVIOUS
  <2>5. f # 0
    BY <1>10
  <2> HIDE DEF r
  <2> QED BY <1>4, <1>5, <2>1, <2>2, <2>3, <2>4, <2>5 DEF H5Follows
<1> QED BY <1>4, <1>8, <1>9, <1>10

\* A step, completed or killed, keeps what a cut leaves, or its checkpoint names it.
LEMMA H5CutAfterStep ==
    ASSUME LoadedBeams, LoopInv, BeamsInv, DumpingStep \/ KilledInStep, NEW c \in Loaded,
           PhaseSpaceInv, Resumable'
    PROVE  h5'[c] \in Seq(Records) /\ \E n \in Nat : H5CutLeaves(c, n)'
<1>1. /\ IntegrationStep /\ phase = "step" /\ Tracking
      /\ gstep' \in Nat /\ time' \in Int /\ sPos' \in [Containers -> Int] /\ c \in Containers
  BY StepTypes DEF DumpingStep, TimeStep, KilledInStep, Tracking
<1>2. CASE checkpoint' = checkpoint
  <2>1. Resumable
    BY <1>2 DEF Resumable
  <2>2. PICK n \in Nat : h5[c] \in Seq(Records) /\ H5CutLeaves(c, n)
    BY <1>1, <2>1 DEF PhaseSpaceInv
  <2>3. checkpoint.time < time'
    BY <1>1, <2>1, StepAfterCheckpoint DEF Resumable
  <2>4. record(c, gstep', time', sPos') \in Records
    BY <1>1, RecordType
  <2>5. checkpoint.time < record(c, gstep', time', sPos').time
    BY <2>3 DEF record
  <2>6. \/ h5'[c] = h5[c]
        \/ h5'[c] = Append(h5[c], record(c, gstep', time', sPos')) /\ PsDumpFreq > 0
    BY <1>1, H5Appended
  <2>7. h5'[c] \in Seq(Records) /\ H5CutLeaves(c, n)'
    BY <1>2, <2>2, <2>4, <2>5, <2>6, H5CutAppend
  <2> QED BY <2>2, <2>7
<1>3. CASE checkpoint' # checkpoint
  <2>1. DumpingStep /\ TimeStep
    BY <1>3 DEF DumpingStep, KilledInStep
  <2>2. /\ checkpoint'.gstep = gstep' /\ checkpoint'.time = time'
        /\ checkpoint'.nonEmpty = nonEmpty'
    BY <1>3, <2>1, SavedBeams
  <2>3. h5'[c] \in Seq(Records) /\ H5Follows(c)'
    BY <1>1, <2>1, H5Dumped DEF PhaseSpaceInv
  <2>4. Len(h5'[c]) \in Nat /\ DOMAIN h5'[c] = 1 .. Len(h5'[c])
    BY <2>3
  <2>5. Len(h5'[c]) \in 0 .. Len(h5'[c]) /\ ~(Len(h5'[c]) < Len(h5'[c]))
    BY <2>4
  <2>6. H5CutLeaves(c, Len(h5[c]))'
    BY <2>2, <2>3, <2>4, <2>5 DEF H5Follows, H5CutLeaves
  <2> QED BY <2>3, <2>4, <2>6
<1> QED BY <1>2, <1>3

\* What a restart leaves in the phase-space file.
LEMMA H5Restarted ==
    ASSUME LoadedBeams, LoopInv, RestartRun, phase' = "segment", NEW c \in Loaded, PhaseSpaceInv
    PROVE  /\ h5'[c] \in Seq(Records) /\ H5Follows(c)'
           /\ \E n \in Nat : H5CutLeaves(c, n)'
<1>1. /\ phase = "interrupted" /\ checkpoint' = checkpoint /\ checkpoint # NoCheckpoint
      /\ acceptsRestart(checkpoint) /\ ~reachedEnd(checkpoint.segment)
      /\ gstep' = checkpoint.gstep /\ time' = checkpoint.time
      /\ nonEmpty' = checkpoint.nonEmpty
  BY LoadedStart DEF RestartRun
<1>2. PICK n \in Nat : h5[c] \in Seq(Records) /\ H5CutLeaves(c, n)
  BY <1>1 DEF PhaseSpaceInv, Resumable
<1>3. c \in Containers /\ h5'[c] = rewoundH5(c)
  BY DEF RestartRun, rewindToCheckpoint
<1>4. /\ h5'[c] \in Seq(Records) /\ Len(h5'[c]) = n
      /\ H5CutLeaves(c, n)'
  BY <1>1, <1>2, <1>3, H5CutTwice
<1>5. DOMAIN h5'[c] = 1 .. n
  BY <1>4
<1>6. H5Follows(c)'
  BY <1>1, <1>4, <1>5 DEF H5CutLeaves, H5Follows
<1> QED BY <1>4, <1>6

\* A killed final dump keeps what a cut leaves.
LEMMA H5FinalDumpKilled ==
    ASSUME LoopInv, BeamsInv, GoesOnInv, LeavesForGood, KilledInFinalDump, NEW c \in Loaded,
           PhaseSpaceInv, Resumable
    PROVE  h5'[c] \in Seq(Records) /\ \E n \in Nat : H5CutLeaves(c, n)'
<1>1. /\ phase \in {"segment", "step"} /\ Tracking /\ checkpoint' = checkpoint
      /\ gstep' = gstep /\ time' = time /\ sPos' = sPos /\ nonEmpty' = nonEmpty
      /\ c \in Containers
  BY DEF KilledInFinalDump, clock, bunch, Tracking
<1>2. PICK n \in Nat : h5[c] \in Seq(Records) /\ H5CutLeaves(c, n)
  BY <1>1 DEF PhaseSpaceInv
<1> DEFINE r == record(c, gstep', time', sPos')
<1>3. \/ h5'[c] = h5[c]
      \/ h5'[c] = Append(h5[c], r) /\ PsDumpFreq > 0 /\ c \in nonEmpty'
  BY <1>1, H5Appended
<1>4. CASE h5'[c] = h5[c]
  BY <1>1, <1>2, <1>4 DEF H5CutLeaves
<1>5. CASE h5'[c] = Append(h5[c], r) /\ PsDumpFreq > 0 /\ c \in nonEmpty'
  <2>1. checkpoint.nonEmpty # {}
    BY <1>1, <1>5 DEF BeamsInv, Resumable
  <2>2. checkpoint.time < time'
    BY <1>1, <2>1, FinalDumpIsLater
  <2>3. gstep' \in Nat /\ time' \in Int /\ sPos' \in [Containers -> Int]
    BY <1>1 DEF LoopInv, TypeInv, TypeOK
  <2>4. r \in Records /\ checkpoint.time < r.time
    BY <1>1, <2>2, <2>3, RecordType DEF record
  <2> QED BY <1>1, <1>2, <1>5, <2>4, H5CutAppend
<1> QED BY <1>3, <1>4, <1>5

\* Cutting the files back, in full or in part, can be repeated.
LEMMA H5RewindKilled ==
    ASSUME LoopInv, KilledInPhaseSpaceRewind \/ KilledInStatisticsRewind, NEW c \in Loaded,
           PhaseSpaceInv, Resumable
    PROVE  h5'[c] \in Seq(Records) /\ \E n \in Nat : H5CutLeaves(c, n)'
<1>1. /\ phase = "interrupted" /\ checkpoint' = checkpoint /\ checkpoint # NoCheckpoint
      /\ c \in Containers
  BY DEF KilledInPhaseSpaceRewind, KilledInStatisticsRewind, KilledInRewind
<1>2. PICK n \in Nat : h5[c] \in Seq(Records) /\ H5CutLeaves(c, n)
  BY <1>1 DEF PhaseSpaceInv
<1>3. h5'[c] \in {rewoundH5(c), h5[c]}
  BY <1>1 DEF KilledInPhaseSpaceRewind, KilledInStatisticsRewind
<1>4. CASE h5'[c] = rewoundH5(c)
  BY <1>1, <1>2, <1>4, H5CutTwice
<1>5. CASE h5'[c] = h5[c]
  BY <1>1, <1>2, <1>5 DEF H5CutLeaves
<1> QED BY <1>3, <1>4, <1>5

\* A step that leaves files, clock and beams alone and does not start to track.
HarmlessStep ==
    /\ UNCHANGED <<gstep, time, nonEmpty, sPos, checkpoint, files>>
    /\ Tracking' => Tracking
    /\ phase' = "interrupted" => Tracking \/ phase = "interrupted"

\* The steps of a job and its files.
LEMMA FileSteps ==
    ASSUME LoadedBeams, [OutNext]_<<vars, files>>
    PROVE  \/ StartRun \/ RestartRun \/ DumpingStep
           \/ KilledInStep \/ KilledInFinalDump
           \/ KilledInPhaseSpaceRewind \/ KilledInStatisticsRewind
           \/ phase' \in {"finished", "refused"} /\ UNCHANGED checkpoint
           \/ HarmlessStep
<1>1. EnterSegment => HarmlessStep
  BY LoadedSegment DEF EnterSegment, HarmlessStep, Tracking
<1>2. NextSegment => HarmlessStep
  BY DEF NextSegment, LeaveSegment, HarmlessStep, Tracking, clock, bunch
<1>3. KilledBetweenSteps => HarmlessStep
  BY DEF KilledBetweenSteps, Crash, HarmlessStep, Tracking, clock, bunch
<1>4. UNCHANGED <<vars, files>> => HarmlessStep
  BY DEF vars, HarmlessStep, Tracking, clock, bunch
<1>5. RefusedRun => phase' = "refused" /\ UNCHANGED checkpoint
  BY DEF RefusedRun, RefuseRestart
<1>6. FinishRun => phase' = "finished" /\ UNCHANGED checkpoint
  BY DEF FinishRun, EndOfSchedule, LeaveSegment
<1> QED BY <1>1, <1>2, <1>3, <1>4, <1>5, <1>6 DEF OutNext

\* The phase-space files follow the run, and would after a restart.
LEMMA NextPhaseSpace ==
    ASSUME LoadedBeams, LoopInv, BeamsInv, GoesOnInv, LeavesForGood, PhaseSpaceInv,
           [OutNext]_<<vars, files>>
    PROVE  PhaseSpaceInv'
<1> SUFFICES ASSUME NEW c \in Loaded
             PROVE  /\ Tracking' => h5'[c] \in Seq(Records) /\ H5Follows(c)'
                    /\ (phase' \in {"segment", "step", "interrupted"} /\ Resumable') =>
                         h5'[c] \in Seq(Records) /\ \E n \in Nat : H5CutLeaves(c, n)'
  BY DEF PhaseSpaceInv
<1>1. CASE StartRun
  <2>1. h5'[c] = <<>> /\ ~Resumable' /\ gstep' = 0
    <3>1. c \in Containers
      OBVIOUS
    <3> QED BY <1>1, <3>1, LoadedStart DEF StartRun, NoFiles, Resumable
  <2>2. /\ DOMAIN <<>> = {} /\ Len(<<>>) = 0 /\ 0 * PsDumpFreq = 0
        /\ (0 + 1) * PsDumpFreq = PsDumpFreq
    OBVIOUS
  <2> QED BY <2>1, <2>2 DEF H5Follows
<1>2. CASE RestartRun
  <2>1. phase' \in {"segment", "finished"}
    BY <1>2, LoadedStart DEF RestartRun
  <2>2. CASE phase' = "segment"
    BY <1>2, <2>2, H5Restarted
  <2>3. CASE phase' = "finished"
    BY <2>3 DEF Tracking
  <2> QED BY <2>1, <2>2, <2>3
<1>3. CASE DumpingStep
  <2>1. phase = "step" /\ Tracking
    BY <1>3, StepTypes DEF DumpingStep, TimeStep, Tracking
  <2>2. h5'[c] \in Seq(Records) /\ H5Follows(c)'
    BY <1>3, <2>1, H5Dumped DEF PhaseSpaceInv
  <2> QED BY <1>3, <2>2, H5CutAfterStep
<1>4. CASE KilledInStep
  BY <1>4, KilledStep, H5CutAfterStep
<1>5. CASE KilledInFinalDump
  <2>1. ~Tracking' /\ (Resumable' => Resumable)
    BY <1>5 DEF KilledInFinalDump, Tracking, Resumable
  <2> QED BY <1>5, <2>1, H5FinalDumpKilled
<1>6. CASE KilledInPhaseSpaceRewind \/ KilledInStatisticsRewind
  <2>1. ~Tracking' /\ (Resumable' => Resumable)
    BY <1>6 DEF KilledInPhaseSpaceRewind, KilledInStatisticsRewind, KilledInRewind,
                Tracking, Resumable
  <2> QED BY <1>6, <2>1, H5RewindKilled
<1>7. CASE phase' \in {"finished", "refused"}
  BY <1>7 DEF Tracking
<1>8. CASE HarmlessStep
  <2>1. /\ Tracking' => Tracking
        /\ UNCHANGED <<gstep, time, nonEmpty, checkpoint, h5>> /\ (Resumable' <=> Resumable)
    BY <1>8 DEF HarmlessStep, files, Resumable
  <2>2. H5Follows(c) => H5Follows(c)'
    BY <2>1 DEF H5Follows
  <2>3. phase' \in {"segment", "step", "interrupted"} =>
          phase \in {"segment", "step", "interrupted"}
    BY <1>8 DEF HarmlessStep, Tracking
  <2>4. ASSUME NEW n \in Nat, H5CutLeaves(c, n) PROVE H5CutLeaves(c, n)'
    BY <2>1, <2>4 DEF H5CutLeaves
  <2> QED BY <2>1, <2>2, <2>3, <2>4 DEF PhaseSpaceInv
<1> QED BY <1>1, <1>2, <1>3, <1>4, <1>5, <1>6, <1>7, <1>8, FileSteps

\* The numbers of the steps in a file that follows the run.
LEMMA FollowsDueSteps ==
    ASSUME LoopInv, NEW c \in Loaded, h5[c] \in Seq(Records), H5Follows(c)
    PROVE  /\ IsPrefix(stepsIn(h5[c]), dueSteps(PsDumpFreq, gstep))
           /\ c \in nonEmpty => Len(h5[c]) = Len(dueSteps(PsDumpFreq, gstep))
<1> DEFINE f == PsDumpFreq
           k == Len(h5[c])
           n == IF f = 0 THEN 0 ELSE gstep \div f
           due == dueSteps(f, gstep)
<1>1. /\ f \in Nat /\ k \in Nat /\ gstep \in Nat
      /\ f = 0 => k = 0
      /\ k * f <= gstep
      /\ (f > 0 /\ c \in nonEmpty) => gstep < (k + 1) * f
      /\ \A i \in 1 .. k : h5[c][i].step = i * f
      /\ DOMAIN h5[c] = 1 .. k
  <2>1. k \in Nat /\ DOMAIN h5[c] = 1 .. k
    OBVIOUS
  <2>2. gstep \in Nat
    BY DEF LoopInv, TypeInv, TypeOK
  <2> QED BY <2>1, <2>2 DEF H5Follows
<1>2. n \in Nat /\ k <= n /\ (c \in nonEmpty => n = k)
  <2> HIDE DEF f, k, n
  <2>1. CASE f = 0
    BY <1>1, <2>1 DEF n
  <2>2. CASE f > 0
    <3>1. f \in Nat \ {0}
      BY <1>1, <2>2
    <3>2. n = gstep \div f
      BY <3>1 DEF n
    <3>3. gstep \in Nat /\ k \in Nat /\ k * f <= gstep
      BY <1>1
    <3>4. n \in Nat /\ k <= n /\ (gstep < (k + 1) * f => n = k)
      BY ONLY <3>1, <3>2, <3>3, MultiplesUpTo
    <3> QED BY <1>1, <2>2, <3>4
  <2> QED BY <1>1, <2>1, <2>2
<1>3. due = [i \in 1 .. n |-> i * f]
  BY DEF dueSteps
<1>4. stepsIn(h5[c]) = [i \in 1 .. k |-> i * f]
  BY <1>1 DEF stepsIn
<1>5. \A m \in Nat : Len([i \in 1 .. m |-> i * f]) = m
  OBVIOUS
<1> HIDE DEF f, k, n, due
<1>6. Len(stepsIn(h5[c])) = k /\ Len(due) = n
  BY <1>1, <1>2, <1>3, <1>4, <1>5
<1>7. SubSeq(due, 1, k) = [i \in 1 .. k |-> i * f]
  BY <1>1, <1>2, <1>3
<1>8. IsPrefix(stepsIn(h5[c]), due)
  BY <1>1, <1>2, <1>4, <1>6, <1>7 DEF IsPrefix
<1> QED BY <1>2, <1>6, <1>8 DEF f, k, due

\* A restart into a segment has something to push, with one velocity or no losses.
LEMMA MovesAgainInvariant ==
    ASSUME LoadedBeams, OneSpeed \/ ~ApertureLosses
    PROVE  OutSpec => []ResumesMoving
<1>1. ASSUME OneSpeed PROVE OutSpec => []TogetherInv
  <2>1. OutInit => TogetherInv
    BY DEF OutInit, Init, TogetherInv, Tracking, FlagsInUse
  <2>2. LoopInv /\ BeamsInv /\ TogetherInv /\ [OutNext]_<<vars, files>> => TogetherInv'
    BY <1>1, NextTogether
  <2> QED BY <2>1, <2>2, BeamsInvariant, PTL DEF OutSpec
<1>2. ASSUME ~ApertureLosses PROVE OutSpec => []PopulatedInv
  <2>1. OutInit => PopulatedInv
    BY DEF OutInit, Init, PopulatedInv, Tracking
  <2>2. LoopInv /\ BeamsInv /\ PopulatedInv /\ [OutNext]_<<vars, files>> => PopulatedInv'
    BY <1>2, NextPopulated
  <2> QED BY <2>1, <2>2, BeamsInvariant, PTL DEF OutSpec
<1>3. CASE OneSpeed
  <2>1. TogetherInv => ResumesMoving
    BY MovesAgain
  <2> QED BY <1>1, <1>3, <2>1, PTL
<1>4. CASE ~ApertureLosses
  <2>1. PopulatedInv => ResumesMoving
    BY MovesAgain
  <2> QED BY <1>2, <1>4, <2>1, PTL
<1> QED BY <1>3, <1>4

\* However often the job is killed, in a step, in the final dump or while the files
\* are cut back, and restarted: the phase-space file of every container has exactly the
\* records of an uninterrupted run, or an initial part of them once it is emptied. It
\* holds for every schedule, beam and frequency, if all beams have one velocity or no
\* apertures, and no two segments of one DT follow each other where the lattice ends.
THEOREM PhaseSpaceCorrect ==
    ASSUME LoadedBeams, OneSpeed \/ ~ApertureLosses
    PROVE  OutSpec /\ []LeavesForGood => []PhaseSpaceFollowsRun
<1> DEFINE Inv == LoopInv /\ BeamsInv /\ ResumesMoving
<1>1. OutSpec => []Inv
  BY BeamsInvariant, MovesAgainInvariant, PTL
<1>2. OutInit => GoesOnInv /\ PhaseSpaceInv
  BY DEF OutInit, Init, GoesOnInv, PhaseSpaceInv, Tracking
<1>3. Inv /\ LeavesForGood /\ GoesOnInv /\ PhaseSpaceInv /\ [OutNext]_<<vars, files>> =>
        GoesOnInv' /\ PhaseSpaceInv'
  BY NextGoesOn, NextPhaseSpace
<1>4. Inv /\ PhaseSpaceInv => PhaseSpaceFollowsRun
  BY FollowsDueSteps DEF PhaseSpaceInv, PhaseSpaceFollowsRun
<1> HIDE DEF Inv
<1> QED BY <1>1, <1>2, <1>3, <1>4, PTL DEF OutSpec

\* A schedule in which the time step changes from every segment to the next.
StepsDiffer == \A i \in Segments : i + 1 \in Segments => SegmentDt[i + 1] # SegmentDt[i]

\* The condition on the end of the lattice holds where the time step changes from each
\* segment to the next.
LEMMA DifferentSteps ==
    ASSUME LoadedBeams, StepsDiffer
    PROVE  OutSpec => []LeavesForGood
<1>1. LoopInv => LeavesForGood
  <2> SUFFICES ASSUME LoopInv, phase = "step", segment + 1 \in Segments
               PROVE  SegmentDt[segment + 1] # SegmentDt[segment]
    BY DEF LeavesForGood
  <2>1. segment \in Segments
    BY DEF LoopInv, TypeInv, TypeOK, Indices, Segments
  <2> QED BY <2>1 DEF StepsDiffer
<1> QED BY <1>1, LoopInvariant, PTL

-----------------------------------------------------------------------------
(* Path lengths.                                                            *)

\* A step takes the beams of the checkpoint beyond where they were in it.
LEMMA StepGrows ==
    ASSUME LoadedBeams, OneSpeed, LoopInv, BeamsInv, TogetherInv, PathInv, IntegrationStep,
           checkpoint # NoCheckpoint, NEW c \in checkpoint.nonEmpty
    PROVE  checkpoint.sPos[c] \in Int /\ sPos'[c] \in Int /\ checkpoint.sPos[c] < sPos'[c]
<1>1. c \in Loaded /\ c \in Containers
  BY DEF BeamsInv
<1>2. /\ sPos[c] \in Int /\ sPos'[c] \in Int /\ sPos[c] <= sPos'[c]
      /\ checkpoint.sPos[c] \in Int /\ checkpoint.gstep \in Nat /\ gstep \in Nat
  BY <1>1, PathForward, StepTypes, CheckpointType
<1>3. Tracking /\ checkpoint.gstep <= gstep
  BY StepTypes DEF Tracking, LoopInv, ClockInv
<1>4. CASE checkpoint.gstep < gstep
  <2>1. checkpoint.sPos[c] < sPos[c]
    BY <1>3, <1>4 DEF PathInv
  <2> QED BY <1>2, <2>1
<1>5. CASE checkpoint.gstep = gstep
  <2>1. c \in active /\ sPos[c] = checkpoint.sPos[c]
    BY <1>3, <1>5, TogetherStep DEF BeamsInv
  <2>2. time' > 0
    <3>1. time \in Int /\ time' \in Int /\ time < time' /\ time >= 0
      BY <1>3, StepAfterCheckpoint DEF PathInv
    <3> QED BY <3>1
  <2>3. Speed[c] \in Nat \ {0}
    BY <1>1 DEF OneSpeed
  <2> DEFINE advance == AdvanceTime(time', dt')
  <2>4. advance \in Nat \ {0} /\ sPos'[c] = sPos[c] + advance * Speed[c]
    BY <1>1, <2>1, <2>2, LoadedPath
  <2>5. \A a, b \in Nat \ {0} : a * b \in Nat \ {0}
    OBVIOUS
  <2> HIDE DEF advance
  <2>6. advance * Speed[c] \in Nat \ {0}
    BY <2>3, <2>4, <2>5
  <2>7. sPos[c] < sPos'[c]
    BY <1>2, <2>4, <2>6
  <2> QED BY <1>2, <2>1, <2>7
<1> QED BY <1>2, <1>3, <1>4, <1>5

\* Beams of the checkpoint stay beyond where they were in it.
LEMMA NextPath ==
    ASSUME LoadedBeams, OneSpeed, StartTime >= 0, LoopInv, BeamsInv, TogetherInv, PathInv,
           [OutNext]_<<vars, files>>
    PROVE  PathInv'
<1>1. CASE FreshStart
  BY <1>1, LoadedStart DEF PathInv
<1>2. CASE Restart
  <2>1. /\ checkpoint # NoCheckpoint /\ checkpoint' = checkpoint
        /\ gstep' = checkpoint.gstep /\ time' = checkpoint.time
        /\ checkpoint.gstep \in Nat
    BY <1>2, LoadedStart, CheckpointType
  <2> QED BY <2>1 DEF PathInv
<1>3. CASE BeginSegment
  BY <1>3, LoadedSegment DEF PathInv, Tracking
<1>4. CASE TimeStep
  <2>1. IntegrationStep /\ Tracking /\ gstep' \in Nat
    BY <1>4, StepTypes DEF TimeStep, Tracking
  <2>2. time' >= 0
    <3>1. time \in Int /\ time' \in Int /\ time < time' /\ time >= 0
      BY <2>1, StepAfterCheckpoint DEF PathInv
    <3> QED BY <3>1
  <2>3. CASE checkpoint' = checkpoint
    BY <2>1, <2>2, <2>3, StepGrows DEF PathInv
  <2>4. CASE checkpoint' # checkpoint
    <3>1. checkpoint'.gstep = gstep' /\ checkpoint'.time = time'
      BY <1>4, <2>4, SavedBeams
    <3> QED BY <2>1, <2>2, <3>1 DEF PathInv
  <2> QED BY <2>3, <2>4
<1>5. CASE KilledInStep
  BY <1>5, KilledStep DEF PathInv
<1>6. CASE QuietStep
  BY <1>6 DEF QuietStep, PathInv, Tracking
<1> QED BY <1>1, <1>2, <1>3, <1>4, <1>5, <1>6, StepKinds

-----------------------------------------------------------------------------
(* Statistics files.                                                        *)

\* A set of natural numbers has a least element.
LEMMA Least ==
    ASSUME NEW T \in SUBSET Nat, T # {}
    PROVE  \E n \in T : \A m \in T : n <= m
<1>1. \E n \in T : \A m \in T : ~ (<<m, n>> \in OpToRel(<, Nat))
  BY NatLessThanWellFounded, WFMin
<1>2. \E n \in T : \A m \in T : ~ (m < n)
  BY <1>1 DEF OpToRel
<1> QED BY <1>2

\* Induction for a set of natural numbers.
LEMMA Induction ==
    ASSUME NEW T, 0 \in T, \A n \in Nat : n \in T => n + 1 \in T
    PROVE  Nat \subseteq T
<1> SUFFICES ASSUME Nat \ T # {} PROVE FALSE
  OBVIOUS
<1>1. PICK n \in Nat \ T : \A m \in Nat \ T : n <= m
  BY Least
<1>2. n # 0 /\ n - 1 \in Nat
  BY <1>1
<1>3. n - 1 \in T
  BY <1>1, <1>2
<1>4. (n - 1) + 1 \in T
  BY <1>2, <1>3
<1> QED BY <1>1, <1>4

\* Induction up to a number.
LEMMA InductionUpTo ==
    ASSUME NEW n \in Nat, NEW T, 0 \in T, \A i \in 0 .. n - 1 : i \in T => i + 1 \in T
    PROVE  \A i \in 0 .. n : i \in T
<1> DEFINE U == {i \in Nat : i <= n => i \in T}
<1>1. 0 \in U
  OBVIOUS
<1>2. ASSUME NEW i \in Nat, i \in U PROVE i + 1 \in U
  <2>1. CASE i + 1 <= n
    BY <1>2, <2>1
  <2>2. CASE ~ (i + 1 <= n)
    BY <2>2
  <2> QED BY <2>1, <2>2
<1> HIDE DEF U
<1>3. Nat \subseteq U
  BY <1>1, <1>2, Induction
<1> USE DEF U
<1> QED BY <1>3


\* What rewindLinesSDDS leaves of rows that are in order up to the first one beyond
\* the path length: those before that one.
LEMMA LinesRewound ==
    ASSUME NEW rows \in Seq(Records), NEW s \in Int, NEW n \in 0 .. Len(rows),
           \A i \in 1 .. n : rows[i].s <= s /\ (i > 1 => rows[i].time > rows[i - 1].time),
           n < Len(rows) => rows[n + 1].s > s
    PROVE  rewindLinesSDDS(rows, s) = SubSeq(rows, 1, n)
<1> DEFINE v == [i \in DOMAIN rows |-> rows[i].s]
           newer(i) == i = 1 \/ rows[i].time > rows[i - 1].time
           Kept(g) == [i \in 0 .. n |->
                         IF i = 0 THEN <<>>
                         ELSE IF newer(i) THEN Append(g[i - 1], rows[i]) ELSE g[i - 1]]
           k == [i \in 0 .. n |-> SubSeq(rows, 1, i)]
<1>1. /\ v \in Seq(Int) /\ Len(v) = Len(rows) /\ Len(rows) \in Nat
      /\ \A i \in 1 .. Len(rows) : v[i] = rows[i].s
  <2>1. Len(rows) \in Nat /\ DOMAIN rows = 1 .. Len(rows)
    OBVIOUS
  <2>2. \A i \in 1 .. Len(rows) : rows[i] \in Records
    OBVIOUS
  <2>3. \A i \in 1 .. Len(rows) : rows[i].s \in Int
    BY <2>2 DEF Records
  <2>4. v \in [1 .. Len(rows) -> Int]
    BY <2>1, <2>3
  <2> QED BY <2>1, <2>4
<1>2. rowsUpTo(v, s) = n
  <2>1. n \in 0 .. Len(v) /\ \A i \in 1 .. n : v[i] <= s
    BY <1>1
  <2>2. n < Len(v) => v[n + 1] > s
    BY <1>1
  <2> HIDE DEF v
  <2> QED BY <1>1, <2>1, <2>2, RowsUpTo
<1>3. rewindLinesSDDS(rows, s) = (CHOOSE g : g = Kept(g))[n]
  <2>1. rewindLinesSDDS(rows, s) =
          (CHOOSE g : g = [i \in 0 .. rowsUpTo(v, s) |->
                             IF i = 0 THEN <<>>
                             ELSE IF newer(i) THEN Append(g[i - 1], rows[i])
                             ELSE g[i - 1]])[rowsUpTo(v, s)]
    BY DEF rewindLinesSDDS
  <2> QED BY <1>2, <2>1
<1>4. \A i \in 1 .. n : newer(i)
  OBVIOUS
<1>5. k[0] = <<>>
  OBVIOUS
<1>6. \A i \in 1 .. n : k[i] = Append(k[i - 1], rows[i])
  <2> SUFFICES ASSUME NEW i \in 1 .. n PROVE k[i] = Append(k[i - 1], rows[i])
    OBVIOUS
  <2>1. i - 1 \in 0 .. n /\ i \in 0 .. n /\ i \in 1 .. Len(rows)
    BY <1>1
  <2>2. k[i] = SubSeq(rows, 1, i) /\ k[i - 1] = SubSeq(rows, 1, i - 1)
    BY <2>1
  <2>3. SubSeq(rows, 1, i) = Append(SubSeq(rows, 1, i - 1), rows[i])
    BY <1>1, <2>1
  <2> QED BY <2>2, <2>3
<1> HIDE DEF k, newer
<1>7. k = Kept(k)
  <2>1. \A i \in 0 .. n : k[i] = Kept(k)[i]
    <3> SUFFICES ASSUME NEW i \in 0 .. n PROVE k[i] = Kept(k)[i]
      OBVIOUS
    <3>1. CASE i = 0
      BY <1>5, <3>1
    <3>2. CASE i \in 1 .. n
      <4>1. i # 0 /\ newer(i) /\ k[i] = Append(k[i - 1], rows[i])
        <5>1. i # 0
          BY <3>2
        <5> HIDE DEF Kept
        <5> QED BY <1>4, <1>6, <3>2, <5>1, Zenon
      <4>2. Kept(k)[i] = IF i = 0 THEN <<>>
                         ELSE IF newer(i) THEN Append(k[i - 1], rows[i]) ELSE k[i - 1]
        OBVIOUS
      <4> HIDE DEF Kept
      <4> QED BY <4>1, <4>2, Zenon
    <3> QED BY <3>1, <3>2
  <2>2. k = [i \in 0 .. n |-> k[i]]
    BY DEF k
  <2>3. Kept(k) = [i \in 0 .. n |-> Kept(k)[i]]
    OBVIOUS
  <2> HIDE DEF Kept
  <2> QED BY <2>1, <2>2, <2>3
<1> DEFINE h == CHOOSE g : g = Kept(g)
<1>8. h = Kept(h)
  <2> HIDE DEF Kept
  <2> QED BY <1>7
<1> HIDE DEF h
<1>9. h[0] = <<>> /\ \A i \in 1 .. n : h[i] = Append(h[i - 1], rows[i])
  <2>1. h[0] = <<>>
    BY <1>8
  <2>2. ASSUME NEW i \in 1 .. n PROVE h[i] = Append(h[i - 1], rows[i])
    <3>1. i \in 0 .. n /\ i # 0 /\ newer(i)
      BY <1>4
    <3> QED BY <1>8, <3>1
  <2> QED BY <2>1, <2>2
<1> DEFINE T == {i \in 0 .. n : h[i] = k[i]}
<1>10. 0 \in T
  BY <1>5, <1>9
<1>11. ASSUME NEW i \in 0 .. n - 1, i \in T PROVE i + 1 \in T
  <2>1. i + 1 \in 1 .. n /\ (i + 1) - 1 = i /\ i + 1 \in 0 .. n
    OBVIOUS
  <2>2. h[i] = k[i]
    BY <1>11
  <2>3. h[i + 1] = Append(h[i], rows[i + 1]) /\ k[i + 1] = Append(k[i], rows[i + 1])
    BY <1>6, <1>9, <2>1
  <2>4. h[i + 1] = k[i + 1]
    BY <2>2, <2>3, Zenon
  <2> QED BY <2>1, <2>4
<1>12. n \in T
  <2> HIDE DEF T
  <2>1. n \in Nat /\ n \in 0 .. n
    OBVIOUS
  <2> QED BY <1>10, <1>11, <2>1, InductionUpTo
<1>13. k[n] = SubSeq(rows, 1, n)
  BY DEF k
<1> QED BY <1>3, <1>12, <1>13 DEF h

\* The fields of a row.
LEMMA RowTypes ==
    ASSUME NEW rows \in Seq(Records), NEW i \in 1 .. Len(rows)
    PROVE  rows[i] \in Records /\ rows[i].time \in Int /\ rows[i].s \in Int
<1>1. rows[i] \in Records
  OBVIOUS
<1> QED BY <1>1 DEF Records

\* Rows stay in order when the run goes on.
LEMMA InOrderLater ==
    ASSUME NEW rows \in Seq(Records), NEW n \in 0 .. Len(rows),
           NEW g \in Nat, NEW t \in Int, NEW s \in Int, InOrder(rows, n, g, t, s),
           NEW h \in Nat, NEW u \in Int, NEW p \in Int, g <= h, t <= u, s <= p
    PROVE  InOrder(rows, n, h, u, p)
<1>1. \A i \in 1 .. n : /\ rows[i].time \in Int /\ rows[i].s \in Int
                        /\ rows[i].step \in 1 .. g /\ rows[i].time <= t /\ rows[i].s <= s
  BY RowTypes DEF InOrder
<1>2. \A i \in 1 .. n : rows[i].step \in 1 .. h /\ rows[i].time <= u /\ rows[i].s <= p
  BY <1>1
<1> QED BY <1>2 DEF InOrder

\* A row of a later step that is to be dumped is in order.
LEMMA InOrderAppended ==
    ASSUME NEW rows \in Seq(Records), NEW g \in Nat, NEW t \in Int, NEW s \in Int,
           InOrder(rows, Len(rows), g, t, s), StatDumpFreq > 0,
           NEW r \in Records, r.step = g + 1, r.step % StatDumpFreq = 0, t < r.time, s <= r.s
    PROVE  InOrder(Append(rows, r), Len(rows) + 1, g + 1, r.time, r.s)
<1> DEFINE k == Len(rows)
           longer == Append(rows, r)
<1>1. k \in Nat /\ r.time \in Int /\ r.s \in Int
  <2>1. k \in Nat
    OBVIOUS
  <2>2. r.time \in Int /\ r.s \in Int
    BY DEF Records
  <2> QED BY <2>1, <2>2
<1>2. \A i \in 1 .. k : longer[i] = rows[i]
  OBVIOUS
<1>3. longer[k + 1] = r
  OBVIOUS
<1> HIDE DEF longer
<1>4. \A i \in 1 .. k : /\ rows[i].step \in 1 .. g + 1 /\ rows[i].step % StatDumpFreq = 0
                        /\ rows[i].time < r.time /\ rows[i].s <= r.s
                        /\ rows[i].step < r.step
                        /\ i > 1 => /\ rows[i].step > rows[i - 1].step
                                    /\ rows[i].time > rows[i - 1].time
  <2> SUFFICES ASSUME NEW i \in 1 .. k
               PROVE  /\ rows[i].step \in 1 .. g + 1 /\ rows[i].step % StatDumpFreq = 0
                      /\ rows[i].time < r.time /\ rows[i].s <= r.s
                      /\ rows[i].step < r.step
                      /\ i > 1 => /\ rows[i].step > rows[i - 1].step
                                  /\ rows[i].time > rows[i - 1].time
    OBVIOUS
  <2>1. rows[i].time \in Int /\ rows[i].s \in Int
    BY RowTypes
  <2>2. /\ rows[i].step \in 1 .. g /\ rows[i].step % StatDumpFreq = 0
        /\ rows[i].time <= t /\ rows[i].s <= s
        /\ i > 1 => rows[i].step > rows[i - 1].step /\ rows[i].time > rows[i - 1].time
    BY DEF InOrder
  <2>3. rows[i].step \in 1 .. g + 1 /\ rows[i].step < r.step
    BY <2>2
  <2>4. rows[i].time < r.time /\ rows[i].s <= r.s
    BY <1>1, <2>1, <2>2
  <2> QED BY <2>2, <2>3, <2>4
<1>5. ASSUME NEW i \in 1 .. k + 1
      PROVE  /\ longer[i].step \in 1 .. g + 1 /\ longer[i].step % StatDumpFreq = 0
             /\ longer[i].time <= r.time /\ longer[i].s <= r.s
             /\ i > 1 => /\ longer[i].step > longer[i - 1].step
                         /\ longer[i].time > longer[i - 1].time
  <2>1. CASE i \in 1 .. k
    <3>1. rows[i].time \in Int /\ (rows[i].time < r.time => rows[i].time <= r.time)
      BY <1>1, <2>1, RowTypes
    <3>2. i > 1 => i - 1 \in 1 .. k
      BY <1>1, <2>1
    <3> QED BY <1>2, <1>4, <2>1, <3>1, <3>2
  <2>2. CASE i = k + 1
    <3>1. i > 1 => i - 1 \in 1 .. k
      BY <1>1, <2>2
    <3>2. longer[i] = r /\ r.step \in 1 .. g + 1 /\ r.time <= r.time /\ r.s <= r.s
      BY <1>1, <1>3, <2>2
    <3>3. ASSUME i > 1
          PROVE  longer[i - 1].step < r.step /\ longer[i - 1].time < r.time
      BY <1>2, <1>4, <3>1, <3>3
    <3>4. ASSUME i > 1
          PROVE  r.step > longer[i - 1].step /\ r.time > longer[i - 1].time
      BY <3>3, <3>4
    <3> QED BY <3>2, <3>4
  <2>3. i \in 1 .. k \/ i = k + 1
    BY <1>1
  <2> QED BY <2>1, <2>2, <2>3
<1>6. StatDumpFreq # 0
  OBVIOUS
<1> QED BY <1>5, <1>6 DEF InOrder, longer

\* The step of a dump is a multiple of the frequency.
LEMMA DumpDivides ==
    ASSUME NEW f \in Nat, NEW g \in Nat, dumpDue(f, g)
    PROVE  (g + 1) % f = 0
<1> DEFINE q == g \div f
           r == g % f
<1>1. f \in Nat \ {0} /\ r + 1 = f
  BY DEF dumpDue
<1>2. q \in Nat /\ r \in 0 .. f - 1 /\ g = q * f + r
  BY <1>1
<1> HIDE DEF q, r
<1>3. q * f \in Nat /\ (q + 1) * f = q * f + f /\ (q + 1 + 1) * f = q * f + f + f
  BY <1>1, <1>2
<1>4. g + 1 = (q + 1) * f
  BY <1>1, <1>2, <1>3
<1>5. (q + 1) * f <= g + 1 /\ g + 1 < (q + 1 + 1) * f /\ q + 1 \in Nat /\ g + 1 \in Nat
  BY <1>1, <1>2, <1>3, <1>4
<1>6. PICK m \in Nat, h \in Nat : m = q + 1 /\ h = g + 1
  BY <1>5
<1>7. m * f <= h /\ h < (m + 1) * f /\ h = m * f
  BY <1>4, <1>5, <1>6
<1>8. h % f = h - m * f
  BY ONLY <1>1, <1>6, <1>7, Quotient
<1>9. h % f = 0
  BY <1>7, <1>8
<1> QED BY <1>6, <1>9

\* What a step or a final dump, killed or not, does to a container's statistics file.
LEMMA StatAppended ==
    ASSUME NEW c \in Containers, DumpingStep \/ KilledInStep \/ KilledInFinalDump
    PROVE  \/ stat'[c] = stat[c]
           \/ /\ stat'[c] = Append(stat[c], record(c, gstep', time', sPos'))
              /\ StatDumpFreq > 0
              /\ DumpingStep => dumpDue(StatDumpFreq, gstep)
<1> DEFINE new == Append(stat[c], record(c, gstep', time', sPos'))
           due == containersIf(dumpDue(StatDumpFreq, gstep))
           atEnd == containersIf(finalDumpDue(StatDumpFreq, gstep))
<1>1. \A S, T : AppendRecords(S, T) => stat'[c] = stat[c] \/ (stat'[c] = new /\ c \in S)
  BY DEF AppendRecords
<1>2. /\ c \in due => dumpDue(StatDumpFreq, gstep)
      /\ c \in atEnd => finalDumpDue(StatDumpFreq, gstep)
  BY DEF containersIf
<1>3. /\ dumpDue(StatDumpFreq, gstep) => StatDumpFreq > 0
      /\ finalDumpDue(StatDumpFreq, gstep) => StatDumpFreq > 0
  BY DEF dumpDue, finalDumpDue
<1>4. DumpingStep => \E T : AppendRecords(due, T)
  BY DEF DumpingStep, writePhaseSpace
<1>5. KilledInStep => \E T, done : AppendRecords(due \cap done, T) \/ AppendRecords(due, T)
  BY DEF KilledInStep, writePhaseSpaceKilled
<1>6. KilledInFinalDump =>
        \E T, done : AppendRecords(atEnd \cap done, T) \/ AppendRecords(atEnd, T)
  BY DEF KilledInFinalDump, writePhaseSpaceKilled
<1> HIDE DEF new, due, atEnd
<1>7. DumpingStep => stat'[c] = stat[c] \/ (stat'[c] = new /\ c \in due)
  BY <1>1, <1>4
<1>8. ASSUME NEW U, NEW T, \E done : AppendRecords(U \cap done, T) \/ AppendRecords(U, T)
      PROVE  stat'[c] = stat[c] \/ (stat'[c] = new /\ c \in U)
  <2>1. PICK done : AppendRecords(U \cap done, T) \/ AppendRecords(U, T)
    BY <1>8
  <2> QED BY <1>1, <2>1
<1>9. KilledInStep => stat'[c] = stat[c] \/ (stat'[c] = new /\ c \in due)
  BY <1>5, <1>8
<1>10. KilledInFinalDump => stat'[c] = stat[c] \/ (stat'[c] = new /\ c \in atEnd)
  BY <1>6, <1>8
<1> QED BY <1>2, <1>3, <1>7, <1>9, <1>10, Zenon DEF new

\* A completed step leaves the rows in order.
LEMMA StatDumped ==
    ASSUME LoadedBeams, LoopInv, BeamsInv, DumpingStep, NEW c \in Loaded,
           stat[c] \in Seq(Records), InOrder(stat[c], Len(stat[c]), gstep, time, sPos[c])
    PROVE  /\ stat'[c] \in Seq(Records)
           /\ InOrder(stat'[c], Len(stat'[c]), gstep', time', sPos'[c])
<1> DEFINE r == record(c, gstep', time', sPos')
<1>1. /\ IntegrationStep /\ c \in Containers
      /\ gstep \in Nat /\ gstep' = gstep + 1 /\ gstep' \in Nat
      /\ time \in Int /\ time' \in Int /\ time < time'
      /\ sPos' \in [Containers -> Int]
  BY StepAfterCheckpoint, StepTypes DEF DumpingStep, TimeStep
<1>2. sPos[c] \in Int /\ sPos'[c] \in Int /\ sPos[c] <= sPos'[c]
  BY <1>1, PathForward
<1>3. CASE stat'[c] = stat[c]
  <2>1. Len(stat[c]) \in 0 .. Len(stat[c]) /\ gstep <= gstep' /\ time <= time'
    BY <1>1
  <2>2. InOrder(stat[c], Len(stat[c]), gstep', time', sPos'[c])
    BY <1>1, <1>2, <2>1, InOrderLater
  <2> QED BY <1>3, <2>2
<1>4. CASE stat'[c] = Append(stat[c], r) /\ StatDumpFreq > 0 /\ dumpDue(StatDumpFreq, gstep)
  <2>1. r \in Records /\ r.step = gstep + 1 /\ r.time = time' /\ r.s = sPos'[c]
    <3>1. r \in Records
      BY <1>1, RecordType
    <3>2. r.step = gstep' /\ r.time = time' /\ r.s = sPos'[c]
      BY DEF record
    <3> QED BY <1>1, <3>1, <3>2
  <2>2. (gstep + 1) % StatDumpFreq = 0
    BY <1>1, <1>4, DumpDivides
  <2> HIDE DEF r
  <2>3. InOrder(Append(stat[c], r), Len(stat[c]) + 1, gstep + 1, r.time, r.s)
    <3>1. r.step % StatDumpFreq = 0 /\ time < r.time /\ sPos[c] <= r.s
      BY <1>1, <1>2, <2>1, <2>2
    <3>2. sPos[c] \in Int /\ time \in Int /\ gstep \in Nat /\ StatDumpFreq > 0
      BY <1>1, <1>2, <1>4
    <3> QED BY <2>1, <3>1, <3>2, InOrderAppended
  <2>4. stat'[c] \in Seq(Records) /\ Len(stat'[c]) = Len(stat[c]) + 1
    BY <1>4, <2>1
  <2> QED BY <1>1, <1>4, <2>1, <2>3, <2>4
<1> QED BY <1>1, <1>3, <1>4, StatAppended

\* A row beyond the checkpoint does not change what a cut leaves.
LEMMA StatCutAppend ==
    ASSUME NEW c \in Loaded, NEW n \in Nat, stat[c] \in Seq(Records), StatCutLeaves(c, n),
           checkpoint' = checkpoint, NEW r \in Records, checkpoint.sPos[c] < r.s,
           checkpoint.sPos[c] \in Int,
           stat'[c] = stat[c] \/ (stat'[c] = Append(stat[c], r) /\ StatDumpFreq > 0)
    PROVE  stat'[c] \in Seq(Records) /\ StatCutLeaves(c, n)'
<1>1. CASE stat'[c] = stat[c]
  BY <1>1 DEF StatCutLeaves
<1>2. CASE stat'[c] = Append(stat[c], r) /\ StatDumpFreq > 0
  <2>1. /\ stat'[c] \in Seq(Records) /\ Len(stat'[c]) = Len(stat[c]) + 1 /\ Len(stat[c]) \in Nat
        /\ \A i \in 1 .. Len(stat[c]) : stat'[c][i] = stat[c][i]
        /\ stat'[c][Len(stat[c]) + 1] = r
    BY <1>2
  <2>2. n \in 0 .. Len(stat[c])
    BY DEF StatCutLeaves
  <2>3. /\ n < Len(stat'[c]) /\ n \in 0 .. Len(stat'[c])
        /\ \A i \in 1 .. n : stat'[c][i] = stat[c][i] /\ (i > 1 => i - 1 \in 1 .. n)
    BY <2>1, <2>2
  <2>4. stat'[c][n + 1].s > checkpoint.sPos[c]
    <3>1. CASE n = Len(stat[c])
      BY <2>1, <3>1 DEF Records
    <3>2. CASE n < Len(stat[c])
      <4>1. n + 1 \in 1 .. Len(stat[c])
        BY <2>1, <2>2, <3>2
      <4>2. stat'[c][n + 1] = stat[c][n + 1]
        BY <2>1, <4>1
      <4> QED BY <3>2, <4>2 DEF StatCutLeaves
    <3> QED BY <2>1, <2>2, <3>1, <3>2
  <2>5. InOrder(stat'[c], n, checkpoint.gstep, checkpoint.time, checkpoint.sPos[c])
    <3>1. InOrder(stat[c], n, checkpoint.gstep, checkpoint.time, checkpoint.sPos[c])
      BY DEF StatCutLeaves
    <3>2. StatDumpFreq # 0
      BY <1>2
    <3> QED BY <2>3, <3>1, <3>2 DEF InOrder
  <2> QED BY <2>1, <2>3, <2>4, <2>5 DEF StatCutLeaves
<1> QED BY <1>1, <1>2

\* What rewindLinesSDDS leaves of a statistics file.
LEMMA StatRewound ==
    ASSUME NEW c \in Loaded, NEW n \in Nat, stat[c] \in Seq(Records), StatCutLeaves(c, n),
           LoopInv, checkpoint # NoCheckpoint
    PROVE  /\ rewoundStat(c) \in Seq(Records) /\ Len(rewoundStat(c)) = n
           /\ \A i \in 1 .. n : rewoundStat(c)[i] = stat[c][i]
<1>1. checkpoint.sPos[c] \in Int /\ n \in 0 .. Len(stat[c])
  BY CheckpointType DEF StatCutLeaves
<1>2. \A i \in 1 .. n : /\ stat[c][i].s <= checkpoint.sPos[c]
                        /\ i > 1 => stat[c][i].time > stat[c][i - 1].time
  BY DEF StatCutLeaves, InOrder
<1>3. n < Len(stat[c]) => stat[c][n + 1].s > checkpoint.sPos[c]
  BY DEF StatCutLeaves
<1>4. rewindLinesSDDS(stat[c], checkpoint.sPos[c]) = SubSeq(stat[c], 1, n)
  BY <1>1, <1>2, <1>3, LinesRewound
<1>5. rewoundStat(c) = SubSeq(stat[c], 1, n)
  BY <1>4 DEF rewoundStat
<1> QED BY <1>1, <1>5

\* A file that has been cut back, or is being written again, stays as a further cut
\* would leave it.
LEMMA StatCutTwice ==
    ASSUME NEW c \in Loaded, NEW n \in Nat, stat[c] \in Seq(Records), StatCutLeaves(c, n),
           LoopInv, checkpoint # NoCheckpoint, checkpoint' = checkpoint,
           \/ stat'[c] = rewoundStat(c)
           \/ \E m \in 0 .. Len(rewoundStat(c)) : stat'[c] = SubSeq(rewoundStat(c), 1, m)
    PROVE  stat'[c] \in Seq(Records) /\ StatCutLeaves(c, Len(stat[c]))'
<1>1. /\ rewoundStat(c) \in Seq(Records) /\ Len(rewoundStat(c)) = n
      /\ \A i \in 1 .. n : rewoundStat(c)[i] = stat[c][i]
  BY StatRewound
<1>2. PICK m \in 0 .. n : stat'[c] = SubSeq(rewoundStat(c), 1, m)
  <2>1. rewoundStat(c) = SubSeq(rewoundStat(c), 1, n)
    BY <1>1
  <2> QED BY <1>1, <2>1
<1>3. /\ stat'[c] \in Seq(Records) /\ Len(stat'[c]) = m
      /\ \A i \in 1 .. m : stat'[c][i] = stat[c][i]
  BY <1>1, <1>2
<1>4. InOrder(stat'[c], m, checkpoint.gstep, checkpoint.time, checkpoint.sPos[c])
  <2>1. InOrder(stat[c], n, checkpoint.gstep, checkpoint.time, checkpoint.sPos[c])
    BY DEF StatCutLeaves
  <2>2. \A i \in 1 .. m : i \in 1 .. n /\ (i > 1 => i - 1 \in 1 .. m)
    OBVIOUS
  <2>3. StatDumpFreq = 0 => stat'[c] = <<>>
    <3>1. stat[c] = <<>> => m = 0
      BY DEF StatCutLeaves
    <3>2. m = 0 => stat'[c] = <<>>
      BY <1>3
    <3>3. StatDumpFreq = 0 => stat[c] = <<>>
      BY <2>1 DEF InOrder
    <3> QED BY <3>1, <3>2, <3>3
  <2> DEFINE old == stat[c]
             new == stat'[c]
  <2>4. \A i \in 1 .. m :
          /\ old[i].step \in 1 .. checkpoint.gstep /\ old[i].step % StatDumpFreq = 0
          /\ old[i].time <= checkpoint.time /\ old[i].s <= checkpoint.sPos[c]
          /\ i > 1 => old[i].step > old[i - 1].step /\ old[i].time > old[i - 1].time
    BY <2>1, <2>2 DEF InOrder
  <2>5. \A i \in 1 .. m : new[i] = old[i] /\ (i > 1 => new[i - 1] = old[i - 1])
    BY <1>3, <2>2
  <2> HIDE DEF old, new
  <2>6. \A i \in 1 .. m :
          /\ new[i].step \in 1 .. checkpoint.gstep /\ new[i].step % StatDumpFreq = 0
          /\ new[i].time <= checkpoint.time /\ new[i].s <= checkpoint.sPos[c]
          /\ i > 1 => new[i].step > new[i - 1].step /\ new[i].time > new[i - 1].time
    BY <2>4, <2>5
  <2> QED BY <2>3, <2>6, Zenon DEF InOrder, new
<1>5. m \in 0 .. Len(stat'[c]) /\ ~(m < Len(stat'[c]))
  BY <1>3
<1> QED BY <1>3, <1>4, <1>5 DEF StatCutLeaves

\* A step, completed or killed, keeps what a cut leaves, or its checkpoint names it.
LEMMA StatCutAfterStep ==
    ASSUME LoadedBeams, OneSpeed, LoopInv, BeamsInv, TogetherInv, PathInv,
           DumpingStep \/ KilledInStep, NEW c \in Populated, c \in Populated',
           StatisticsInv, Resumable'
    PROVE  stat'[c] \in Seq(Records) /\ \E n \in Nat : StatCutLeaves(c, n)'
<1>1. /\ IntegrationStep /\ phase = "step" /\ Tracking
      /\ gstep' \in Nat /\ time' \in Int /\ sPos' \in [Containers -> Int]
  BY StepTypes DEF DumpingStep, TimeStep, KilledInStep, Tracking
<1>2. c \in Loaded /\ c \in Containers
  BY DEF Populated, BeamsInv
<1>3. CASE checkpoint' = checkpoint
  <2>1. Resumable /\ checkpoint # NoCheckpoint /\ c \in checkpoint.nonEmpty
    BY <1>3 DEF Resumable, Populated
  <2>2. PICK n \in Nat : stat[c] \in Seq(Records) /\ StatCutLeaves(c, n)
    BY <1>1, <2>1 DEF StatisticsInv
  <2>3. checkpoint.sPos[c] < sPos'[c] /\ checkpoint.sPos[c] \in Int
    BY <1>1, <2>1, StepGrows
  <2> DEFINE r == record(c, gstep', time', sPos')
  <2>4. r \in Records /\ checkpoint.sPos[c] < r.s
    <3>1. r \in Records
      BY <1>1, <1>2, RecordType
    <3>2. r.s = sPos'[c]
      BY DEF record
    <3> QED BY <2>3, <3>1, <3>2
  <2>5. stat'[c] = stat[c] \/ (stat'[c] = Append(stat[c], r) /\ StatDumpFreq > 0)
    <3>1. DumpingStep \/ KilledInStep \/ KilledInFinalDump
      OBVIOUS
    <3> QED BY <1>2, <3>1, StatAppended, Zenon
  <2> HIDE DEF r
  <2>6. stat'[c] \in Seq(Records) /\ StatCutLeaves(c, n)'
    BY <1>2, <1>3, <2>2, <2>3, <2>4, <2>5, StatCutAppend
  <2> QED BY <2>2, <2>6
<1>4. CASE checkpoint' # checkpoint
  <2>1. DumpingStep /\ TimeStep
    BY <1>4 DEF DumpingStep, KilledInStep
  <2>2. checkpoint'.gstep = gstep' /\ checkpoint'.time = time' /\ checkpoint'.sPos = sPos'
    BY <1>4, <2>1, SavedBeams
  <2>3. /\ stat'[c] \in Seq(Records)
        /\ InOrder(stat'[c], Len(stat'[c]), gstep', time', sPos'[c])
    BY <1>1, <1>2, <2>1, StatDumped DEF StatisticsInv
  <2>4. /\ Len(stat'[c]) \in Nat /\ Len(stat'[c]) \in 0 .. Len(stat'[c])
        /\ ~(Len(stat'[c]) < Len(stat'[c]))
    BY <2>3
  <2>5. StatCutLeaves(c, Len(stat[c]))'
    BY <2>2, <2>3, <2>4 DEF StatCutLeaves
  <2> QED BY <2>3, <2>4, <2>5
<1> QED BY <1>3, <1>4

\* What a restart leaves in the statistics file.
LEMMA StatRestarted ==
    ASSUME LoadedBeams, LoopInv, BeamsInv, RestartRun, phase' = "segment",
           NEW c \in checkpoint.nonEmpty, StatisticsInv
    PROVE  /\ stat'[c] \in Seq(Records)
           /\ InOrder(stat'[c], Len(stat'[c]), gstep', time', sPos'[c])
           /\ \E n \in Nat : StatCutLeaves(c, n)'
<1>1. /\ phase = "interrupted" /\ checkpoint' = checkpoint /\ checkpoint # NoCheckpoint
      /\ acceptsRestart(checkpoint) /\ ~reachedEnd(checkpoint.segment)
      /\ gstep' = checkpoint.gstep /\ time' = checkpoint.time /\ sPos' = checkpoint.sPos
  BY LoadedStart DEF RestartRun
<1>2. c \in Loaded /\ c \in Containers /\ c \in Populated
  BY <1>1 DEF BeamsInv, Populated
<1>3. PICK n \in Nat : stat[c] \in Seq(Records) /\ StatCutLeaves(c, n)
  BY <1>1, <1>2 DEF StatisticsInv, Resumable
<1>4. stat'[c] = rewoundStat(c)
  BY <1>2 DEF RestartRun, rewindToCheckpoint
<1>5. stat'[c] \in Seq(Records) /\ StatCutLeaves(c, Len(stat[c]))'
  BY <1>1, <1>2, <1>3, <1>4, StatCutTwice
<1>6. InOrder(stat'[c], Len(stat'[c]), gstep', time', sPos'[c])
  BY <1>1, <1>5 DEF StatCutLeaves
<1>7. Len(stat'[c]) \in Nat
  BY <1>5
<1> QED BY <1>5, <1>6, <1>7

\* A killed final dump keeps what a cut leaves.
LEMMA StatFinalDumpKilled ==
    ASSUME LoopInv, BeamsInv, GoesOnInv, PathInv, LeavesForGood, KilledInFinalDump, Resumable,
           NEW c \in checkpoint.nonEmpty, StatisticsInv
    PROVE  stat'[c] \in Seq(Records) /\ \E n \in Nat : StatCutLeaves(c, n)'
<1>1. /\ phase \in {"segment", "step"} /\ Tracking /\ checkpoint' = checkpoint
      /\ gstep' = gstep /\ time' = time /\ sPos' = sPos
  BY DEF KilledInFinalDump, clock, bunch, Tracking
<1>2. /\ c \in Loaded /\ c \in Containers /\ c \in Populated
      /\ checkpoint # NoCheckpoint /\ checkpoint.nonEmpty # {}
  BY DEF Resumable, BeamsInv, Populated
<1>3. PICK n \in Nat : stat[c] \in Seq(Records) /\ StatCutLeaves(c, n)
  BY <1>1, <1>2 DEF StatisticsInv
<1> DEFINE r == record(c, gstep', time', sPos')
<1>4. checkpoint.sPos[c] < sPos'[c] /\ checkpoint.sPos[c] \in Int
  <2>1. checkpoint.gstep < gstep
    BY <1>2, FinalDumpIsLater
  <2> QED BY <1>1, <1>2, <2>1, CheckpointType DEF PathInv
<1>5. r \in Records /\ checkpoint.sPos[c] < r.s
  <2>1. gstep' \in Nat /\ time' \in Int /\ sPos' \in [Containers -> Int]
    BY <1>1 DEF LoopInv, TypeInv, TypeOK
  <2>2. r \in Records
    BY <1>2, <2>1, RecordType
  <2>3. r.s = sPos'[c]
    BY DEF record
  <2> QED BY <1>4, <2>2, <2>3
<1>6. stat'[c] = stat[c] \/ (stat'[c] = Append(stat[c], r) /\ StatDumpFreq > 0)
  <2>1. DumpingStep \/ KilledInStep \/ KilledInFinalDump
    OBVIOUS
  <2> QED BY <1>2, <2>1, StatAppended, Zenon
<1> HIDE DEF r
<1>7. stat'[c] \in Seq(Records) /\ StatCutLeaves(c, n)'
  BY <1>1, <1>2, <1>3, <1>4, <1>5, <1>6, StatCutAppend
<1> QED BY <1>3, <1>7

\* Cutting the files back, in full or in part, can be repeated.
LEMMA StatRewindKilled ==
    ASSUME LoopInv, BeamsInv, KilledInPhaseSpaceRewind \/ KilledInStatisticsRewind,
           NEW c \in checkpoint.nonEmpty, StatisticsInv, Resumable
    PROVE  stat'[c] \in Seq(Records) /\ \E n \in Nat : StatCutLeaves(c, n)'
<1>1. phase = "interrupted" /\ checkpoint' = checkpoint /\ checkpoint # NoCheckpoint
  BY DEF KilledInPhaseSpaceRewind, KilledInStatisticsRewind, KilledInRewind
<1>2. c \in Loaded /\ c \in Containers /\ c \in Populated
  BY <1>1 DEF BeamsInv, Populated
<1>3. PICK n \in Nat : stat[c] \in Seq(Records) /\ StatCutLeaves(c, n)
  BY <1>1, <1>2 DEF StatisticsInv
<1>4. \/ stat'[c] = stat[c]
      \/ stat'[c] = rewoundStat(c)
      \/ \E m \in 0 .. Len(rewoundStat(c)) : stat'[c] = SubSeq(rewoundStat(c), 1, m)
  <2>1. CASE KilledInPhaseSpaceRewind
    BY <2>1 DEF KilledInPhaseSpaceRewind
  <2>2. CASE KilledInStatisticsRewind
    <3>1. PICK b \in Containers, done \in SUBSET Containers :
            \E m \in 0 .. Len(rewoundStat(b)) :
               stat' = [d \in Containers |->
                          IF d = b THEN SubSeq(rewoundStat(b), 1, m)
                          ELSE IF d \in done THEN rewoundStat(d) ELSE stat[d]]
      BY <2>2 DEF KilledInStatisticsRewind
    <3>2. PICK m \in 0 .. Len(rewoundStat(b)) :
            stat' = [d \in Containers |->
                       IF d = b THEN SubSeq(rewoundStat(b), 1, m)
                       ELSE IF d \in done THEN rewoundStat(d) ELSE stat[d]]
      BY <3>1
    <3>3. stat'[c] = IF c = b THEN SubSeq(rewoundStat(b), 1, m)
                     ELSE IF c \in done THEN rewoundStat(c) ELSE stat[c]
      BY <1>2, <3>2
    <3> QED BY <3>3
  <2> QED BY <2>1, <2>2
<1>5. CASE stat'[c] = stat[c]
  BY <1>1, <1>3, <1>5 DEF StatCutLeaves
<1>6. CASE stat'[c] # stat[c]
  <2>1. stat'[c] \in Seq(Records) /\ StatCutLeaves(c, Len(stat[c]))'
    BY <1>1, <1>2, <1>3, <1>4, <1>6, StatCutTwice
  <2>2. Len(stat'[c]) \in Nat
    BY <2>1
  <2> QED BY <2>1, <2>2
<1> QED BY <1>5, <1>6

\* The statistics files follow the run, and would after a restart.
LEMMA NextStatistics ==
    ASSUME LoadedBeams, OneSpeed, LoopInv, BeamsInv, TogetherInv, GoesOnInv, PathInv,
           LeavesForGood, StatisticsInv, [OutNext]_<<vars, files>>
    PROVE  StatisticsInv'
<1> SUFFICES ASSUME NEW c \in Populated'
             PROVE  /\ Tracking' =>
                         /\ stat'[c] \in Seq(Records)
                         /\ InOrder(stat'[c], Len(stat'[c]), gstep', time', sPos'[c])
                    /\ (phase' \in {"segment", "step", "interrupted"} /\ Resumable') =>
                         stat'[c] \in Seq(Records) /\ \E n \in Nat : StatCutLeaves(c, n)'
  BY DEF StatisticsInv
<1>1. CASE StartRun
  <2>1. c \in Loaded /\ c \in Containers /\ ~Resumable'
    BY <1>1, LoadedStart DEF StartRun, Populated, Resumable
  <2>2. stat'[c] = <<>>
    BY <1>1, <2>1 DEF StartRun, NoFiles
  <2>3. <<>> \in Seq(Records) /\ Len(<<>>) = 0 /\ \A i \in 1 .. 0 : FALSE
    OBVIOUS
  <2> QED BY <2>1, <2>2, <2>3 DEF InOrder
<1>2. CASE RestartRun
  <2>1. phase' \in {"segment", "finished"} /\ c \in checkpoint.nonEmpty
    BY <1>2, LoadedStart DEF RestartRun, Populated
  <2>2. CASE phase' = "segment"
    BY <1>2, <2>1, <2>2, StatRestarted
  <2>3. CASE phase' = "finished"
    BY <2>3 DEF Tracking
  <2> QED BY <2>1, <2>2, <2>3
<1>3. CASE DumpingStep
  <2>1. phase = "step" /\ Tracking /\ IntegrationStep /\ TimeStep
    BY <1>3, StepTypes DEF DumpingStep, TimeStep, Tracking
  <2>2. c \in Populated /\ c \in Loaded
    <3>1. nonEmpty' \subseteq nonEmpty
      BY <2>1, LoadedStep
    <3>2. checkpoint' = checkpoint \/ checkpoint'.nonEmpty = nonEmpty'
      BY <2>1, SavedBeams
    <3> QED BY <2>1, <3>1, <3>2 DEF Populated, BeamsInv
  <2>3. /\ stat'[c] \in Seq(Records)
        /\ InOrder(stat'[c], Len(stat'[c]), gstep', time', sPos'[c])
    BY <1>3, <2>1, <2>2, StatDumped DEF StatisticsInv
  <2> QED BY <1>3, <2>2, <2>3, StatCutAfterStep
<1>4. CASE KilledInStep
  <2>1. ~Tracking' /\ checkpoint' = checkpoint
    BY <1>4, KilledStep
  <2>2. Resumable' => c \in Populated
    BY <2>1 DEF Resumable, Populated
  <2> QED BY <1>4, <2>1, <2>2, StatCutAfterStep
<1>5. CASE KilledInFinalDump
  <2>1. ~Tracking' /\ (Resumable' => Resumable /\ c \in checkpoint.nonEmpty)
    BY <1>5 DEF KilledInFinalDump, Tracking, Resumable, Populated
  <2> QED BY <1>5, <2>1, StatFinalDumpKilled
<1>6. CASE KilledInPhaseSpaceRewind \/ KilledInStatisticsRewind
  <2>1. ~Tracking' /\ (Resumable' => Resumable /\ c \in checkpoint.nonEmpty)
    BY <1>6 DEF KilledInPhaseSpaceRewind, KilledInStatisticsRewind, KilledInRewind,
                Tracking, Resumable, Populated
  <2> QED BY <1>6, <2>1, StatRewindKilled
<1>7. CASE phase' \in {"finished", "refused"}
  BY <1>7 DEF Tracking
<1>8. CASE HarmlessStep
  <2>1. /\ Tracking' => Tracking
        /\ UNCHANGED <<gstep, time, sPos, checkpoint, stat>> /\ (Resumable' <=> Resumable)
        /\ c \in Populated
    BY <1>8 DEF HarmlessStep, files, Resumable, Populated
  <2>2. phase' \in {"segment", "step", "interrupted"} =>
          phase \in {"segment", "step", "interrupted"}
    BY <1>8 DEF HarmlessStep, Tracking
  <2>3. ASSUME NEW n \in Nat, StatCutLeaves(c, n) PROVE StatCutLeaves(c, n)'
    BY <2>1, <2>3 DEF StatCutLeaves
  <2> QED BY <2>1, <2>2, <2>3 DEF StatisticsInv
<1> QED BY <1>1, <1>2, <1>3, <1>4, <1>5, <1>6, <1>7, <1>8, FileSteps

\* A multiple of the dump frequency up to the step count is due.
LEMMA MultipleIsDue ==
    ASSUME NEW f \in Nat \ {0}, NEW g \in Nat, NEW k \in 1 .. g, k % f = 0
    PROVE  k \in Range(dueSteps(f, g))
<1> DEFINE i == k \div f
           r == k % f
<1>1. i \in Nat /\ k = i * f + r /\ r = 0 /\ k \in Nat \ {0} /\ k <= g
  OBVIOUS
<1> HIDE DEF i, r
<1>2. i * f = k /\ i * f \in Nat
  BY <1>1
<1>3. i # 0
  BY <1>1, <1>2
<1> DEFINE n == g \div f
<1>4. n \in Nat /\ i <= n
  <2>1. i * f <= g
    BY <1>1, <1>2
  <2>2. n = g \div f
    OBVIOUS
  <2> HIDE DEF n
  <2> QED BY <1>1, <2>1, <2>2, MultiplesUpTo
<1>5. dueSteps(f, g) = [j \in 1 .. n |-> j * f]
  BY DEF dueSteps
<1> HIDE DEF n
<1>6. i \in 1 .. n
  BY <1>1, <1>3, <1>4
<1>7. i \in DOMAIN dueSteps(f, g) /\ dueSteps(f, g)[i] = k
  BY <1>2, <1>5, <1>6
<1> QED BY <1>7 DEF Range

\* However often the job is killed and restarted, a container that holds particles has
\* one row at most of a step in its statistics file, in order, and only of steps that
\* were due and not lost. It holds for every schedule and frequency, if all beams have
\* one velocity, the clock does not start before zero, where reference particles stand
\* still, and no two segments of one DT follow each other where the lattice ends.
THEOREM StatisticsCorrect ==
    ASSUME LoadedBeams, OneSpeed, StartTime >= 0
    PROVE  OutSpec /\ []LeavesForGood => []StatisticsNeverRepeat
<1> DEFINE Inv == LoopInv /\ BeamsInv /\ ResumesMoving
           FileInv == TogetherInv /\ GoesOnInv /\ PathInv /\ StatisticsInv
<1>1. OutSpec => []Inv
  BY BeamsInvariant, MovesAgainInvariant, PTL
<1>2. OutInit => FileInv
  BY DEF OutInit, Init, TogetherInv, GoesOnInv, PathInv, StatisticsInv, Populated, Tracking,
         FlagsInUse
<1>3. Inv /\ LeavesForGood /\ FileInv /\ [OutNext]_<<vars, files>> => FileInv'
  BY NextTogether, NextGoesOn, NextPath, NextStatistics
<1>4. Inv /\ FileInv => StatisticsNeverRepeat
  <2> SUFFICES ASSUME Inv, FileInv, Tracking, NEW c \in Loaded \cap nonEmpty,
                      NEW i \in DOMAIN stat[c]
               PROVE  /\ i > 1 => stat[c][i].step > stat[c][i - 1].step
                      /\ stat[c][i].step \in Range(dueSteps(StatDumpFreq, gstep))
    BY DEF StatisticsNeverRepeat
  <2>1. c \in Populated
    BY DEF BeamsInv, Populated
  <2>2. stat[c] \in Seq(Records) /\ InOrder(stat[c], Len(stat[c]), gstep, time, sPos[c])
    BY <2>1 DEF StatisticsInv
  <2>3. i \in 1 .. Len(stat[c])
    BY <2>2
  <2>4. StatDumpFreq \in Nat \ {0}
    BY <2>2, <2>3 DEF InOrder
  <2>5. gstep \in Nat
    BY DEF LoopInv, TypeInv, TypeOK
  <2>6. stat[c][i].step \in 1 .. gstep /\ stat[c][i].step % StatDumpFreq = 0
    BY <2>2, <2>3 DEF InOrder
  <2>7. stat[c][i].step \in Range(dueSteps(StatDumpFreq, gstep))
    BY <2>4, <2>5, <2>6, MultipleIsDue
  <2> QED BY <2>2, <2>3, <2>7 DEF InOrder
<1> HIDE DEF Inv, FileInv
<1> QED BY <1>1, <1>2, <1>3, <1>4, PTL DEF OutSpec
=============================================================================
