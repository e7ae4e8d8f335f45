------------------------ MODULE ParallelTracker_proofs ------------------------
(* Theorems about ParallelTracker for every schedule, set of beams and       *)
(* checkpoint frequency.                                                    *)
EXTENDS ParallelTracker, TLAPS

USE ScheduleAssumption, TrackerAssumption

-----------------------------------------------------------------------------
(* Facts about the operators.                                               *)

\* Every time step, of a segment or of an emission source, is positive.
LEMMA TimeStepsPositive == TimeSteps \subseteq Nat \ {0}
BY DEF TimeSteps, EmissionSteps, Segments

\* A job starts with the time step of the first segment.
LEMMA FirstTimeStep == SegmentDt[0] \in TimeSteps
<1>1. 0 \in Segments
  BY DEF Segments
<1> QED BY <1>1 DEF TimeSteps

\* The schedule grants every segment a natural number of steps.
LEMMA NumStepsNat == \A i \in Segments : getNumSteps(i) \in Nat
BY DEF getNumSteps, Segments, Indices

\* The products in a path length are integers.
LEMMA ProductInt == \A a, b \in Int : a * b \in Int
OBVIOUS

\* Advancing the references keeps integer path lengths.
LEMMA ReferenceType ==
    ASSUME sPos \in [Containers -> Int], NEW t \in Int, NEW d \in Nat, NEW A
    PROVE  updateReference(t, d, A) \in [Containers -> Int]
<1> DEFINE advance == IF t <= 0 THEN 0 ELSE IF t < d THEN t ELSE d
<1>1. advance \in Int
  OBVIOUS
<1>2. \A c \in Containers : advance * Speed[Root[c]] \in Int
  BY <1>1, ProductInt
<1>3. \A c \in Containers :
        sPos[Root[c]] + (IF referenceMoves(Root[c], A)
                         THEN advance * Speed[Root[c]] ELSE 0) \in Int
  <2> HIDE DEF advance
  <2> QED BY <1>2
<1> QED BY <1>3 DEF updateReference

-----------------------------------------------------------------------------
(* Type correctness.                                                        *)

\* The initial state is well typed.
LEMMA InitType == Init => TypeOK
<1> SUFFICES ASSUME Init PROVE TypeOK
  OBVIOUS
<1>1. dt \in TimeSteps
  BY FirstTimeStep DEF Init
<1>2. segment \in Indices /\ stepsDone \in Nat /\ gstep \in Nat /\ time \in Int
  BY DEF Init, Indices
<1>3. sPos \in [Containers -> Int]
  BY DEF Init
<1>4. checkpoint \in Snapshots \cup {NoCheckpoint}
  BY DEF Init
<1>5. crashes \in 0 .. MaxCrashes
  BY DEF Init
<1> QED BY <1>1, <1>2, <1>3, <1>4, <1>5 DEF Init, TypeOK

\* What a step does to the containers, its choices forgotten.
LEMMA PushEffect ==
    ASSUME TypeOK, time' \in Int, dt' \in Nat,
           NEW emitted \in SUBSET (Emitting(time, spent) \ atSStop),
           NEW decayed \in SUBSET Decaying, NEW exhausted, NEW lost,
           Push(emitted, decayed, exhausted, lost)
    PROVE  /\ nonEmpty' \subseteq Containers
           /\ active' \subseteq Containers
           /\ atSStop' \subseteq Containers
           /\ sPos' \in [Containers -> Int]
           /\ globalEOL' \in BOOLEAN
<1> DEFINE filled == nonEmpty \cup emitted
           bred   == filled \cup {Daughter[p] : p \in decayed}
           live   == refreshed(active, filled)
           moving == IF decayed = {} THEN live ELSE refreshed(live, bred)
           stopping == stopsAfter(moving, sPos', dt')
<1>1. /\ nonEmpty' = (bred \ exhausted) \ lost
      /\ sPos' = updateReference(time', dt', moving)
      /\ globalEOL' = (\E c \in moving : sPos'[c] > LatticeEnd)
      /\ active' = moving \ stopping
      /\ atSStop' = atSStop \cup stopping
  BY DEF Push, refreshedAfterDecay
<1>2. filled \subseteq Containers
  BY DEF TypeOK, Emitting
<1>3. bred \subseteq Containers
  BY <1>2
<1>4. live \subseteq Containers
  BY <1>2 DEF TypeOK, refreshed
<1>5. moving \subseteq Containers
  BY <1>3, <1>4 DEF refreshed
<1>6. stopping \subseteq moving
  BY DEF stopsAfter
<1>7. sPos' \in [Containers -> Int]
  BY <1>1, ReferenceType DEF TypeOK
<1>8. globalEOL' \in BOOLEAN
  BY <1>1
<1> HIDE DEF bred, moving, stopping
<1> QED BY <1>1, <1>3, <1>5, <1>6, <1>7, <1>8 DEF TypeOK

\* What one pass through the inner loop does before its checkpoint, its choices
\* forgotten.
LEMMA IntegrationEffect ==
    ASSUME TypeOK, IntegrationStep
    PROVE  /\ phase = "step" /\ UNCHANGED <<segment, resuming>>
           /\ stepsDone < getNumSteps(segment) /\ active # {}
           /\ dt' \in TimeSteps /\ time' = time + dt' /\ time' \in Int
           /\ gstep' = gstep + 1 /\ stepsDone' = stepsDone + 1
           /\ spent' \subseteq Inventory
           /\ nonEmpty' \subseteq Containers
           /\ active' \subseteq Containers
           /\ atSStop' \subseteq Containers
           /\ sPos' \in [Containers -> Int]
           /\ globalEOL' \in BOOLEAN
<1>1. /\ phase = "step" /\ UNCHANGED <<segment, resuming>>
      /\ stepsDone < getNumSteps(segment) /\ active # {}
      /\ dt' \in TimeSteps /\ time' = time + dt'
      /\ gstep' = gstep + 1 /\ stepsDone' = stepsDone + 1
  BY DEF IntegrationStep
<1>2. time' \in Int /\ dt' \in Nat
  BY <1>1, TimeStepsPositive DEF TypeOK
<1>3. PICK emitted \in SUBSET (Emitting(time, spent) \ atSStop), decayed \in SUBSET Decaying,
           lost \in SUBSET Containers, exhausted \in SUBSET Decaying :
        Push(emitted, decayed, exhausted, lost)
  BY DEF IntegrationStep
<1>4. spent' \subseteq Inventory
  BY DEF IntegrationStep, TypeOK
<1> QED BY <1>1, <1>2, <1>3, <1>4, PushEffect

\* The same with its checkpoint.
LEMMA TimeStepEffect ==
    ASSUME TypeOK, TimeStep
    PROVE  /\ phase = "step" /\ phase' = "step"
           /\ UNCHANGED <<segment, resuming, crashes>>
           /\ stepsDone < getNumSteps(segment) /\ active # {}
           /\ dt' \in TimeSteps /\ time' = time + dt'
           /\ gstep' = gstep + 1 /\ stepsDone' = stepsDone + 1
           /\ spent' \subseteq Inventory
           /\ nonEmpty' \subseteq Containers
           /\ active' \subseteq Containers
           /\ atSStop' \subseteq Containers
           /\ sPos' \in [Containers -> Int]
           /\ globalEOL' \in BOOLEAN
           /\ WriteCheckpoint
<1>1. IntegrationStep /\ WriteCheckpoint /\ UNCHANGED <<phase, crashes>>
  BY DEF TimeStep
<1> QED BY <1>1, IntegrationEffect

\* A step writes either no checkpoint or a snapshot of the state it reaches,
\* placed in the current segment or at the start of the next one.
LEMMA WriteCheckpointEffect ==
    ASSUME TypeOK, TimeStep
    PROVE  \/ checkpoint' = checkpoint /\ ~checkpointDue(gstep')
           \/ /\ checkpointDue(gstep')
              /\ stepsDone' # getNumSteps(segment) /\ active' # {}
              /\ checkpoint' = snapshot(gstep', time', dt', segment, stepsDone',
                                  nonEmpty', atSStop', sPos', active')
           \/ /\ checkpointDue(gstep')
              /\ stepsDone' = getNumSteps(segment) \/ active' = {}
              /\ checkpoint' = snapshot(gstep', time', dt', segment + 1, 0,
                                  nonEmpty', atSStop', sPos', active')
<1>1. WriteCheckpoint
  BY TimeStepEffect
<1> QED BY <1>1 DEF WriteCheckpoint, nextSegment, nextSegmentSteps, segmentComplete

\* A snapshot of well-typed values is a well-typed checkpoint.
LEMMA SnapshotType ==
    ASSUME NEW g \in Nat, NEW t \in Int, NEW d \in TimeSteps, NEW seg \in Indices,
           NEW steps \in Nat, NEW populated \in SUBSET Containers,
           NEW stopped \in SUBSET Containers, NEW s \in [Containers -> Int],
           NEW live \in SUBSET Containers
    PROVE  snapshot(g, t, d, seg, steps, populated, stopped, s, live) \in Snapshots
BY DEF snapshot, Snapshots

\* No snapshot is mistaken for a missing checkpoint.
LEMMA NoCheckpointIsNoSnapshot == NoCheckpoint \notin Snapshots
<1> SUFFICES ASSUME NoCheckpoint \in Snapshots PROVE FALSE
  OBVIOUS
<1>1. NoCheckpoint.gstep \in Nat
  BY DEF Snapshots
<1>2. NoCheckpoint.gstep = -1
  BY DEF NoCheckpoint
<1> QED BY <1>1, <1>2

\* The invariant behind TypeOK: steps are taken in segments of the schedule only,
\* never at its end.
TypeInv == TypeOK /\ (phase = "step" => segment \in Segments)

\* A segment of the schedule has a successor position.
LEMMA NextIndex == \A i \in Segments : i \in Indices /\ i + 1 \in Indices
BY DEF Segments, Indices

\* Every step keeps the types.
LEMMA NextType == TypeInv /\ [Next]_vars => TypeInv'
<1> SUFFICES ASSUME TypeInv, [Next]_vars PROVE TypeInv'
  OBVIOUS
<1> USE DEF TypeInv
<1>1. CASE FreshStart
  <2>1. segment' \in Indices
    BY <1>1, NextIndex DEF FreshStart
  <2>2. dt' \in TimeSteps
    BY <1>1, FirstTimeStep DEF FreshStart
  <2>3. active' \subseteq Containers
    BY <1>1 DEF FreshStart, Emitting
  <2>4. sPos' \in [Containers -> Int]
    BY <1>1 DEF FreshStart
  <2> QED BY <1>1, <2>1, <2>2, <2>3, <2>4 DEF FreshStart, TypeOK
<1>2. CASE Restart
  <2>1. checkpoint \in Snapshots
    BY <1>2 DEF Restart, TypeOK
  <2>2. /\ checkpoint.gstep \in Nat /\ checkpoint.time \in Int
        /\ checkpoint.dt \in TimeSteps /\ checkpoint.segment \in Indices
        /\ checkpoint.stepsDone \in Nat /\ checkpoint.nonEmpty \subseteq Containers
        /\ checkpoint.atSStop \subseteq Containers
        /\ checkpoint.sPos \in [Containers -> Int]
    BY <2>1 DEF Snapshots
  <2>3. active' \subseteq Containers /\ atSStop' \subseteq Containers
    BY <1>2, <2>2 DEF Restart, resumedActive, resumedAtSStop
  <2> QED BY <1>2, <2>2, <2>3 DEF Restart, TypeOK
<1>3. CASE RefuseRestart
  BY <1>3 DEF RefuseRestart, TypeOK, position, clock, bunch
<1>4. CASE BeginSegment
  <2>1. segment' \in Segments
    BY <1>4 DEF BeginSegment, resetPcActive, TypeOK, reachedEnd, Segments, Indices
  <2> QED BY <1>4, <2>1 DEF BeginSegment, resetPcActive, TypeOK, Emitting
<1>5. CASE TimeStep
  <2>1. time' \in Int
    <3>1. dt' \in TimeSteps /\ time' = time + dt'
      BY <1>5, TimeStepEffect
    <3> QED BY <3>1, TimeStepsPositive DEF TypeOK
  <2>2. segment \in Segments /\ segment + 1 \in Indices /\ segment \in Indices
    BY <1>5, TimeStepEffect, NextIndex
  <2>3. gstep' \in Nat /\ stepsDone' \in Nat
    BY <1>5, TimeStepEffect DEF TypeOK
  <2>4. checkpoint' \in Snapshots \cup {NoCheckpoint}
    <3>1. CASE checkpoint' = checkpoint
      BY <3>1 DEF TypeOK
    <3>2. CASE checkpoint' = snapshot(gstep', time', dt', segment, stepsDone',
                               nonEmpty', atSStop', sPos', active')
      BY <1>5, <2>1, <2>2, <2>3, <3>2, TimeStepEffect, SnapshotType
    <3>3. CASE checkpoint' = snapshot(gstep', time', dt', segment + 1, 0,
                               nonEmpty', atSStop', sPos', active')
      BY <1>5, <2>1, <2>2, <2>3, <3>3, TimeStepEffect, SnapshotType
    <3> QED BY <1>5, <3>1, <3>2, <3>3, WriteCheckpointEffect
  <2>5. /\ phase' = "step" /\ segment' = segment /\ resuming' \in BOOLEAN
        /\ dt' \in TimeSteps /\ crashes' \in 0 .. MaxCrashes
    BY <1>5, TimeStepEffect DEF TypeOK
  <2>6. /\ spent' \subseteq Inventory
        /\ nonEmpty' \subseteq Containers /\ active' \subseteq Containers
        /\ atSStop' \subseteq Containers /\ sPos' \in [Containers -> Int]
        /\ globalEOL' \in BOOLEAN
    BY <1>5, TimeStepEffect
  <2> QED BY <2>1, <2>2, <2>3, <2>4, <2>5, <2>6 DEF TypeOK
<1>6. CASE LeaveSegment
  <2>1. segment' \in Indices /\ stepsDone' \in Nat
    BY <1>6, NextIndex DEF LeaveSegment, innerLoopDone, TypeOK
  <2> QED BY <1>6, <2>1 DEF LeaveSegment, innerLoopDone, TypeOK, clock, bunch
<1>7. CASE EndOfSchedule
  BY <1>7 DEF EndOfSchedule, TypeOK, position, clock, bunch
<1>8. CASE Crash
  BY <1>8 DEF Crash, TypeOK, position, clock, bunch
<1>9. CASE UNCHANGED vars
  BY <1>9 DEF vars, TypeOK, position, clock, bunch
<1> QED BY <1>1, <1>2, <1>3, <1>4, <1>5, <1>6, <1>7, <1>8, <1>9 DEF Next, Run

\* The invariant of TypeInv holds in every reachable state.
LEMMA TypeInvariant == Spec => []TypeInv
<1>1. Init => TypeInv
  BY InitType DEF Init, TypeInv
<1> QED BY <1>1, NextType, PTL DEF Spec

\* Every reachable state of the tracker is well typed: in particular the segment
\* iterator stays within the schedule, also after a restart and after segments
\* without steps, so it is never dereferenced at the end of the list.
THEOREM TypeCorrect == Spec => []TypeOK
<1>1. TypeInv => TypeOK
  BY DEF TypeInv
<1> QED BY <1>1, TypeInvariant, PTL

-----------------------------------------------------------------------------
(* The step budget.                                                         *)

\* A position of the schedule reached after g steps.
PositionOK(g, seg, steps) ==
    /\ g <= StepsBefore[seg] + steps
    /\ seg \in Segments => steps <= getNumSteps(seg)
    /\ seg = NumSegments => steps = 0

\* The strengthening of MaxStepsHonoured: the saved position obeys the budget as
\* well, otherwise a restart could enter a segment with its steps overdrawn.
ScheduleInv ==
    /\ Tracking => PositionOK(gstep, segment, stepsDone)
    /\ checkpoint # NoCheckpoint =>
         PositionOK(checkpoint.gstep, checkpoint.segment, checkpoint.stepsDone)

\* A step taken inside the budget of its segment keeps the position in order,
\* both in the segment and, if it is saved so, at the start of the next one.
LEMMA StepPosition ==
    ASSUME NEW g \in Nat, NEW seg \in Segments, NEW steps \in Nat,
           PositionOK(g, seg, steps)
    PROVE  /\ steps < getNumSteps(seg) => PositionOK(g + 1, seg, steps + 1)
           /\ PositionOK(g, seg + 1, 0)
<1>1. StepsBefore[seg] \in Nat /\ StepsBefore[seg + 1] \in Nat
  BY NextIndex
<1>2. getNumSteps(seg) = StepsBefore[seg + 1] - StepsBefore[seg]
  BY DEF getNumSteps
<1>3. seg # NumSegments
  BY DEF Segments
<1>4. PositionOK(g, seg + 1, 0)
  <2>1. g <= StepsBefore[seg + 1]
    BY <1>1, <1>2 DEF PositionOK
  <2>2. seg + 1 \in Segments => 0 <= getNumSteps(seg + 1)
    BY NumStepsNat
  <2> QED BY <1>1, <2>1, <2>2 DEF PositionOK
<1>5. ASSUME steps < getNumSteps(seg) PROVE PositionOK(g + 1, seg, steps + 1)
  BY <1>1, <1>2, <1>3, <1>5 DEF PositionOK
<1> QED BY <1>4, <1>5

\* Every step keeps the budget.
LEMMA NextSchedule == TypeInv /\ ScheduleInv /\ [Next]_vars => ScheduleInv'
<1> SUFFICES ASSUME TypeInv, ScheduleInv, [Next]_vars PROVE ScheduleInv'
  OBVIOUS
<1>0. /\ segment \in Indices /\ stepsDone \in Nat /\ gstep \in Nat
      /\ checkpoint \in Snapshots \cup {NoCheckpoint}
      /\ phase = "step" => segment \in Segments
  BY DEF TypeInv, TypeOK
<1>1. CASE FreshStart
  <2>1. /\ segment' \in Segments /\ stepsDone' = 0 /\ gstep' = 0
        /\ checkpoint' = NoCheckpoint
    BY <1>1 DEF FreshStart
  <2>2. StepsBefore[segment'] \in Nat /\ getNumSteps(segment') \in Nat
    BY <2>1, NextIndex, NumStepsNat
  <2>3. segment' # NumSegments
    BY <2>1 DEF Segments
  <2> QED BY <2>1, <2>2, <2>3 DEF ScheduleInv, PositionOK
<1>2. CASE Restart
  BY <1>2 DEF Restart, ScheduleInv
<1>3. CASE RefuseRestart
  BY <1>3 DEF RefuseRestart, ScheduleInv, Tracking
<1>4. CASE BeginSegment
  BY <1>4 DEF BeginSegment, resetPcActive, ScheduleInv, Tracking
<1>5. CASE TimeStep
  <2>1. /\ phase = "step" /\ segment' = segment /\ gstep' = gstep + 1
        /\ stepsDone' = stepsDone + 1 /\ stepsDone < getNumSteps(segment)
    BY <1>5, TimeStepEffect DEF TypeInv
  <2>2. PositionOK(gstep, segment, stepsDone)
    BY <2>1 DEF ScheduleInv, Tracking
  <2>3. PositionOK(gstep', segment, stepsDone')
    BY <1>0, <2>1, <2>2, StepPosition
  <2>4. PositionOK(gstep', segment + 1, 0)
    BY <1>0, <2>1, <2>3, StepPosition
  <2>5. \/ checkpoint' = checkpoint
        \/ /\ checkpoint'.gstep = gstep' /\ checkpoint'.segment = segment
           /\ checkpoint'.stepsDone = stepsDone'
        \/ /\ checkpoint'.gstep = gstep' /\ checkpoint'.segment = segment + 1
           /\ checkpoint'.stepsDone = 0
    BY <1>5, WriteCheckpointEffect DEF TypeInv, snapshot
  <2> QED BY <2>1, <2>3, <2>4, <2>5 DEF ScheduleInv
<1>6. CASE LeaveSegment
  <2>1. phase = "step" /\ gstep' = gstep /\ checkpoint' = checkpoint
    BY <1>6 DEF LeaveSegment, innerLoopDone, clock
  <2>2. \/ phase' = "finished"
        \/ segment' = segment + 1 /\ stepsDone' = 0
    BY <1>6 DEF LeaveSegment, innerLoopDone
  <2>3. PositionOK(gstep, segment + 1, 0)
    BY <1>0, <2>1, StepPosition DEF ScheduleInv, Tracking
  <2> QED BY <2>1, <2>2, <2>3 DEF ScheduleInv, Tracking
<1>7. CASE EndOfSchedule
  BY <1>7 DEF EndOfSchedule, ScheduleInv, Tracking
<1>8. CASE Crash
  BY <1>8 DEF Crash, ScheduleInv, Tracking
<1>9. CASE UNCHANGED vars
  BY <1>9 DEF vars, ScheduleInv, Tracking, position, clock
<1> QED BY <1>1, <1>2, <1>3, <1>4, <1>5, <1>6, <1>7, <1>8, <1>9 DEF Next, Run

\* A position in order spends no more than the whole budget.
LEMMA BudgetBound ==
    ASSUME NEW g \in Nat, NEW seg \in Indices, NEW steps \in Nat,
           PositionOK(g, seg, steps)
    PROVE  g <= getMaxSteps
<1>1. NumSegments \in Indices /\ StepsBefore[NumSegments] \in Nat /\ StepsBefore[seg] \in Nat
  BY DEF Indices
<1>2. CASE seg = NumSegments
  BY <1>1, <1>2 DEF PositionOK, getMaxSteps
<1>3. CASE seg \in Segments
  <2>1. seg + 1 \in Indices /\ seg + 1 <= NumSegments
    BY <1>3 DEF Segments, Indices
  <2>2. StepsBefore[seg + 1] \in Nat /\ StepsBefore[seg + 1] <= StepsBefore[NumSegments]
    BY <1>1, <2>1
  <2> QED BY <1>1, <1>3, <2>2 DEF PositionOK, getNumSteps, getMaxSteps
<1> QED BY <1>2, <1>3 DEF Segments, Indices

\* Whatever the schedule, the beams, the checkpoint frequency and the number of
\* crashes, no segment is integrated for more steps than MAXSTEPS grants it and
\* the global step never exceeds the sum of the budgets.
THEOREM BudgetCorrect == Spec => []MaxStepsHonoured
<1>1. Init => ScheduleInv
  BY DEF Init, ScheduleInv, Tracking
<1>2. TypeInv /\ ScheduleInv => MaxStepsHonoured
  <2> SUFFICES ASSUME TypeInv, ScheduleInv, Tracking
               PROVE  /\ gstep <= StepsBefore[segment] + stepsDone
                      /\ segment < NumSegments => stepsDone <= getNumSteps(segment)
                      /\ gstep <= getMaxSteps
    BY DEF MaxStepsHonoured
  <2>1. segment \in Indices /\ stepsDone \in Nat /\ gstep \in Nat
    BY DEF TypeInv, TypeOK
  <2>2. PositionOK(gstep, segment, stepsDone)
    BY DEF ScheduleInv
  <2>3. segment < NumSegments => segment \in Segments
    BY <2>1 DEF Segments, Indices
  <2> QED BY <2>1, <2>2, <2>3, BudgetBound DEF PositionOK
<1> QED BY <1>1, <1>2, TypeInvariant, NextSchedule, PTL DEF Spec

-----------------------------------------------------------------------------
(* Activity flags, lost work and the clock of ParallelTracker, for every      *)
(* schedule, set of beams and checkpoint frequency.                          *)

(* Activity flags.                                                          *)

\* Every populated container is pushed or frozen, and none is both.
Partition(populated, flags, stopped) ==
    /\ populated \subseteq flags \cup stopped
    /\ flags \cap stopped = {}

\* The strengthening of ActivityPartition: a run resumed half way through a
\* segment keeps its flags at the top of the outer loop, so they must be in order
\* there already, and it may not have emission sources.
ActivityInv ==
    /\ phase = "step" => ~resuming /\ Partition(nonEmpty, active, atSStop)
    /\ phase = "segment" /\ resuming =>
         Emits = {} /\ Partition(nonEmpty, active, atSStop)

\* One step keeps the containers partitioned, whatever is emitted, decays or is
\* lost: emission and decay switch on what they fill unless it is frozen.
LEMMA PushKeepsPartition ==
    ASSUME Partition(nonEmpty, active, atSStop),
           NEW emitted \in SUBSET (Emitting(time, spent) \ atSStop),
           NEW decayed \in SUBSET Decaying, NEW exhausted, NEW lost,
           Push(emitted, decayed, exhausted, lost)
    PROVE  Partition(nonEmpty', active', atSStop')
<1> DEFINE filled == nonEmpty \cup emitted
           bred   == filled \cup {Daughter[p] : p \in decayed}
           live   == refreshed(active, filled)
           moving == IF decayed = {} THEN live ELSE refreshed(live, bred)
           stopping == stopsAfter(moving, sPos', dt')
<1>1. /\ nonEmpty' = (bred \ exhausted) \ lost
      /\ active' = moving \ stopping
      /\ atSStop' = atSStop \cup stopping
  BY DEF Push, refreshedAfterDecay
<1>2. Partition(filled, live, atSStop)
  BY DEF Partition, refreshed
<1>3. Partition(bred, moving, atSStop)
  <2> HIDE DEF filled, live
  <2>1. CASE decayed = {}
    BY <1>2, <2>1
  <2>2. CASE decayed # {}
    <3>1. moving = live \cup (bred \ atSStop)
      BY <2>2 DEF refreshed
    <3> HIDE DEF bred, moving
    <3> QED BY <1>2, <3>1 DEF Partition
  <2> QED BY <2>1, <2>2
<1> HIDE DEF filled, bred, live, moving, stopping
<1> QED BY <1>1, <1>3 DEF Partition

\* Every step keeps the flags in order.
LEMMA NextActivity == ActivityInv /\ [Next]_vars => ActivityInv'
<1> SUFFICES ASSUME ActivityInv, [Next]_vars PROVE ActivityInv'
  OBVIOUS
<1>1. CASE FreshStart
  BY <1>1 DEF FreshStart, ActivityInv
<1>2. CASE Restart
  <2>1. /\ nonEmpty' = checkpoint.nonEmpty
        /\ active' = checkpoint.nonEmpty \ atSStop'
        /\ phase' # "step"
    BY <1>2 DEF Restart, resumedActive
  <2>2. Emits = {}
    BY <1>2 DEF Restart, acceptsRestart
  <2> QED BY <2>1, <2>2 DEF ActivityInv, Partition
<1>3. CASE RefuseRestart
  BY <1>3 DEF RefuseRestart, ActivityInv
<1>4. CASE BeginSegment
  <2>1. ~resuming' /\ nonEmpty' = nonEmpty /\ phase' = "step" /\ phase = "segment"
    BY <1>4 DEF BeginSegment, resetPcActive
  <2>2. CASE resuming /\ stepsDone > 0
    <3>1. Emitting(time, spent) = {}
      BY <2>1, <2>2 DEF ActivityInv, Emitting, Emits
    <3>2. active' = active /\ atSStop' = atSStop
      BY <1>4, <2>2, <3>1 DEF BeginSegment, resetPcActive
    <3> QED BY <2>1, <2>2, <3>2 DEF ActivityInv, Partition
  <2>3. CASE ~(resuming /\ stepsDone > 0)
    <3>1. active' = nonEmpty \cup Emitting(time, spent) /\ atSStop' = {}
      BY <1>4, <2>3 DEF BeginSegment, resetPcActive
    <3> QED BY <2>1, <3>1 DEF ActivityInv, Partition
  <2> QED BY <2>2, <2>3
<1>5. CASE TimeStep
  <2>1. phase = "step" /\ phase' = "step" /\ resuming' = resuming
    BY <1>5 DEF TimeStep, IntegrationStep
  <2>2. Partition(nonEmpty, active, atSStop)
    BY <2>1 DEF ActivityInv
  <2>3. PICK emitted \in SUBSET (Emitting(time, spent) \ atSStop), decayed \in SUBSET Decaying,
             lost \in SUBSET Containers, exhausted \in SUBSET Decaying :
          Push(emitted, decayed, exhausted, lost)
    BY <1>5 DEF TimeStep, IntegrationStep
  <2>4. Partition(nonEmpty', active', atSStop')
    BY <2>2, <2>3, PushKeepsPartition
  <2> QED BY <2>1, <2>4 DEF ActivityInv
<1>6. CASE LeaveSegment
  BY <1>6 DEF LeaveSegment, innerLoopDone, ActivityInv
<1>7. CASE EndOfSchedule
  BY <1>7 DEF EndOfSchedule, ActivityInv
<1>8. CASE Crash
  BY <1>8 DEF Crash, ActivityInv
<1>9. CASE UNCHANGED vars
  BY <1>9 DEF vars, ActivityInv, position, bunch
<1> QED BY <1>1, <1>2, <1>3, <1>4, <1>5, <1>6, <1>7, <1>8, <1>9 DEF Next, Run

\* For any beams, decays, emission sources and losses, and across segment ends,
\* crashes and restarts, no populated container is forgotten while steps are
\* taken and none is pushed while it is frozen.
THEOREM ActivityCorrect == Spec => []ActivityPartition
<1>1. Init => ActivityInv
  BY DEF Init, ActivityInv
<1>2. ActivityInv => ActivityPartition
  BY DEF ActivityInv, ActivityPartition, Partition
<1> QED BY <1>1, <1>2, NextActivity, PTL DEF Spec

\* The strengthening of ResumeKeepsPopulatedActivity: the flags in the file are in
\* order as those of the live run are when it is written.
ResumeInv ==
    checkpoint # NoCheckpoint =>
        Partition(checkpoint.nonEmpty, checkpoint.liveActive, checkpoint.atSStop)

\* Only a step writes the file, and it leaves the flags of the job in order.
LEMMA NextResume == ActivityInv /\ ResumeInv /\ [Next]_vars => ResumeInv'
<1> SUFFICES ASSUME ActivityInv, ResumeInv, [Next]_vars PROVE ResumeInv'
  OBVIOUS
<1>1. CASE TimeStep
  <2>1. ActivityInv'
    BY NextActivity
  <2>2. phase' = "step"
    BY <1>1 DEF TimeStep, IntegrationStep
  <2>3. Partition(nonEmpty', active', atSStop')
    BY <2>1, <2>2 DEF ActivityInv
  <2>4. CASE checkpointDue(gstep')
    <3>1. /\ checkpoint'.nonEmpty = nonEmpty' /\ checkpoint'.liveActive = active'
          /\ checkpoint'.atSStop = atSStop'
      BY <1>1, <2>4 DEF TimeStep, WriteCheckpoint, snapshot
    <3> QED BY <2>3, <3>1 DEF ResumeInv
  <2>5. CASE ~checkpointDue(gstep')
    <3>1. checkpoint' = checkpoint
      BY <1>1, <2>5 DEF TimeStep, WriteCheckpoint
    <3> QED BY <3>1 DEF ResumeInv
  <2> QED BY <2>4, <2>5
<1>2. CASE ~TimeStep
  <2>1. checkpoint' = checkpoint
    BY <1>2 DEF Next, Run, vars, FreshStart, Restart, RefuseRestart, BeginSegment,
                LeaveSegment, EndOfSchedule, Crash
  <2> QED BY <2>1 DEF ResumeInv
<1> QED BY <1>1, <1>2

\* For any beams, decays, sources and losses: a restart into the middle of a segment
\* pushes exactly the containers the run would have pushed that wrote the file,
\* unless one of these had lost its last particle.
THEOREM ResumeCorrect == Spec => []ResumeKeepsPopulatedActivity
<1>1. Init => ActivityInv /\ ResumeInv
  BY DEF Init, ActivityInv, ResumeInv
<1>2. ResumeInv => ResumeKeepsPopulatedActivity
  BY DEF ResumeInv, ResumeKeepsPopulatedActivity, Partition, NoEmptyActive,
         resumedActive, resumedAtSStop
<1> QED BY <1>1, <1>2, NextActivity, NextResume, PTL DEF Spec

-----------------------------------------------------------------------------
(* The clock.                                                               *)

\* The strengthening of ClockOrdersSteps: the checkpoint never lies ahead.
ClockInv ==
    Tracking /\ checkpoint # NoCheckpoint =>
        /\ checkpoint.gstep <= gstep
        /\ checkpoint.gstep = gstep => checkpoint.time = time
        /\ checkpoint.gstep < gstep => checkpoint.time < time

\* A checkpoint written by a step is taken at the step and time it reaches.
LEMMA CheckpointClock ==
    ASSUME TypeInv, TimeStep
    PROVE  \/ checkpoint' = checkpoint /\ ~checkpointDue(gstep')
           \/ /\ checkpointDue(gstep')
              /\ checkpoint'.gstep = gstep' /\ checkpoint'.time = time'
BY WriteCheckpointEffect DEF TypeInv, snapshot

\* Every step keeps the checkpoint behind the clock.
LEMMA NextClock == TypeInv /\ ClockInv /\ [Next]_vars => ClockInv'
<1> SUFFICES ASSUME TypeInv, ClockInv, [Next]_vars PROVE ClockInv'
  OBVIOUS
<1>0. /\ gstep \in Nat /\ time \in Int
      /\ checkpoint # NoCheckpoint => checkpoint.gstep \in Nat /\ checkpoint.time \in Int
  BY DEF TypeInv, TypeOK, Snapshots
<1>1. CASE FreshStart
  BY <1>1 DEF FreshStart, ClockInv
<1>2. CASE Restart
  BY <1>0, <1>2 DEF Restart, ClockInv
<1>3. CASE RefuseRestart
  BY <1>3 DEF RefuseRestart, ClockInv, Tracking
<1>4. CASE BeginSegment
  BY <1>4 DEF BeginSegment, resetPcActive, ClockInv, Tracking
<1>5. CASE TimeStep
  <2>1. /\ phase = "step" /\ gstep' = gstep + 1
        /\ dt' \in TimeSteps /\ time' = time + dt'
    BY <1>5, TimeStepEffect DEF TypeInv
  <2>2. gstep < gstep' /\ time < time' /\ gstep' \in Nat /\ time' \in Int
    <3>1. gstep < gstep' /\ gstep' \in Nat
      BY <1>0, <2>1
    <3>2. dt' \in Nat \ {0}
      BY <2>1, TimeStepsPositive
    <3>3. \A t \in Int, d \in Nat \ {0} : t < t + d /\ t + d \in Int
      OBVIOUS
    <3>4. time < time' /\ time' \in Int
      BY <1>0, <2>1, <3>2, <3>3, Zenon
    <3> QED BY <3>1, <3>4
  <2>3. CASE checkpoint' = checkpoint
    BY <1>0, <2>1, <2>2, <2>3 DEF ClockInv, Tracking
  <2>4. CASE checkpoint'.gstep = gstep' /\ checkpoint'.time = time'
    BY <2>2, <2>4 DEF ClockInv
  <2> QED BY <1>5, <2>3, <2>4, CheckpointClock
<1>6. CASE LeaveSegment
  BY <1>6 DEF LeaveSegment, innerLoopDone, ClockInv, Tracking, clock
<1>7. CASE EndOfSchedule
  BY <1>7 DEF EndOfSchedule, ClockInv, Tracking
<1>8. CASE Crash
  BY <1>8 DEF Crash, ClockInv, Tracking
<1>9. CASE UNCHANGED vars
  BY <1>9 DEF vars, ClockInv, Tracking, clock
<1> QED BY <1>1, <1>2, <1>3, <1>4, <1>5, <1>6, <1>7, <1>8, <1>9 DEF Next, Run

\* The invariant of ClockInv holds in every reachable state.
LEMMA ClockInvariant == Spec => []ClockInv
<1>1. Init => ClockInv
  BY DEF Init, ClockInv
<1> QED BY <1>1, TypeInvariant, NextClock, PTL DEF Spec

\* For every schedule and any number of restarts, records of steps after the
\* checkpoint carry a later bunch time than the checkpoint.
THEOREM ClockCorrect == Spec => []ClockOrdersSteps
<1>1. ClockInv => ClockOrdersSteps
  BY DEF ClockInv, ClockOrdersSteps
<1> QED BY <1>1, ClockInvariant, PTL

-----------------------------------------------------------------------------
(* Lost work.                                                               *)

\* The multiple after a multiple of f.
LEMMA NextMultiple ==
    ASSUME NEW a \in Nat, NEW f \in Nat \ {0}, a % f = 0
    PROVE  (a + f) % f = 0
<1>1. PICK q \in Int : a = f * q + 0
  <2>1. \A x, y \in Int : y > 0 => x = y * (x \div y) + (x % y)
    BY SMTT(30)
  <2>2. a = f * (a \div f) + (a % f) /\ a \div f \in Int
    BY <2>1
  <2> QED BY <2>2
<1>2. a + f = f * (q + 1) + 0
  BY <1>1
<1>3. \A b \in Nat, p \in Int : b = f * p + 0 => b % f = 0
  BY SMT
<1>4. a + f \in Nat /\ q + 1 \in Int
  OBVIOUS
<1> QED BY <1>2, <1>3, <1>4, Zenon

\* The strengthening of LostWorkBounded: checkpoints exist only if they are
\* enabled, and sit on multiples of the checkpoint frequency.
LostWorkInv ==
    /\ checkpoint # NoCheckpoint => checkpointDue(checkpoint.gstep)
    /\ LostWorkBounded

\* Every step keeps the checkpoint within reach.
LEMMA NextLostWork == TypeInv /\ LostWorkInv /\ [Next]_vars => LostWorkInv'
<1> SUFFICES ASSUME TypeInv, LostWorkInv, [Next]_vars PROVE LostWorkInv'
  OBVIOUS
<1> USE DEF LostWorkInv, LostWorkBounded
<1>0. /\ gstep \in Nat
      /\ checkpoint # NoCheckpoint => checkpoint.gstep \in Nat
  BY DEF TypeInv, TypeOK, Snapshots
<1>1. CASE FreshStart
  BY <1>1 DEF FreshStart
<1>2. CASE Restart
  BY <1>0, <1>2 DEF Restart
<1>3. CASE RefuseRestart
  BY <1>3 DEF RefuseRestart, Tracking
<1>4. CASE BeginSegment
  BY <1>4 DEF BeginSegment, resetPcActive, Tracking
<1>5. CASE TimeStep
  <2>1. phase = "step" /\ gstep' = gstep + 1 /\ gstep' \in Nat
    BY <1>0, <1>5, TimeStepEffect DEF TypeInv
  <2>2. CASE checkpoint' = checkpoint /\ ~checkpointDue(gstep')
    <3>1. ASSUME CheckpointFreq > 0, checkpoint = NoCheckpoint
          PROVE  gstep' < CheckpointFreq
      <4>1. CheckpointFreq % CheckpointFreq = 0
        BY <3>1
      <4>2. gstep' # CheckpointFreq
        BY <2>2, <3>1, <4>1 DEF checkpointDue
      <4> QED BY <1>0, <2>1, <3>1, <4>2 DEF Tracking
    <3>2. ASSUME CheckpointFreq > 0, checkpoint # NoCheckpoint
          PROVE  checkpoint.gstep <= gstep' /\ gstep' - checkpoint.gstep < CheckpointFreq
      <4>1. checkpoint.gstep % CheckpointFreq = 0
        BY <3>2 DEF checkpointDue
      <4>2. (checkpoint.gstep + CheckpointFreq) % CheckpointFreq = 0
        BY <1>0, <3>2, <4>1, NextMultiple
      <4>3. gstep' # checkpoint.gstep + CheckpointFreq
        BY <2>2, <3>2, <4>2 DEF checkpointDue
      <4>4. checkpoint.gstep <= gstep /\ gstep - checkpoint.gstep < CheckpointFreq
        BY <2>1, <3>2 DEF Tracking
      <4> QED BY <1>0, <2>1, <3>2, <4>3, <4>4
    <3> QED BY <2>2, <3>1, <3>2
  <2>3. CASE checkpointDue(gstep') /\ checkpoint'.gstep = gstep'
    <3>1. checkpoint' # NoCheckpoint
      BY <2>1, <2>3 DEF NoCheckpoint
    <3> QED BY <2>1, <2>3, <3>1
  <2> QED BY <1>5, <2>2, <2>3, CheckpointClock
<1>6. CASE LeaveSegment
  BY <1>6 DEF LeaveSegment, innerLoopDone, Tracking, clock
<1>7. CASE EndOfSchedule
  BY <1>7 DEF EndOfSchedule, Tracking
<1>8. CASE Crash
  BY <1>8 DEF Crash, Tracking
<1>9. CASE UNCHANGED vars
  BY <1>9 DEF vars, Tracking, clock
<1> QED BY <1>1, <1>2, <1>3, <1>4, <1>5, <1>6, <1>7, <1>8, <1>9 DEF Next, Run

\* For every checkpoint frequency, a crash costs fewer than CHECKPOINTFREQ steps,
\* wherever segments end between two checkpoints.
THEOREM LostWorkCorrect == Spec => []LostWorkBounded
<1>1. Init => LostWorkInv
  BY DEF Init, LostWorkInv, LostWorkBounded, Tracking
<1>2. LostWorkInv => LostWorkBounded
  BY DEF LostWorkInv
<1> QED BY <1>1, <1>2, TypeInvariant, NextLostWork, PTL DEF Spec

-----------------------------------------------------------------------------
(* Frozen containers.                                                       *)

\* No container decays. With a decay a daughter may fill after its mother has been
\* frozen, and their common reference particle then moves on.
NoDecay == Decaying = {}

\* The container is within half a step's drift of a stop position.
NearStop(c, s, stop) ==
    \E d \in TimeSteps : /\ 2 * (stop - s) < drift(c, d)
                         /\ 2 * (s - stop) < drift(c, d)

\* Without decays only containers with a reference particle of their own are ever
\* populated, so that no two of them share one.
OwnReferences ==
    /\ \A c \in nonEmpty \cup active \cup atSStop : Root[c] = c
    /\ checkpoint # NoCheckpoint =>
         \A c \in checkpoint.nonEmpty \cup checkpoint.atSStop : Root[c] = c

\* The flags a step may inspect belong to the segment it is in, those of a file
\* to the segment it names.
NearStopInv ==
    /\ (phase = "step" \/ (phase = "segment" /\ resuming /\ stepsDone > 0)) =>
         \A c \in atSStop : NearStop(c, sPos[c], SStop[segment])
    /\ (checkpoint # NoCheckpoint /\ checkpoint.stepsDone > 0) =>
         \A c \in checkpoint.atSStop :
            NearStop(c, checkpoint.sPos[c], SStop[checkpoint.segment])

\* The strengthening of FrozenNearStop.
FrozenInv == OwnReferences /\ NearStopInv

\* The stop test freezes a container only near the stop.
LEMMA StopTestNear ==
    ASSUME NEW d \in TimeSteps, NEW c \in Containers, NEW s \in Int,
           segment \in Segments, reachesSStop(c, s, d)
    PROVE  NearStop(c, s, SStop[segment])
<1>1. SStop[segment] \in Int
  OBVIOUS
<1>2. drift(c, d) \in Int
  BY TimeStepsPositive, ProductInt DEF drift
<1>3. \A x, y, z \in Int : 2 * (x - y) < z /\ -2 * (x - y) < z
                             => 2 * (x - y) < z /\ 2 * (y - x) < z
  OBVIOUS
<1>4. /\ 2 * (SStop[segment] - s) < drift(c, d)
      /\ -2 * (SStop[segment] - s) < drift(c, d)
  BY DEF reachesSStop
<1> QED BY <1>1, <1>2, <1>3, <1>4 DEF NearStop

\* A step without decays: which containers move, and what it does to the others.
LEMMA StepWithoutDecay ==
    ASSUME NoDecay, TypeInv, ActivityInv, OwnReferences, TimeStep
    PROVE  /\ \A c \in nonEmpty' \cup active' \cup atSStop' : Root[c] = c
           /\ \A c \in atSStop : sPos'[c] = sPos[c]
           /\ atSStop \subseteq atSStop'
           /\ \A c \in atSStop' \ atSStop : reachesSStop(c, sPos'[c], dt')
<1>1. PICK emitted \in SUBSET (Emitting(time, spent) \ atSStop), decayed \in SUBSET Decaying,
           lost \in SUBSET Containers, exhausted \in SUBSET Decaying :
        Push(emitted, decayed, exhausted, lost)
  BY DEF TimeStep, IntegrationStep
<1> DEFINE filled == nonEmpty \cup emitted
           moving == refreshed(active, filled)
<1>2. decayed = {}
  BY DEF NoDecay
<1>3. /\ nonEmpty' = (filled \ exhausted) \ lost
      /\ sPos' = updateReference(time', dt', moving)
      /\ active' = moving \ stopsAfter(moving, sPos', dt')
      /\ atSStop' = atSStop \cup stopsAfter(moving, sPos', dt')
  BY <1>1, <1>2 DEF Push, refreshedAfterDecay
<1>4. \A c \in emitted : Root[c] = c
  BY DEF Emitting, Emits
<1>5. \A c \in filled \cup moving : Root[c] = c
  BY <1>4 DEF OwnReferences, refreshed
<1>6. moving \cap atSStop = {}
  <2>1. active \cap atSStop = {}
    BY DEF ActivityInv, Partition, TimeStep, IntegrationStep
  <2> QED BY <2>1 DEF refreshed
<1>7. ASSUME NEW c \in atSStop PROVE sPos'[c] = sPos[c]
  <2>1. Root[c] = c /\ c \in Containers
    BY DEF OwnReferences, TypeInv, TypeOK
  <2>2. ~referenceMoves(c, moving)
    <3> HIDE DEF moving, filled
    <3> QED BY <1>5, <1>6, Zenon DEF referenceMoves
  <2>3. sPos'[c] = sPos[c] + 0
    <3> HIDE DEF moving
    <3> QED BY <1>3, <2>1, <2>2 DEF updateReference
  <2>4. sPos[c] \in Int
    BY <2>1 DEF TypeInv, TypeOK
  <2> QED BY <2>3, <2>4
<1>8. stopsAfter(moving, sPos', dt') \subseteq moving
  BY DEF stopsAfter
<1>9. \A c \in atSStop' \ atSStop : reachesSStop(c, sPos'[c], dt')
  BY <1>3 DEF stopsAfter
<1> HIDE DEF filled, moving
<1>10. \A c \in nonEmpty' \cup active' \cup atSStop' : Root[c] = c
  BY <1>3, <1>5, <1>8 DEF OwnReferences
<1> QED BY <1>3, <1>7, <1>9, <1>10

\* After a step every frozen container is near the stop of the segment.
LEMMA StepKeepsNear ==
    ASSUME NoDecay, TypeInv, ActivityInv, FrozenInv, TimeStep
    PROVE  \A c \in atSStop' : NearStop(c, sPos'[c], SStop[segment])
<1>1. /\ phase = "step" /\ segment \in Segments /\ dt' \in TimeSteps
      /\ atSStop' \subseteq Containers /\ sPos' \in [Containers -> Int]
  BY TimeStepEffect DEF TypeInv
<1>2. ASSUME NEW c \in atSStop PROVE NearStop(c, sPos'[c], SStop[segment])
  <2>1. NearStop(c, sPos[c], SStop[segment])
    BY <1>1 DEF FrozenInv, NearStopInv
  <2>2. sPos'[c] = sPos[c]
    BY StepWithoutDecay DEF FrozenInv
  <2> QED BY <2>1, <2>2
<1>3. ASSUME NEW c \in atSStop' \ atSStop PROVE NearStop(c, sPos'[c], SStop[segment])
  <2>1. reachesSStop(c, sPos'[c], dt')
    BY StepWithoutDecay DEF FrozenInv
  <2>2. c \in Containers /\ sPos'[c] \in Int
    BY <1>1
  <2> QED BY <1>1, <2>1, <2>2, StopTestNear
<1> QED BY <1>2, <1>3

\* Every step keeps the references apart and the frozen containers near.
LEMMA NextFrozen ==
    ASSUME NoDecay, TypeInv, ActivityInv, FrozenInv, [Next]_vars
    PROVE  FrozenInv'
<1> USE DEF FrozenInv
<1>1. CASE FreshStart
  <2>1. \A c \in nonEmpty' \cup active' \cup atSStop' : Root[c] = c
    BY <1>1 DEF FreshStart, Emitting, Emits
  <2> QED BY <1>1, <2>1 DEF FreshStart, OwnReferences, NearStopInv
<1>2. CASE Restart
  <2>1. /\ checkpoint # NoCheckpoint /\ checkpoint' = checkpoint
        /\ nonEmpty' = checkpoint.nonEmpty /\ sPos' = checkpoint.sPos
        /\ segment' = checkpoint.segment /\ stepsDone' = checkpoint.stepsDone
        /\ active' \subseteq checkpoint.nonEmpty
        /\ atSStop' \subseteq checkpoint.atSStop
        /\ phase' # "step"
    BY <1>2 DEF Restart, resumedActive, resumedAtSStop
  <2>2. OwnReferences'
    BY <2>1 DEF OwnReferences
  <2>3. NearStopInv'
    BY <2>1 DEF NearStopInv
  <2> QED BY <2>2, <2>3
<1>3. CASE RefuseRestart
  BY <1>3 DEF RefuseRestart, OwnReferences, NearStopInv, position, bunch
<1>4. CASE BeginSegment
  <2>1. /\ nonEmpty' = nonEmpty /\ checkpoint' = checkpoint /\ sPos' = sPos
        /\ segment' = segment /\ phase = "segment" /\ ~resuming'
    BY <1>4 DEF BeginSegment, resetPcActive
  <2>2. /\ active' \subseteq active \cup nonEmpty \cup Emitting(time, spent)
        /\ atSStop' \subseteq atSStop
        /\ ~(resuming /\ stepsDone > 0) => atSStop' = {}
    BY <1>4 DEF BeginSegment, resetPcActive
  <2>3. \A c \in Emitting(time, spent) : Root[c] = c
    BY DEF Emitting, Emits
  <2>4. OwnReferences'
    BY <2>1, <2>2, <2>3 DEF OwnReferences
  <2>5. NearStopInv'
    BY <2>1, <2>2 DEF NearStopInv
  <2> QED BY <2>4, <2>5
<1>5. CASE TimeStep
  <2>1. /\ \A c \in nonEmpty' \cup active' \cup atSStop' : Root[c] = c
        /\ \A c \in atSStop' : NearStop(c, sPos'[c], SStop[segment])
    BY <1>5, StepWithoutDecay, StepKeepsNear
  <2>2. segment' = segment /\ phase' = "step"
    BY <1>5, TimeStepEffect DEF TypeInv
  <2>3. CASE checkpoint' = checkpoint
    BY <2>1, <2>2, <2>3 DEF OwnReferences, NearStopInv
  <2>4. CASE /\ checkpoint'.nonEmpty = nonEmpty' /\ checkpoint'.atSStop = atSStop'
             /\ checkpoint'.sPos = sPos'
             /\ checkpoint'.stepsDone > 0 => checkpoint'.segment = segment
    BY <2>1, <2>2, <2>4 DEF OwnReferences, NearStopInv
  <2> QED BY <1>5, <2>3, <2>4, WriteCheckpointEffect DEF TypeInv, snapshot
<1>6. CASE LeaveSegment
  <2>1. phase' # "step" /\ (phase' = "segment" => stepsDone' = 0)
        /\ nonEmpty' = nonEmpty /\ active' = active /\ atSStop' = atSStop
        /\ checkpoint' = checkpoint
    BY <1>6 DEF LeaveSegment, innerLoopDone, bunch
  <2> QED BY <2>1 DEF OwnReferences, NearStopInv
<1>7. CASE EndOfSchedule
  BY <1>7 DEF EndOfSchedule, OwnReferences, NearStopInv, position, bunch
<1>8. CASE Crash
  BY <1>8 DEF Crash, OwnReferences, NearStopInv, position, bunch
<1>9. CASE UNCHANGED vars
  BY <1>9 DEF vars, OwnReferences, NearStopInv, position, bunch
<1> QED BY <1>1, <1>2, <1>3, <1>4, <1>5, <1>6, <1>7, <1>8, <1>9 DEF Next, Run

\* The invariants behind the theorems on frozen containers.
LEMMA FrozenInvariant ==
    ASSUME NoDecay
    PROVE  Spec => [](TypeInv /\ ActivityInv /\ FrozenInv)
<1>1. Init => ActivityInv /\ FrozenInv
  BY DEF Init, ActivityInv, FrozenInv, OwnReferences, NearStopInv
<1> QED BY <1>1, NextFrozen, NextActivity, TypeInvariant, PTL DEF Spec

\* Without decays a container that is frozen was frozen near the stop of the segment
\* being tracked, whatever is emitted or lost and wherever the job was resumed.
THEOREM FrozenNear ==
    ASSUME NoDecay
    PROVE  Spec => []FrozenNearStop
<1>1. FrozenInv => FrozenNearStop
  BY DEF FrozenInv, NearStopInv, NearStop, FrozenNearStop
<1> QED BY <1>1, FrozenInvariant, PTL

\* Without decays a frozen container stays where it is while the steps of the
\* others go on.
THEOREM FrozenStays ==
    ASSUME NoDecay
    PROVE  Spec => FrozenAtStop
<1>1. ASSUME TypeInv, ActivityInv, FrozenInv, [Next]_vars,
             phase = "step", phase' = "step", gstep' > gstep
      PROVE  \A c \in atSStop : sPos'[c] = sPos[c]
  <2>1. CASE TimeStep
    BY <1>1, <2>1, StepWithoutDecay DEF FrozenInv
  <2>2. CASE ~TimeStep
    <3>1. gstep' = gstep \/ phase # "step"
      BY <1>1, <2>2 DEF Next, Run, vars, FreshStart, Restart, RefuseRestart, BeginSegment,
                  LeaveSegment, EndOfSchedule, Crash, clock
    <3> QED BY <1>1, <3>1 DEF TypeInv, TypeOK
  <2> QED BY <2>1, <2>2
<1>2. TypeInv /\ ActivityInv /\ FrozenInv /\ [Next]_vars =>
        [(phase = "step" /\ phase' = "step" /\ gstep' > gstep) =>
            \A c \in atSStop : sPos'[c] = sPos[c]]_vars
  BY <1>1
<1> QED BY <1>2, FrozenInvariant, PTL DEF Spec, FrozenAtStop

-----------------------------------------------------------------------------
(* Acceptance of checkpoints.                                               *)

\* All segments have the same time step. Otherwise a checkpoint at the end of a
\* segment stores its time step with the position of the next.
OneTimeStep == \A i, j \in Segments : SegmentDt[i] = SegmentDt[j]

\* Every segment has steps. The live run passes over an empty one, but a restart
\* at its start is refused.
NoEmptySegment == \A i \in Segments : getNumSteps(i) > 0

\* A checkpoint inside a segment names an unfinished one and its time step, one at
\* an end the time step of the segment before.
ResumableInv ==
    checkpoint # NoCheckpoint =>
        IF checkpoint.stepsDone > 0
        THEN /\ checkpoint.segment \in Segments
             /\ checkpoint.stepsDone < getNumSteps(checkpoint.segment)
             /\ Emits = {} => checkpoint.dt = SegmentDt[checkpoint.segment]
        ELSE /\ checkpoint.segment \in Indices
             /\ Emits = {} => checkpoint.dt \in {SegmentDt[i] : i \in Segments}

\* Every step keeps the file in order.
LEMMA NextResumable ==
    TypeInv /\ ScheduleInv /\ ResumableInv /\ [Next]_vars => ResumableInv'
<1> SUFFICES ASSUME TypeInv, ScheduleInv, ResumableInv, [Next]_vars PROVE ResumableInv'
  OBVIOUS
<1>1. CASE TimeStep
  <2>1. /\ phase = "step" /\ segment \in Segments /\ segment + 1 \in Indices
        /\ stepsDone' = stepsDone + 1 /\ stepsDone < getNumSteps(segment)
        /\ stepsDone \in Nat /\ getNumSteps(segment) \in Nat
    BY <1>1, TimeStepEffect, NextIndex, NumStepsNat DEF TypeInv, TypeOK
  <2>2. ASSUME Emits = {} PROVE dt' = SegmentDt[segment]
    <3>1. Inventory = {}
      BY <2>2 DEF Emits
    <3>2. PICK done : selectsDT(dt', SegmentDt[segment], done)
      BY <1>1 DEF TimeStep, IntegrationStep
    <3> QED BY <3>1, <3>2 DEF selectsDT, EmissionSteps
  <2>3. CASE checkpoint' = checkpoint
    BY <2>3 DEF ResumableInv
  <2>4. CASE /\ stepsDone' # getNumSteps(segment)
             /\ checkpoint' = snapshot(gstep', time', dt', segment, stepsDone',
                                  nonEmpty', atSStop', sPos', active')
    <3>1. /\ checkpoint'.segment = segment /\ checkpoint'.stepsDone = stepsDone'
          /\ checkpoint'.dt = dt'
      BY <2>4 DEF snapshot
    <3>2. 0 < stepsDone' /\ stepsDone' < getNumSteps(segment)
      BY <2>1, <2>4
    <3> QED BY <2>1, <2>2, <3>1, <3>2 DEF ResumableInv
  <2>5. CASE checkpoint' = snapshot(gstep', time', dt', segment + 1, 0,
                                  nonEmpty', atSStop', sPos', active')
    <3>1. /\ checkpoint'.segment = segment + 1 /\ checkpoint'.stepsDone = 0
          /\ checkpoint'.dt = dt'
      BY <2>5 DEF snapshot
    <3> QED BY <2>1, <2>2, <3>1 DEF ResumableInv
  <2> QED BY <1>1, <2>3, <2>4, <2>5, WriteCheckpointEffect DEF TypeInv
<1>2. CASE ~TimeStep
  <2>1. checkpoint' = checkpoint
    BY <1>2 DEF Next, Run, vars, FreshStart, Restart, RefuseRestart, BeginSegment,
                LeaveSegment, EndOfSchedule, Crash
  <2> QED BY <2>1 DEF ResumableInv
<1> QED BY <1>1, <1>2

\* The invariants behind the two theorems that follow.
LEMMA ResumableInvariant == Spec => [](TypeInv /\ ScheduleInv /\ ResumableInv)
<1>1. Init => ScheduleInv /\ ResumableInv
  BY DEF Init, ScheduleInv, ResumableInv, Tracking
<1> QED BY <1>1, TypeInvariant, NextSchedule, NextResumable, PTL DEF Spec

\* A checkpoint in the middle of a segment is accepted, whatever the schedule.
MidSegmentResumable ==
    (checkpoint # NoCheckpoint /\ checkpoint.stepsDone > 0
        /\ Emits = {} /\ Decaying = {}) => acceptsRestart(checkpoint)

\* For every schedule a checkpoint taken inside a segment can be restarted from
\* with the unchanged input.
THEOREM MidSegmentAccepted == Spec => []MidSegmentResumable
<1>1. ResumableInv => MidSegmentResumable
  BY DEF ResumableInv, MidSegmentResumable, acceptsRestart, acceptsResumePosition,
         reachedEnd, Segments, Indices
<1> QED BY <1>1, ResumableInvariant, PTL

\* For every schedule of one time step and no empty segment, every checkpoint can
\* be restarted from with the unchanged input, also one at the end of a segment.
THEOREM CheckpointAccepted ==
    ASSUME OneTimeStep, NoEmptySegment
    PROVE  Spec => []CheckpointResumable
<1>1. TypeInv /\ ScheduleInv /\ ResumableInv => CheckpointResumable
  <2> SUFFICES ASSUME TypeInv, ScheduleInv, ResumableInv, checkpoint # NoCheckpoint,
                      Emits = {}, Decaying = {}
               PROVE  acceptsRestart(checkpoint)
    BY DEF CheckpointResumable
  <2>1. checkpoint.segment \in Indices /\ checkpoint.stepsDone \in Nat
    BY DEF TypeInv, TypeOK, Snapshots
  <2>2. CASE checkpoint.stepsDone > 0
    <3>1. /\ checkpoint.segment \in Segments
          /\ checkpoint.stepsDone < getNumSteps(checkpoint.segment)
          /\ checkpoint.dt = SegmentDt[checkpoint.segment]
      BY <2>2 DEF ResumableInv
    <3>2. ~reachedEnd(checkpoint.segment)
      BY <3>1 DEF reachedEnd, Segments
    <3> QED BY <2>1, <3>1, <3>2 DEF acceptsRestart, acceptsResumePosition
  <2>3. CASE checkpoint.stepsDone = 0
    <3>1. ~reachedEnd(checkpoint.segment) => checkpoint.segment \in Segments
      BY <2>1 DEF reachedEnd, Segments, Indices
    <3>2. checkpoint.dt \in {SegmentDt[i] : i \in Segments}
      BY <2>3 DEF ResumableInv
    <3>3. ~reachedEnd(checkpoint.segment) =>
            /\ checkpoint.stepsDone < getNumSteps(checkpoint.segment)
            /\ SegmentDt[checkpoint.segment] = checkpoint.dt
      BY <2>3, <3>1, <3>2 DEF OneTimeStep, NoEmptySegment
    <3> QED BY <2>1, <2>3, <3>3 DEF acceptsRestart, acceptsResumePosition
  <2> QED BY <2>1, <2>2, <2>3
<1> QED BY <1>1, ResumableInvariant, PTL

-----------------------------------------------------------------------------
(* ParallelTracker implements TrackingRun: every step of the time loop maps to *)
(* a step of the walk through the schedule or leaves it unchanged.           *)

\* A checkpoint of the current step that names a later segment names the next
\* one, and the current segment has no step left.
WalkInv ==
    (Tracking /\ checkpoint # NoCheckpoint /\ checkpoint.gstep = gstep
        /\ checkpoint.segment > segment) =>
      /\ phase = "step" /\ checkpoint.segment = segment + 1
      /\ active = {} \/ stepsDone = getNumSteps(segment)

\* The position a step writes to the checkpoint file.
LEMMA CheckpointPosition ==
    ASSUME TypeInv, TimeStep
    PROVE  \/ checkpoint' = checkpoint
           \/ /\ stepsDone' # getNumSteps(segment)
              /\ checkpoint' # NoCheckpoint /\ checkpoint'.gstep = gstep'
              /\ checkpoint'.segment = segment /\ checkpoint'.stepsDone = stepsDone'
           \/ /\ active' = {} \/ stepsDone' = getNumSteps(segment)
              /\ checkpoint' # NoCheckpoint /\ checkpoint'.gstep = gstep'
              /\ checkpoint'.segment = segment + 1 /\ checkpoint'.stepsDone = 0
<1>1. gstep' # -1
  BY TimeStepEffect DEF TypeInv, TypeOK
<1>2. checkpoint' = NoCheckpoint => checkpoint'.gstep = -1
  BY DEF NoCheckpoint
<1> QED BY <1>1, <1>2, WriteCheckpointEffect DEF TypeInv, snapshot

\* Every step keeps the checkpoint from closing a segment too early.
LEMMA NextWalk == TypeInv /\ ClockInv /\ WalkInv /\ [Next]_vars => WalkInv'
<1> SUFFICES ASSUME TypeInv, ClockInv, WalkInv, [Next]_vars PROVE WalkInv'
  OBVIOUS
<1>0. /\ gstep \in Nat /\ segment \in Int
      /\ checkpoint # NoCheckpoint => checkpoint.gstep \in Nat /\ checkpoint.segment \in Int
  BY DEF TypeInv, TypeOK, Snapshots, Indices
<1>1. CASE FreshStart
  BY <1>1 DEF FreshStart, WalkInv
<1>2. CASE Restart
  BY <1>0, <1>2 DEF Restart, WalkInv
<1>3. CASE RefuseRestart
  BY <1>3 DEF RefuseRestart, WalkInv, Tracking
<1>4. CASE BeginSegment
  BY <1>4 DEF BeginSegment, resetPcActive, WalkInv, Tracking
<1>5. CASE TimeStep
  <2>1. /\ phase = "step" /\ phase' = "step" /\ segment' = segment /\ gstep' = gstep + 1
    BY <1>5, TimeStepEffect DEF TypeInv
  <2>2. CASE checkpoint' = checkpoint
    <3>1. checkpoint # NoCheckpoint => checkpoint.gstep # gstep'
      BY <1>0, <2>1 DEF ClockInv, Tracking
    <3> QED BY <2>2, <3>1 DEF WalkInv
  <2>3. CASE checkpoint'.segment = segment
    BY <1>0, <2>1, <2>3 DEF WalkInv
  <2>4. CASE /\ active' = {} \/ stepsDone' = getNumSteps(segment)
             /\ checkpoint'.segment = segment + 1
    BY <2>1, <2>4 DEF WalkInv
  <2> QED BY <1>5, <2>2, <2>3, <2>4, CheckpointPosition
<1>6. CASE LeaveSegment
  <2>1. gstep' = gstep /\ checkpoint' = checkpoint /\ phase = "step"
    BY <1>6 DEF LeaveSegment, innerLoopDone, clock
  <2>2. CASE phase' = "finished"
    BY <2>2 DEF WalkInv, Tracking
  <2>3. CASE segment' = segment + 1
    BY <1>0, <2>1, <2>3 DEF WalkInv, Tracking
  <2> QED BY <1>6, <2>2, <2>3 DEF LeaveSegment, innerLoopDone
<1>7. CASE EndOfSchedule
  BY <1>7 DEF EndOfSchedule, WalkInv, Tracking
<1>8. CASE Crash
  BY <1>8 DEF Crash, WalkInv, Tracking
<1>9. CASE UNCHANGED vars
  BY <1>9 DEF vars, WalkInv, Tracking, clock, position, bunch
<1> QED BY <1>1, <1>2, <1>3, <1>4, <1>5, <1>6, <1>7, <1>8, <1>9 DEF Next, Run

-----------------------------------------------------------------------------
(* The refinement.                                                          *)

\* The abstract run has a saved position exactly when there is a checkpoint.
LEMMA SavedIffCheckpoint ==
    ASSUME TypeInv
    PROVE  saved = Walk!NotSaved <=> checkpoint = NoCheckpoint
<1>1. ASSUME checkpoint # NoCheckpoint PROVE saved # Walk!NotSaved
  <2>1. checkpoint.gstep \in Nat
    BY <1>1 DEF TypeInv, TypeOK, Snapshots
  <2>2. saved.gstep = checkpoint.gstep
    BY <1>1 DEF saved
  <2>3. Walk!NotSaved.gstep = -1
    BY DEF Walk!NotSaved
  <2> QED BY <2>1, <2>2, <2>3
<1> QED BY <1>1 DEF saved, Walk!NotSaved

\* A pass through the inner loop is a step of work of the abstract run.
LEMMA TimeStepWorks ==
    ASSUME TypeInv, ClockInv, WalkInv, TimeStep
    PROVE  Walk!Work
<1>1. /\ phase = "step" /\ phase' = "step" /\ segment' = segment
      /\ segment \in Segments
      /\ stepsDone < getNumSteps(segment) /\ active # {}
      /\ gstep' = gstep + 1 /\ stepsDone' = stepsDone + 1
  BY TimeStepEffect DEF TypeInv
<1>2. stepsDone \in Nat /\ getNumSteps(segment) \in Nat
  BY <1>1, NumStepsNat DEF TypeInv, TypeOK
<1>3. ~Walk!SegmentClosed
  <2> SUFFICES ASSUME Walk!SegmentClosed PROVE FALSE
    OBVIOUS
  <2>1. /\ saved # Walk!NotSaved /\ saved.gstep = gstep /\ saved.segment > segment
    BY DEF Walk!SegmentClosed, saved
  <2>2. checkpoint # NoCheckpoint
    BY <2>1, SavedIffCheckpoint
  <2>3. checkpoint.gstep = gstep /\ checkpoint.segment > segment
    BY <2>1, <2>2 DEF saved
  <2> QED BY <1>1, <1>2, <2>2, <2>3 DEF WalkInv, Tracking
<1>4. \/ saved' = saved
      \/ /\ stepsDone' < getNumSteps(segment)
         /\ saved' = Walk!savedAt(gstep', segment, stepsDone')
      \/ saved' = Walk!savedAt(gstep', segment + 1, 0)
  <2>1. CASE checkpoint' = checkpoint
    BY <2>1 DEF saved
  <2>2. CASE /\ stepsDone' # getNumSteps(segment)
             /\ checkpoint' # NoCheckpoint /\ checkpoint'.gstep = gstep'
             /\ checkpoint'.segment = segment /\ checkpoint'.stepsDone = stepsDone'
    <3>1. stepsDone' < getNumSteps(segment)
      BY <1>1, <1>2, <2>2
    <3> QED BY <2>2, <3>1 DEF saved, Walk!savedAt
  <2>3. CASE /\ checkpoint' # NoCheckpoint /\ checkpoint'.gstep = gstep'
             /\ checkpoint'.segment = segment + 1 /\ checkpoint'.stepsDone = 0
    BY <2>3 DEF saved, Walk!savedAt
  <2> QED BY <2>1, <2>2, <2>3, CheckpointPosition
<1>5. /\ segment \in Walk!Segments /\ Walk!getNumSteps(segment) = getNumSteps(segment)
  BY <1>1 DEF Segments, Walk!Segments, getNumSteps, Walk!getNumSteps
<1> QED BY <1>1, <1>3, <1>4, <1>5 DEF Walk!Work, Tracking, status

\* Every step of the tracker is a step of the abstract run or leaves it alone.
LEMMA NextWalks ==
    TypeInv /\ ClockInv /\ WalkInv /\ [Next]_vars => [Walk!Next]_(Walk!vars)
<1> SUFFICES ASSUME TypeInv, ClockInv, WalkInv, [Next]_vars
             PROVE  Walk!Next \/ UNCHANGED Walk!vars
  OBVIOUS
<1> USE DEF status, Tracking
<1>0. saved = Walk!NotSaved <=> checkpoint = NoCheckpoint
  BY SavedIffCheckpoint
<1>1. CASE FreshStart
  <2>1. segment' \in Walk!Segments
    BY <1>1 DEF FreshStart, Segments, Walk!Segments
  <2>2. UNCHANGED saved
    BY <1>1 DEF FreshStart, saved
  <2>3. Walk!Begin
    BY <1>0, <1>1, <2>1, <2>2 DEF FreshStart, Walk!Begin
  <2> QED BY <2>3 DEF Walk!Next
<1>2. CASE Restart
  <2>1. saved # Walk!NotSaved /\ UNCHANGED saved
    BY <1>0, <1>2 DEF Restart, saved
  <2>2. /\ gstep' = saved.gstep /\ segment' = saved.segment
        /\ stepsDone' = saved.stepsDone
    BY <1>2 DEF Restart, saved
  <2>3. status' = IF Walk!reachedEnd(saved.segment) THEN "finished" ELSE "tracking"
    BY <1>2, <2>2 DEF Restart, reachedEnd, Walk!reachedEnd
  <2>4. Walk!Resume
    BY <1>2, <2>1, <2>2, <2>3 DEF Restart, Walk!Resume
  <2> QED BY <2>4 DEF Walk!Next
<1>3. CASE RefuseRestart
  <2>1. saved # Walk!NotSaved /\ UNCHANGED <<gstep, segment, stepsDone, saved>>
    BY <1>0, <1>3 DEF RefuseRestart, saved, position, clock
  <2>2. Walk!Refuse
    BY <1>3, <2>1 DEF RefuseRestart, Walk!Refuse
  <2> QED BY <2>2 DEF Walk!Next
<1>4. CASE BeginSegment
  <2>1. UNCHANGED <<status, gstep, segment, stepsDone, saved>>
    BY <1>4 DEF BeginSegment, resetPcActive, saved
  <2> QED BY <2>1 DEF Walk!vars
<1>5. CASE TimeStep
  BY <1>5, TimeStepWorks DEF Walk!Next
<1>6. CASE LeaveSegment
  <2>1. phase = "step" /\ UNCHANGED <<gstep, saved>>
    BY <1>6 DEF LeaveSegment, innerLoopDone, clock, saved
  <2>2. segment \in Walk!Segments
    BY <2>1 DEF TypeInv, Segments, Walk!Segments
  <2>3. CASE phase' = "finished" /\ UNCHANGED <<segment, stepsDone>>
    <3>1. Walk!Finish
      BY <2>1, <2>3 DEF Walk!Finish
    <3> QED BY <3>1 DEF Walk!Next
  <2>4. CASE phase' = "segment" /\ segment' = segment + 1 /\ stepsDone' = 0
    <3>1. Walk!CloseSegment
      BY <2>1, <2>2, <2>4 DEF Walk!CloseSegment
    <3> QED BY <3>1 DEF Walk!Next
  <2> QED BY <1>6, <2>3, <2>4 DEF LeaveSegment, innerLoopDone
<1>7. CASE EndOfSchedule
  <2>1. Walk!Finish
    BY <1>7 DEF EndOfSchedule, Walk!Finish, saved, position, clock
  <2> QED BY <2>1 DEF Walk!Next
<1>8. CASE Crash
  <2>1. Walk!Interrupt
    BY <1>8 DEF Crash, Walk!Interrupt, saved, position, clock
  <2> QED BY <2>1 DEF Walk!Next
<1>9. CASE UNCHANGED vars
  BY <1>9 DEF vars, position, clock, saved, Walk!vars
<1> QED BY <1>1, <1>2, <1>3, <1>4, <1>5, <1>6, <1>7, <1>8, <1>9 DEF Next, Run

\* The time loop, with its emission, decays, losses, checkpoints, crashes and
\* restarts, implements the walk through the schedule: no step is repeated under
\* another segment, skipped or counted twice.
THEOREM Refinement == Spec => WalksTheSchedule
<1>1. Init => Walk!Init
  BY DEF Init, Walk!Init, Walk!NotSaved, status, saved, Tracking
<1>2. Init => WalkInv
  BY DEF Init, WalkInv, Tracking
<1>3. Spec => []WalkInv
  BY <1>2, NextWalk, TypeInvariant, ClockInvariant, PTL DEF Spec
<1> QED
  BY <1>1, <1>3, NextWalks, TypeInvariant, ClockInvariant, PTL
     DEF Spec, WalksTheSchedule, Walk!Spec
=============================================================================
