# TLA+ models of OPALX

OPALX tracks charged-particle bunches through an accelerator. It is an MPI program
whose ranks run one time loop in lockstep, and whose runs take days: they are cut
short by batch limits and resumed from a checkpoint. The models in this directory
are about what is discrete in it: the schedule of steps, which beams move in a
step, what is saved and when, and what a resumed run does. Fields, pushes and
distributions are floating-point numerics, which model checking says nothing about.

Source paths below are relative to `src/src/`.

## 1. The system

| part | state it keeps | operations | talks to |
|---|---|---|---|
| Step-size schedule (`Algorithms/StepSizeConfig`) | sorted list of (DT, ZSTOP, MAXSTEPS), iterator | advance to a position, to a stored position, next segment | tracking loop |
| Tracking loop (`Algorithms/ParallelTracker`) | segment index, steps done in it, end-of-line flag, current time step | `execute`: start or resume, segments, steps, checkpoint, dumps | everything below |
| Bunch (`PartBunch/PartBunch`) | time, time step, global step; per container: particles, active flag, stop flag, reference particle | reset, freeze, refresh after emission, advance references | loop, emission, decay, checkpoint |
| Emission sources (`Distribution/FlatTop`, `EmittedFromFile`, `OpalFlatTop`, `SamplingBase`) | sorted birth times and a cursor, or a time profile; numbers emitted | emit between two times, share among ranks, done?, preferred time step | loop asks them once a step and selects the time step by them |
| Global processes (`Processes/GlobalProcesses`) | decay constants, daughter container | decay particles of a step | bunch |
| Checkpoint (`Structure/CheckpointFile`) | one HDF5 file, one temporary | `write` by all ranks, `read` | loop, TRACK |
| Diagnostic files (`Structure/DataSink`, H5 and SDDS writers) | per container a phase-space and a statistics file | append, cut back to a checkpoint | loop, TRACK |
| Loss files and monitors (`Structure/LossDataSink`, `AbsBeamline/Monitor`) | records in memory on every rank, a file of sets per element | record a crossing, sort into passages, save, cut back | loop, restart |
| TRACK, RUN (`Track/*`) | the block of settings | pad the schedule, refuse or accept a restart, build the rest | all |
| Index map and orbit threader (`Algorithms/IndexMap`, `OrbitThreader`) | path-length intervals with the elements in them | thread the lattice once before tracking; query an interval | loop (out of bounds is the end of the line) |
| Boundary-controlled stepping, turn counter (`Algorithms/BorisStepControl`, `DirectedTurnCounter`) | stack of bisected intervals, turns done | propose, split, accept; arm, count, shorten the last step | loop, optional modes |
| Objects, parser, expressions (`AbstractObjects`, `OpalParser`, `Expressions`, `Attributes`, `ValueDefinitions`, `Lines`) | directory of named objects with cached values, stack of statement streams | define, redefine, invalidate, execute, loop, stop | before and between TRACK commands |
| Space charge (`SpaceCharge`, `PartBunch/Binning`) | meshes, trees, energy bins | solve | loop, numerics |
| Elements, field maps, geometry (`AbsBeamline`, `Fields`, `Structure/BoundaryGeometry`) | parameters, maps | fields, apertures | loop, numerics |

What is hard here is not shared memory: it is the combination of *several beams in
one loop* (each reaches the stop of a segment in another step, beams fill and empty
in the middle), *kill and resume at any step* (three kinds of files, written at
different points of a step, have to agree again), and *collective I/O* (ranks leave
barriers and closes at different times, and fail alone). The properties that make
the parts correct:

* schedule and loop: every step counts against one segment; MAXSTEPS bounds them,
  restarts included; a stored position is that of the next step; every job ends;
* bunch: a populated container is moved or frozen, never both, never forgotten; a
  frozen one stays where it is until the next segment;
* checkpoint: the published file is complete, replaced atomically, readable by the
  unchanged input; a kill loses less than CHECKPOINTFREQ steps;
* files: after any number of kills they have the records of an uninterrupted run;
* emission: every record is created once, on one rank, in the step it is born in, and
  never in more storage than was allocated;
* boundary control: bisected intervals tile the nominal step, a rejected trial leaves
  no trace, steps and turns are counted as they are travelled;
* input: what a command or a run reads is what the definitions say at that moment; STOP
  ends the reading of its file, ENDTRACK that of its track block, and neither anything else;
* monitors: a crossing is in the file once, in the set of its passage, restarts included;
* index map: the tracker is given the elements around a position, in every turn of a ring,
  and is told that the line has ended only past its last stop.

`PROJECT.json` lists every component with its status, and under "hazards" the places
where this goes wrong and which property looks there.

## 2. Modules

```
StepSizeConfig  <--  TrackingRun (abstract)          CheckpointStore (abstract)
      ^                   ^ refines                        ^ refines
      |                   |                                |
      +----------  ParallelTracker  <-- MCTracker     CheckpointFile <-- MCCheckpoint
                     ^    ^                                ^
                     |    +-- ParallelTracker_proofs       +-- CheckpointFile_proofs
                     |                       ^
                TrackerOutput  <-- MCOutput  |
                     ^                       |
                     +-- TrackerOutput_proofs

BorisStepControl    <--+                              EmissionSources <-- MCEmission
DirectedTurnCounter <--+-- BoundaryStepping <-- MCBoundary     ^
                                     ^                         +-- EmissionSources_proofs
                                     +-- BoundaryStepping_proofs
                                                      MonitorFiles <-- MCMonitor
IndexMap <-- OrbitThreader <-- MCOrbit                         ^
                   ^                                           +-- MonitorFiles_proofs
                   +-- OrbitThreader_proofs
                                                      InputProgram <-- MCInput
                                                               ^
                                                               +-- InputProgram_proofs
```

**StepSizeConfig** is class `StepSizeConfig`. The list iterator is an index 0 ..
`NumSegments`, the last one being `end()`. Budgets are given as their running sum
`StepsBefore`, so that the sum of MAXSTEPS needs no recursion. `sortAscendingSStop`
is the assumption that stops ascend.

**ParallelTracker** is `ParallelTracker::execute` with the part of `PartBunch`,
the emission sources, the decays and `CheckpointFile::read` it works on. All ranks
hold the same control state and take the same branches, so one process stands for
the job.

| code | model |
|---|---|
| `stepSizes_m` iterator and `segmentIndex` | `segment` |
| `stepsCompletedInSegment` | `stepsDone` |
| `restarting_m && firstSegment` | `resuming` |
| `getGlobalTrackStep`, `getT`, `getdT` | `gstep`, `time`, `dt` |
| `getTotalNum() > 0` per container | `nonEmpty` |
| `nextGlobalIndex_m >= size()` per source with an inventory | `spent` |
| `pcActive_m`, `pcAtSStop_m` | `active`, `atSStop` |
| `get_sPos` per container | `sPos` |
| `globalEOL_m` | `globalEOL` |
| the file `<input>_checkpoint.h5` | `checkpoint` |
| up to the outer loop of `execute`, fresh run | `FreshStart` |
| `CheckpointFile::read` and the checks at the top of `execute` | `Restart`, `RefuseRestart` |
| head of the outer loop | `BeginSegment` |
| one pass through the inner loop | `TimeStep` (`IntegrationStep`, `Push`, `WriteCheckpoint`) |
| tail of the outer loop, `globalEOL_m` test | `LeaveSegment` |
| leaving the outer loop | `EndOfSchedule` |
| the job is killed | `Crash` |

Path lengths and times are integers; a reference particle gains `Speed` per unit of
time. Decay daughters share the reference particle of their mother (`Root`). What a
step does to the particles is a choice of which containers receive emitted
particles, have a decay, and lose their last particle, and which inventories are used
up. `execute` selects the time step again after emission: in the step that uses up an
inventory the clock already advances by the step that follows. `snapshot` also records the
active containers of the live run (`liveActive`), which the code does not save: they
are history for the properties. `crashes` is bounded by `MaxCrashes`.

**TrackingRun** is what such a job promises without beams, clocks or files: it walks
through the schedule one counted step at a time, saves where the next step is, and
continues there. One clause is not obvious: once a position in a later segment has
been saved, no more steps are done in the current one (`SegmentClosed`), since an
interruption would repeat them under another segment.

**TrackerOutput** adds the files a step appends to. `StatWriter` and the HDF5 writers
run before the step counter is incremented and before the checkpoint, so a kill can
fall between them (`KilledInStep`). A restart cuts phase space back by time and
statistics by path length (`rewindToCheckpoint`) before `execute` decides whether to
refuse, and can be killed while it does: phase-space files are replaced by rename,
statistics are rewritten in place.

**CheckpointFile** is `CheckpointFile::write` rank by rank. A rank is in one of six
stages; a barrier or a collective HDF5 call lets a rank pass when all have come as
far (`AllReached`), and ranks then go on at their own pace, into the next write too.
Each call in `Faults` can fail on one rank at a time, up to `MaxFailures` times. A
failed write or close takes a rank into the catch handler, where a second, collective
close may wait for the others for ever; an exception out of `write` ends in
`MPI_Abort`. `Resubmit` is `CheckpointFile::read` in a new job.

**CheckpointStore** is its promise: a value replaced atomically, only after every
rank has returned from the replacement before, and a rank returns only when its
checkpoint is in place.

**EmissionSources** looks at emission more closely. The sources of all containers are
asked one after the other in every step (`turn`), within a loop reduced to what they
see of it: the clock, the time step in force, and which containers are frozen.

| code | model |
|---|---|
| `getT`, `dtCurrentTrack_m`, the `dt` given to `emitParticles` | `time`, `dtTrack`, `dt` |
| `buildInventory`, `records_m[i].birthTime` | `birthTimes` |
| `nextGlobalIndex_m`; `totalEmitted_m` of FlatTop | `next`; `emitted` |
| `getLocalNum()` and `R.size()` of a container on a rank | `localNum`, `Capacity` |
| global phase shift | `startTime` |
| `computeLocalEmitRange`, `computeLocalEmitCount` | `emitOffset`, `emitCount` |
| `emitParticles` of EmittedFromFile and OpalFlatTop, its two exceptions | `EmitInventory`, `EmitFails` |
| `emitParticles` of FlatTop | `EmitProfile` |
| `continue` for a container at the stop | `SkipFrozen` |
| the step before and after emission | `BeginStep`, `FinishStep` |
| a new segment; migration and losses of particles | `NextSegment`, `Redistribute` |

Times are integers. The profile of FlatTop is a choice of the number it gives in a step
that begins before the end of its window; the random birth times of OpalFlatTop are an
instance like those of a file; `ascending` is what sorting the records makes of them. The
sums over ranks of `computeLocalEmitRange` are running sums (`sumBelow` of `evenShares` and of
the `rooms` that are left), as the loops of the code form them. `made` and `heldBack` are
history for the properties. The clock is bounded by `Horizon`.

**BorisStepControl** is the class template of that name: a stack of intervals, each with a
depth, of which the top is tried next; `split` puts its two halves in its place, `accept`
takes it off and moves `elapsed`. The code keeps only depths in a fixed array and works
out widths from them; the model keeps width and end of an interval, and `TilesTheStep`
says that they agree. **DirectedTurnCounter** is armed behind the launch plane and counts on
the way back through it; `canReturn` tells whether the last turn ends in the next step.

**BoundaryStepping** is the loop of `execute` around them on a ring, with one beam and
without files: the same loop as in ParallelTracker at a finer grain, where a step may take
several passes. Nothing is lost or emitted.

| code | model |
|---|---|
| `boundarySchedule`, `boundaryNominalStart` | `schedule`, `nominalStart` |
| `terminalStepDt_m`, `boundaryStepDt_m`, `selectDT` | `limits`, `selectDT` |
| head of a pass: schedule a nominal step, limit it to the last crossing of the plane | `BeginStep`, `TerminalFails` |
| `exceedsMaximumStep` before anything is moved | `RejectUntried` |
| first half drift and the midpoint comparison | `HalfDrift` |
| `rejectTrial`, `reverseTrialDrift` | `RejectTrial` |
| kick, second half drift, monitors, clock, reference, turns, stop test | `Commit` |
| an interval that can be neither accepted nor split | `AcceptFails` |
| end of a segment, of the run, or too few turns | `EndSegment` |

Time is counted in ticks (an interval is bisected down to `TimeFloor`) and path in half
ticks of flight, so that midpoints are integers. Particles are offsets from the reference;
a set of elements at a position is what `DeviceExternalField` compares.

**InputProgram** is `OpalParser` with its stack of streams, the structured statements, the
cached values of deferred expressions and `OpalData::update`. `control` is the C++ call
stack of `run`, `WhileStatement::execute` and statements; `inputs` is the stack of streams;
`stopped` is `stopFlag` of each parser. An expression is a number added to at most one
name, which is enough for chains of references; numbers saturate at `Cap`, and a cycle of
references is an error, as in the code. The nested calls of `evaluate` are rounds: each
gives a value to the expressions whose reference has one, and after as many rounds as there
are names (`evaluated`) what is still unknown refers to an unknown name or to itself. What the
calls reach on their way (`asked`) is what they leave cached. `Statements` is the set of
all statements, nested ones included. `read` is history: what was read last and what should
have been; so is `halted`: which parser has executed a STOP, whether a loop has tested its
condition since ("looped"), and which file had a STOP in a track block ("spared"). The parser of
a track block reads the stream of the file; a STOP there sets its `stopFlag` only
(`OpalParser.cpp:151-154`), so the parser of the file reads on behind it.

**MonitorFiles** is a `Monitor` of either type with its `LossDataSink`: particles cross a
fixed number of steps before or after the reference, on any rank, and can be lost. A
temporal monitor saves at each passage; a spatial one keeps everything and has to work out
passages at the end. `splitSets` is where the sets start among the records of a rank: an even
split (`evenStarts`), then two iterations in which a record beyond the middle of the mean times
of two sets, taken over all ranks, opens the next one (`opened`, `reassigned`). `savedSets` is the
list of records sorted into sets one by one. `Kill`, `Restart` and `StartAfresh` of another job
include the rewind by `GlobalTrackStep`: `keptSets` are those before the first of a step at or
after the checkpoint.

**IndexMap** has the map and its queries as operators, with a position doubled so that the
code's "one rounding below" is an odd number; **OrbitThreader** fills it: back by the length
of the bunch (`StepBack`), then along the line or once round the ring, in steps whose
middle stands for all (`PlainStep`) or that are cut where the support changes
(`ResolvedStep`). `Launches` says what is threaded: ring or line, closed orbit or not, linear
maps, path length at the start, length of the tail of the bunch, drift of one step.

Operators with the comment "Faulty variant" are not used by the models: each is a
plausible bug in the definition that follows it, and `PROJECT.json` ("mutants")
names the property that fails when the variant takes its place.

## 3. Runs

| run | what it shows | bounds |
|---|---|---|
| `TrackerRestart` | all properties of the loop with two beams, restarts and an end of line | 3 segments of equal DT, budgets 5, 3, 5, checkpoint every 2 steps, 2 kills |
| `TrackerEmission` | emission, decay into an empty container, early start, refusal of restarts: no populated container is forgotten | 2 segments of different DT, 3 containers, 1 kill |
| `CheckpointFaults` | complete and atomically replaced file under failures; nobody waits for ever unless a collective write fails on one rank alone | 3 ranks, 2 writes, 3 failures, 1 kill |
| `OutputRewind` | the files follow the run | 2 beams, dumps every 3, checkpoints every 2 steps, 2 kills |
| `EmissionSharing` | every record is created once and in its step, storage suffices or the run ends | 3 ranks with 2 particles of storage in each of 2 containers, 2 inventories of 4 and 3 records, 1 flat-top, 7 units of time or a little more |
| `BoundaryControl` | intervals tile every step; clock, reference and particles stay together; steps and turns are counted right; nothing is observed twice | a ring of 300 with a magnet of 16 or two long ones, every subset of 4 particles, DT of 32 and 16 ticks, bisection to depth 5, 36 trials; 2 turns, or 2 segments by path |
| `InputProgram` | what is executed reads current values; elements are rebuilt; a STOP outside of loops and track blocks ends its file, ENDTRACK its block, and no more; every program ends | all files of up to 3 of 22 statements after two definitions, 2 called files, `Cap` 6 |
| `MonitorFiles` | the temporal file follows the run, the spatial one has every crossing once, in its set if passages are well separated; no restart is refused | 2 ranks, 3 particles one step before or behind, 2 passages in 10 steps, checkpoint every 4, 2 restarts |
| `OrbitIndex` | queries, ranges, end of line and return to the launch plane | 2 elements with 14 supports each, circumference 8, design period 10, 3 steps, stop at 10, at most 8 steps back |

Why these are enough: two beams of different speed reach the stop of a segment in
different steps and one segment ends by its budget, so both ways of ending a segment,
frozen beams beside moving ones, and checkpoints on and off segment ends all occur;
with two kills a restart is followed by a restart. Three ranks are the fewest with
rank 0, a rank ahead and one behind, and the fewest among which the deficit of one rank
can shift the records of another. The storage is small enough that a rank is full while
others are not, and that all are. `EmissionSharing` gives both inventories the same
emission step (see `EmissionTwoSources` below); `Horizon` is after the last birth. Dump and checkpoint intervals have no common
divisor, so that every order of the two occurs. The bounds are `MaxCrashes`,
`MaxFailures`, `MaxWrites`, `Horizon` and the schedule itself, which is finite.

In `BoundaryControl` 32 ticks can be bisected exactly five times, so that depth, time floor
and (with 36 trials for up to 63) the budget all come into play; the particles reach from
behind the short magnet to beyond it, and two turns are the fewest of which only one is the
last. Three statements are enough for what goes wrong with the order of a definition, an
evaluation and a redefinition, and for a loop or block between two others; the preamble
saves two more. One of the loops has a STOP in its body. `Cap` is above any number a loop counts to. In `MonitorFiles` the bunch is
as long as two steps and two passages are six steps apart; a checkpoint falls before, between
and after them, three particles on two ranks can be divided unevenly, and two restarts allow
a fresh start after a restart. In `OrbitIndex` the supports overlap, touch, repeat, contain
the launch point, lie across the seam or beyond the last stop, where no element is too short for
the time step; one is that of a marker, which never is; the circumference differs from the design period,
since the index has to use the one that was measured. `MaxBack` bounds the steps back; the
tail of the bunch is reached long before.

`CHECK_DEADLOCK FALSE` in every configuration: a finished, refused or aborted job stops,
the clock stops at `Horizon`, and a job hanging in the handler of `write` may never move
again.

Runs with "expect": "violation" are defects of the code, which breaks what its own comments
say:

| run | what happens |
|---|---|
| `EmissionTwoSources` | with two sources of different emission step, the clock passes births of one in the step in which the other is used up; the next step aborts the run |
| `MonitorEmptyRank` | a rank that recorded nothing leaves `splitSets` before the reductions of the others |
| `OrbitRingRestart` | a ring threaded from a positive path length takes its first crossing of the launch plane for the return |

Other places where code and text differ show in the models but have no run of their own (the
one on two iterations only in an instance with more particles than that of the run):

| code | text |
|---|---|
| a checkpoint on the last step of a segment stores that step's DT with the next segment, and a restart refuses it if the DTs differ (`Algorithms/ParallelTracker.cpp:233-237`) | the message: "restart input changes the time-step schedule" |
| the checkpoint of the step that leaves the lattice names the next segment, since the end of the line is tested later (`ParallelTracker.cpp:921`, `944`) | `Structure/CheckpointFile.h:22`: "Segment containing the next integration step", of which there is none |
| one ZSTOP for several DTs is padded; a beam past the window of the stop test is never stopped (`ParallelTracker.cpp:906`), nor under boundary control, where the window is that of the last interval (`:905`) | `Track/TrackCmd.cpp:101-102` |
| a decay in a frozen container activates the daughter, and the shared reference moves the frozen mother (`ParallelTracker.cpp:1602`) | `PartBunch/PartBunch.h:71` |
| the barrier before the rename is before the close (`Structure/CheckpointFile.cpp:64`, `467`) | `CheckpointFile.h:30-31`: "only after every MPI rank has closed the temporary HDF5 file" |
| rows of a frozen beam, written at one path length, are repeated after a restart (`Structure/DataSink.cpp:312`) | `DataSink.h:77` |
| an attribute given with `=` is evaluated while it is parsed, from stale caches (`OpalParser/OpalParser.cpp:293`) | `Expressions/SAutomatic.h:32-35` |
| two iterations of `splitSets` do not find the passages of a bunch that loses most of its particles between them: with five particles on one rank, four of them lost after the first passage, the boundary stays among the hits of the first passage (`Structure/LossDataSink.cpp:1215`) | "Two iterations should be sufficient for Opal-T where the temporal separation is large" (`LossDataSink.cpp:1186-1187`) |
| STOP in the body of a WHILE ends the round, not the loop (`OpalParser/WhileStatement.cpp:77`) | `BasicActions/Stop.cpp:22-23`: STOP "terminates program execution or reading of a called file" |
| STOP in a TRACK block ends the block, as ENDTRACK does, for it stops the parser of the block only (`OpalParser/OpalParser.cpp:151-154`); the parser of the file goes on in the same stream, with the statements behind the STOP (`Track/TrackCmd.cpp:264`), also in the main file | the same; `Quit.cpp:22-23` says so of QUIT |

The properties are stated around them: `TrackerRestart` has equal DTs and no decay,
`OutputRewind` beams that stop together and segments of different DT, `CrossingsInTheirSet`
passages that are separated (`separated`: a revolution outlasts the bunch in a higher ratio than
that of all crossings to those of a passage), `ReadsCurrent` is about what execution reads,
`StopIsExact` leaves two cases out of what `Stop.cpp` says: after a STOP in a loop it claims only that
nothing is executed before a condition is tested again, and after a STOP in a track block only
that nothing more of the block is; what becomes of the file is left open then. Without either exception
TLC finds it violated (for the track block by the file `TRACK; STOP; TRACK;` after the
preamble: the second TRACK is executed).

A statistics file is rewritten in place while it is cut back, so a job killed there loses
rows of steps before the checkpoint for good. `TrackerOutput` has this step
(`KilledInStatisticsRewind`); that rows are never lost is therefore no property of it.
Nor does `StepEmitsItsBirths` hold for a container that was frozen at the stop with
births to come (`heldBack`): the sources are not asked while the clock runs on, and the
run is aborted when the next segment frees the container.

In `TrackerRestart` all time steps are equal; there `CheckpointResumable` says that the
stored position is accepted. Two more conditions:

* No segment is empty. `TrackCmd::getMaxSteps` accepts MAXSTEPS = 0 although its message says
  "has to be positive"; the checkpoint at the end of the segment before names the empty one,
  which the live run passes over and a restart refuses.
* A container that loses its last particle stays active in the live run until the end of
  the segment and keeps its reference particle moving; `CheckpointFile::read` switches it
  off. `NoEmptyActive` excludes these checkpoints.

**Fairness.** `FairSpec` of ParallelTracker has weak fairness on `Run`: the program
is sequential and never waits, and an operator resubmits a killed job. `Crash` has
none. `FairSpec` of CheckpointFile has weak fairness of each rank's own progress and
of `Resubmit`; failures and kills have none. `AllWritten` excludes behaviours in which a
rank's collective write fails: the code then hangs. InputProgram and OrbitThreader
have weak fairness of `Next`: both are sequential programs that never wait. The other
modules have safety properties only and no fairness.

## 4. Proofs

For every schedule, set of beams, emission and decay, checkpoint frequency and number
of kills that satisfy `ScheduleAssumption` and `TrackerAssumption`, TLAPS proves of
`ParallelTracker!Spec`:

| theorem | module | property |
|---|---|---|
| `TypeCorrect` | ParallelTracker_proofs | `TypeOK` |
| `BudgetCorrect` | ParallelTracker_proofs | `MaxStepsHonoured` |
| `ActivityCorrect` | ParallelTracker_proofs | `ActivityPartition` |
| `ResumeCorrect` | ParallelTracker_proofs | `ResumeKeepsPopulatedActivity` |
| `ClockCorrect` | ParallelTracker_proofs | `ClockOrdersSteps` |
| `LostWorkCorrect` | ParallelTracker_proofs | `LostWorkBounded` |
| `MidSegmentAccepted` | ParallelTracker_proofs | `MidSegmentResumable` |
| `FrozenNear`, if nothing decays (`NoDecay`) | ParallelTracker_proofs | `FrozenNearStop` |
| `FrozenStays`, if nothing decays | ParallelTracker_proofs | `FrozenAtStop` |
| `CheckpointAccepted`, for one DT and no empty segment (`OneTimeStep`, `NoEmptySegment`) | ParallelTracker_proofs | `CheckpointResumable` |
| `Refinement` | ParallelTracker_proofs | `WalksTheSchedule` |

The conditions are about the input and exclude what section 3 lists as divergences: a
daughter that moves its frozen mother, the DT stored with a segment that has another, and
MAXSTEPS = 0. They are hypotheses of those three theorems alone, not assumptions of the module.

It also proves of `CheckpointFile!Spec`, for any number of ranks, writes, failures and kills:

| theorem | module | property |
|---|---|---|
| `CheckpointTypeCorrect` | CheckpointFile_proofs | `TypeOK` |
| `CheckpointComplete` | CheckpointFile_proofs | `PublishedComplete` |
| `CheckpointUnmixed` | CheckpointFile_proofs | `WritesOwnFile` |
| `CheckpointAtomic` | CheckpointFile_proofs | `ReplacesAtomically` |

of `BoundaryStepping!Spec`, for every ring, bunch, run, depth of bisection and budget of
trials:

| theorem | module | property |
|---|---|---|
| `TypeCorrect` | BoundaryStepping_proofs | `TypeOK` |
| `Tiling` | BoundaryStepping_proofs | `TilesTheStep` |
| `ClockCorrect` | BoundaryStepping_proofs | `ClockFollowsBeam` |
| `Observation` | BoundaryStepping_proofs | `ObservedOnce` |
| `ElementsMet`, if elements leave room (`RoomBesideElements`) | BoundaryStepping_proofs | `NoElementSkipped` |
| `CountersCorrect`, if steps resolve the ring (`ResolvingSteps`) | BoundaryStepping_proofs | `CountersFollowPath` |

of `TrackerOutput!OutSpec`, for every schedule, dump and checkpoint frequency and every kill, in
a step, in the final dump or in the middle of a rewind:

| theorem | module | property |
|---|---|---|
| `PhaseSpaceCorrect`, for loaded beams (`LoadedBeams`) with one velocity (`OneSpeed`) or without apertures | TrackerOutput_proofs | `PhaseSpaceFollowsRun` |
| `StatisticsCorrect`, for loaded beams with one velocity and a clock that does not start before zero | TrackerOutput_proofs | `StatisticsNeverRepeat` |

both for runs with `LeavesForGood`: if a job leaves the lattice before its last segment, the next
segment has another DT. `DifferentSteps` shows that a schedule in which DT changes at every
segment has no other runs.

of `OrbitThreader!Spec`, for every lattice, step, launch and stop:

| theorem | module | property |
|---|---|---|
| `EndOfLine` | OrbitThreader_proofs | `EndOfLineIsPastStop` |
| `RingReturn`, for an orbit of at least half the design circumference and a launch at 0 or without a tail | OrbitThreader_proofs | `RingReturnIsATurn` |
| `IndexCorrect`, if no field begins in front of a line with linear maps (`NoFieldInFront`) | OrbitThreader_proofs | `IndexFollowsPath` |

of `MonitorFiles!Spec`, for any number of ranks, particles, passages, kills and restarts:

| theorem | module | property |
|---|---|---|
| `FileCorrect`, with `MonitorTypeCorrect` and `TemporalCorrect` as parts | MonitorFiles_proofs | `FileFollowsRun` |
| `RewindCorrect` | MonitorFiles_proofs | `RewindAccepted` |

of `EmissionSources!Spec`, for any number of ranks, containers and sources, any births and any
storage:

| theorem | module | property |
|---|---|---|
| `EmissionTypeCorrect` | EmissionSources_proofs | `TypeOK` |
| `SharesAreExact` | EmissionSources_proofs | `ShareExact` |
| `BirthsOnce` | EmissionSources_proofs | `EachBirthOnce` |
| `StorageSafe` | EmissionSources_proofs | `StorageRespected` |
| `BirthsInTime` | EmissionSources_proofs | `BornInTheirStep` |
| `StepsEmitTheirBirths`, for one emission step (`SameEmissionStep`) | EmissionSources_proofs | `StepEmitsItsBirths` |
| `NothingOverdue`, for one emission step | EmissionSources_proofs | `OverdueOnlyIfHeldBack` |

The last two are false without their condition, as the run `EmissionTwoSources` shows.

And of `InputProgram!Spec`, for any input files and any bound on numbers:

| theorem | module | property |
|---|---|---|
| `InputTypeCorrect` | InputProgram_proofs | `TypeOK` |
| `InputUpdateRefreshes` | InputProgram_proofs | `UpdateRefreshes` |
| `InputReadsCurrent` | InputProgram_proofs | `ReadsCurrent` |
| `InputStopIsExact` | InputProgram_proofs | `StopIsExact` |

Type correctness of the tracking loop is inductive with the constants' assumptions. Its
other invariants are not: what they say of the running job must also be known of the checkpoint, from which
`Restart` restores it. `BudgetCorrect` therefore carries the same bound for the
stored position; `ActivityCorrect` that a resumed job has its flags in order before its
first step; `ResumeCorrect` that those of the file are in order as the live run's are; `ClockCorrect` that time and steps of the checkpoint are ordered
against those of the job; `LostWorkCorrect` rests on the global step being a multiple
of CHECKPOINTFREQ exactly when a checkpoint is written. `Refinement` needs that a job
which has saved a position in a later segment takes no further step in the current
one: the segment is closed because no container is active or the budget is spent, and
`anyPcActive` and the loop condition see exactly that.

The invariant of the checkpoint file says what its barriers give: ranks are at most one
write apart; who is behind in a write stands at its end while the others stand at the
beginning of the next; a rank past a barrier has seen all ranks at it. From this follows
that the temporary file in use belongs to the write all ranks are in, and that it has the
parts of all ranks when the first of them is past the barrier before the close, which is
when rank 0 may rename it.

The invariant of boundary-controlled steps is `Types /\ Scheduled /\ Together`. `Scheduled`
says of the stack of intervals, in every phase, that it is `Contiguous` from the elapsed time
to the end of the nominal step, and `Deep`: below the top every place has been bisected once
more than the one under it. The second is what bounds the stack by the depth, hence by the
code's array of `maximumDepth + 1` entries, which the trial budget alone would not. `Together`
relates clock, reference and particles in each phase of a trial; it needs that the clock,
which is set from the schedule, and the reference, which is advanced by the bunch time step,
take the same width, also when the last turn has replaced a half finished schedule. The
lemmas `SplitOK` and `AcceptOK` are the two steps of the stack.

`FrozenInv` is the invariant behind the two theorems on frozen containers. It says where a frozen container is only
while a step may look at it: between two segments the flags are still those of the segment
before, and `BeginSegment` clears them. Its second half is the same for the file. What keeps a
frozen container in its place is `OwnReferences`: without decays no two populated containers
have the same reference particle. `ResumableInv` separates a checkpoint inside a segment, which
names an unfinished segment and its DT, from one at an end, which names the next segment with
the DT of the one before; only the second kind needs the conditions.

`ElementsMet` adds to the invariant of boundary control that a drifted interval which could
still be bisected was not too long to be tried: it covers at most a quarter of the shortest element
(`Tried`). Each of its halves is then no longer than an element, nor than what the ring has
besides one if that is at least an eighth of the element, and so cannot enter and leave the
one or the other between two points that are compared. A smaller gap can be missed: on a ring
of 28 with an element of 26, a half step of 3 passes over the gap of 2 and no comparison sees
it.

`CountersCorrect` has one hypothesis, what DirectedTurnCounter.h asks of its callers (43, 63: "a
crossing-resolving DT"): a time step covers at most a quarter of the ring, and cannot pass over the
half on which the counter is armed. `UpdateFollows` shows that such a step keeps the counter right (`TurnOK`):
it is armed from somewhere within the tolerance past the opposite point until the plane, so that
neither the launch nor a step that ends on the plane is a turn. `TerminalExact` shows that the
step the last turn allows ends on the plane if it would otherwise pass it. It needs the reference at an even
position, which `Together` gives; a shortened step can then always end exactly, so that the
refusal beyond the tolerance never happens in the model. `Counted` and `Nominal` carry both through the
bisection: no interval begun passes the requested turns, and a nominal step is the step of the
segment or ends on the plane, where the run stops and no later step is counted.

A monitor's invariant is `Types /\ Ordered`: sets of the file, passages not yet saved and
the step to come ascend, and a checkpoint separates the sets by its step. This is what
the monotonicity test of the rewind asks. `Follows` adds which passages the file of a temporal monitor
has: those of the run, of which the ones the checkpoint knows come first and before its step. A
cut at the checkpoint (`CutFollows`) then leaves exactly those. For a spatial monitor `Recorded`
says that the records in memory are the crossings of the job, each of them once: two with the same
particle and passage would be of the same step, since the passages of a particle are a revolution
apart (`Earlier`, `StepRecords`). Whatever the mean times are, the starts of the sets of a rank
ascend from its first record to behind its last (`Splits`, `AllSplit`), hence each record is in
one set (`InOneSet`), each crossing in one set of the split (`CrossingInOneSet`), and one set of the
file has it, since an empty set is left out without moving any record (`WrittenOnce`). That all of a
crossing's ranks agree on the set it should be in is not part of it.

The files of a run need more than the loop's own invariants. `GoesOnInv` says that a job which is
at the step of its checkpoint, resumed or not, still has integration steps to do before a final dump
can add records that the checkpoint does not know of; this is where `LeavesForGood` enters. If
the end of the line was met in the last step of a segment and the next has the same DT, a kill
during the final dump leaves a record of a step from which the restart then goes on, with the
record in the file. `PhaseSpaceInv` and `StatisticsInv` have two halves: the files while the job
tracks, and what a cut at the checkpoint would leave of them (`H5CutLeaves`, `StatCutLeaves`), also of
files that were already cut (`H5CutTwice`). For a populated container the number of records is that of the
dumps up to the step; an emptied one stops there. `TogetherInv`
is what one velocity gives: beams are at one place, and a restart in the middle of a segment moves
something, which otherwise the lack of losses gives. Statistics are cut by path, so that a row must
lie beyond the checkpoint when its step does (`PathInv`). The clock condition is needed for that: before
time zero a reference particle stands still, and its rows repeat one path length.

The index of a line or ring is a chain. `Threaded` says that its entries follow each other from
where the path was turned forward to where the last stretch was added (`Joined`), of which tidying up
changes only the end of an empty last entry (`Tidied`). `EndTold` is what `EndOfLine` needs of it.
`Followed` relates the chain to the path: each entry holds for all of its stretch (`Met`), without
resolved supports by the middle of each step; visits are the first ones (`FirstVisits`); the period of a ring
is the length of the path from the launch and a number of turns, so that an element met in one turn is met at
the same place in every other (`Complete`). What remains is about the queries, which the code finds by
scanning entries and cutting an interval into turns: `AnswersAreExact`, `NothingIsMissed` and
`RangesAreFirstVisits` show that they give the elements of all entries that the interval overlaps, and no
other. `NoFieldInFront` excludes a rounding: an end at a negative position is rounded
toward zero, not down, and a query that begins there still finds the element that has ended. The
hypotheses of `RingReturn` exclude what the run `OrbitRingRestart` shows and orbits that close before the
return is looked for. `EndOfLine` has none.

For emission, `SharesAreExact` is a statement about the operators: the even shares are below
the free space of each rank, the rooms beside them take the deficit in the order of ranks, and
the running sums of both partition what is due. It is proved by induction over ranks, for the
recursive function `sumBelow`, and every other theorem of the module uses it.
`Births` says that every record up to the cursor has been created once and no other, `Store`
that no rank is beyond its capacity, and that a run ended as full had less space than
births. `Schedule` is about the births to come, within a step too: nothing that should
have been born by now is left of a source that was asked, and `dt` is still the time step
which the births of all sources together select. That breaks when one inventory is used up and
another has a different emission step.

For input programs, the first half of the proofs is about evaluation alone. `Evaluated` says that
the rounds end: as long as one finds anything there is a name less to find, so that one round
more changes nothing. `LeastValuation` says that they find no more than any valuation that
satisfies the definitions; it is proved by induction over rounds, with what the library has on
well-founded relations, from which `InductionUpTo` gets a least counterexample. Both together
give `CachingKeepsValues`: whatever part of what an evaluation finds is cached, later
evaluations find the same. A cache is `Sound` if its values are those that the definitions give
without any cache. `InputInv` is `Types /\ Current`: as long as nothing is modified the cache
is sound, the elements are built from what the definitions give, and what a loop remembers of
its condition is what the definitions give for it (`LoopsRight`, for every loop on the stack,
since the body of one can start another). While something is modified it promises nothing, which
is why each command has to update first. The stack discipline is that inputStack has as
many streams as there are activations that own one (`depth`), and that the lowest owns one.

`InputStopIsExact`, which has the same two exceptions as `StopIsExact`, needs to know whose frames are on the stack: `Ordered` says that a parser is
named by the place of its first activation, that the frames up to the next parser's first
are its own, and that all frames but the top wait for the one above. `HaltsRight` says that a
parser whose `stopFlag` is set has executed a STOP, and that one which has not tested a
loop since is the parser of the top, with its flag set and no statement to execute: so all it
can do is to return. The flag a new block clears is therefore never one that is still needed.

Only model-checked:

* `CrossingsInTheirSet` of a spatial monitor, which compares the mean times of sets over all ranks:
  sums over sets of ranks and over sequences of records, which need induction over data;
* liveness (`Termination`, `AllWritten`, `Terminates`), which is out of the prover's reach.

## 5. Not modelled

* EKINSTOP, `shiftZStopLeft`, `shiftZStopRight` and the closed-orbit commands.
* Fields, pushes, apertures and decays as numerics: which container gains or loses
  particles is a choice. A container always has its reference particle at `sPos`.
* Delayed one-shot injectors (`t0 > 0`), energy bins and a configured window of a file of
  births, sampling of positions and momenta. Storage that IPPL enlarges when particles
  migrate: `Redistribute` stays within `Capacity`.
* `findStartPositions`: every reference particle starts at ZSTART.
* Lost ranks: the ranks of a job die together. What a power failure leaves of a file that
  was renamed without being flushed. A record, row or set that a kill has cut in two.
* Headers of statistics files, the load-balance file (no rows are ever written), ASCII loss
  files, statistics of a set (`Monitor::writeStatistics` has no caller), Probe and the other
  plug-in elements that share the sink, and the numbering of HDF5 steps.
* Of monitors: more than one container (the reference of any leading container triggers the
  record of container 0), a second TRACK of the same input.
* Of the input language: its grammar, macro arguments, strings, arrays and operators, BOOL
  conditions (whose names are replaced by values when the statement is parsed), parents and
  clones of objects.
* Of the orbit threader: autophasing, design energies, linear maps as numerics, bounding
  boxes, runs backwards in time, the SDDS and log files; rounding in `IndexMap::wrap`, which
  can put a position just before a whole turn past the last entry; elements shorter than a
  step that no midpoint meets; a ring with the same support everywhere, on which `trackBack`
  never returns.
* The final dump (`finalDumpDue`) is an action of TrackerOutput, but a restart that finds
  nothing left to do skips it: no property says that a killed final dump is made up for.
* Energy binning (the merge of histogram bins minimises a floating-point cost), trees and
  meshes of the space-charge solvers, particle pushers, elements, field maps, geometry,
  orbit analysis: floating-point numerics in which the control states hardly anything that
  model checking could vary. Lines and sequences are expanded once while the input is read.
* Clock and step counters are unbounded integers: the code's are 64-bit.

Some behaviour the models show and no property mentions, since nothing in the repository
promises otherwise: a spatial monitor keeps its records in memory until the end of a run,
and a kill loses them; a temporal monitor that is passed without particles keeps the
reference record for the next set; a rank that saw one passage only sorts its hits wrongly;
a job restarted after it was complete repeats the crossings of the tail; a constant can be
changed with `c->VALUE = 1`; a flat-top that does not fit drops the rest.

## 6. Plan

1. *Done*: schedule, tracking loop, checkpoint file, diagnostic files, abstract run and
   store; emission; boundary control with turns; input programs; monitors; index map and
   threader; proofs about each of them.
2. Proofs: where two iterations of `splitSets` do find the passages (`CrossingsInTheirSet`), as an
   inequality between mean times.
3. Models: delayed injectors in EmissionSources, several containers in MonitorFiles, EKINSTOP
   in BoundaryStepping.
