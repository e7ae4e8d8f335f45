---------------------------- MODULE MonitorFiles ----------------------------
(***************************************************************************)
(* A beam monitor on a ring and its loss file: Monitor records the          *)
(* particles and the reference at every passage, LossDataSink keeps them    *)
(* and writes them as sets, one per passage. A TEMPORAL monitor saves at    *)
(* every passage, a SPATIAL one when the run ends and has to work out then   *)
(* which particle belongs to which passage. A restart cuts the file back.   *)
(*                                                                         *)
(* One container. Particles cross a fixed number of steps before or after    *)
(* the reference, on whatever rank holds them, and can be lost.             *)
(***************************************************************************)
EXTENDS Integers, FiniteSets, SequencesExt

CONSTANTS
    Ranks,
    Particles,
    Offsets,         \* steps by which a particle can trail the reference
    Period,          \* steps of a revolution
    FirstPassage,    \* the step in which the reference first crosses
    Steps,           \* MAXSTEPS
    CheckpointFreq,
    MaxRestarts      \* bound on jobs after the first

ASSUME MonitorAssumption ==
    /\ IsFiniteSet(Ranks) /\ Ranks # {} /\ IsFiniteSet(Particles)
    /\ {Period, Steps, CheckpointFreq} \subseteq Nat \ {0}
    /\ Offsets \subseteq Int
    /\ FirstPassage \in Nat /\ MaxRestarts \in Nat

NoCheckpoint == [step |-> -1, alive |-> {}, passed |-> <<>>]

VARIABLES
    kind,        \* collection type: "spatial" or "temporal"
    offset,      \* particle -> steps by which it trails the reference
    phase,       \* "tracking", "ended", "killed", "refused" or "failed"
    step,        \* global track step
    alive,       \* particles that are not lost
    particles,   \* rank -> particles_m, what it recorded and has not written
    references,  \* globalTrackStep_m: the step of every recorded passage
    passages,    \* numPassages_m of this job
    file,        \* the sets of the loss file
    checkpoint,  \* the last checkpoint
    restarts,
    passed,      \* history: steps at which the bunch passed, up to now
    crossed,     \* history: [particle, passage] recorded by this job
    kept         \* history: sets that this job found in the file

job     == <<kind, offset>>
beam    == <<step, alive>>
sink    == <<particles, references, passages>>
history == <<passed, crossed, kept>>
vars    == <<job, phase, beam, sink, file, checkpoint, restarts, history>>

-----------------------------------------------------------------------------
(* LossDataSink::splitSets.                                                 *)

\* The sum of what the ranks contribute, as by an allreduce.
allreduce(f) == FoldSet(LAMBDA r, sum : sum + f[r], 0, DOMAIN f)

\* startSet_m: where each set starts among the records of a rank, and where the last
\* one ends. At first every set has its share, the first ones with one more.
evenStarts(total, sets) ==
    [j \in 1 .. sets + 1 |-> 1 + (j - 1) * (total \div sets) + Min({j - 1, total % sets})]

\* The records of a rank in set j.
part(r, starts, j) == SubSeq(particles[r], starts[r][j], starts[r][j + 1] - 1)

\* The mean time of set j over all ranks, as a fraction; 0 if it is empty.
meanTime(starts, j) ==
    LET sum(r) == FoldLeft(LAMBDA s, h : s + h.time, 0, part(r, starts, j))
        number == allreduce([r \in Ranks |-> Len(part(r, starts, j))])
    IN  [sum |-> allreduce([r \in Ranks |-> sum(r)]), number |-> IF number = 0 THEN 1 ELSE number]

\* Whether a time is past the middle between the means of sets j and j + 1.
beyond(t, a, b) == 2 * t * a.number * b.number > a.sum * b.number + b.sum * a.number

\* The sets that are opened: a record beyond the boundary opens the next set, one
\* set per record.
opened(r, means, sets) ==
    LET n == Len(particles[r])
        open[i \in 0 .. n] ==
            IF i = 0 THEN <<1>>
            ELSE LET st == open[i - 1]
                 IN  IF Len(st) < sets
                        /\ beyond(particles[r][i].time, means[Len(st)], means[Len(st) + 1])
                     THEN Append(st, i) ELSE st
    IN  open[n]

\* The last set takes what is left, those that were not opened stay empty.
reassigned(r, means, sets) ==
    LET starts == opened(r, means, sets)
    IN  [j \in 1 .. sets + 1 |->
            IF j <= Len(starts) THEN starts[j]
            ELSE IF j <= sets THEN starts[Len(starts)] ELSE Len(particles[r]) + 1]

iteration(starts, sets) ==
    LET means == SubSeq([j \in 1 .. sets |-> meanTime(starts, j)], 1, sets)  \* evaluated once
    IN  [r \in Ranks |-> reassigned(r, means, sets)]

\* Faulty variant: the even split is not improved.
splitEvenly(sets) == [r \in Ranks |-> evenStarts(Len(particles[r]), sets)]

\* Where the sets of every rank start.
splitSets(sets) ==
    IF sets <= 1 THEN [r \in Ranks |-> <<1, Len(particles[r]) + 1>>]
    ELSE iteration(iteration([r \in Ranks |-> evenStarts(Len(particles[r]), sets)], sets), sets)

\* splitSets returns at once on a rank that has recorded nothing, before the
\* reductions that the others enter.
splitReductions(r, sets) == IF sets <= 1 \/ particles[r] = <<>> THEN 0 ELSE 2

collectivesAgree(sets) ==
    \A q, r \in Ranks : splitReductions(q, sets) = splitReductions(r, sets)

-----------------------------------------------------------------------------
(* LossDataSink::save and the restart.                                      *)

noParticlesToDump == \A r \in Ranks : particles[r] = <<>>

\* saveH5 for every set: an empty set is not written.
setOf(starts, j) ==
    [step |-> references[j], hits |-> UNION {ToSet(part(r, starts, j)) : r \in Ranks}]

savedSets(sets) ==
    LET starts == splitSets(sets)
        saved[j \in 0 .. sets] ==
            IF j = 0 THEN <<>>
            ELSE IF setOf(starts, j).hits = {} THEN saved[j - 1]
            ELSE Append(saved[j - 1], setOf(starts, j))
    IN  saved[sets]

Empty == [r \in Ranks |-> <<>>]

\* Faulty variant: sets of the checkpointed step itself are kept.
keptSetsOffByOne(f, s) == SubSeq(f, 1, Max({0} \cup {i \in DOMAIN f : f[i].step <= s}))

\* rewindH5ToGlobalTrackStep: the file up to the last set of a step before the
\* checkpoint (keepSteps).
keptSets(f, s) == SubSeq(f, 1, Max({0} \cup {i \in DOMAIN f : f[i].step < s}))

monotonic(f) == \A i, j \in DOMAIN f : i < j => f[i].step <= f[j].step

\* Faulty variant: the file of an earlier job is left in place.
fileOfFreshJobKept(f) == f

\* What initialise() of a job without --restart leaves of a file: it removes it.
fileOfFreshJob(f) == <<>>

-----------------------------------------------------------------------------
(* The run.                                                                 *)

Init ==
    /\ kind \in {"spatial", "temporal"} /\ offset \in [Particles -> Offsets]
    /\ phase = "tracking"
    /\ step = 0 /\ alive = Particles
    /\ particles = Empty /\ references = <<>> /\ passages = 0
    /\ file = <<>> /\ checkpoint = NoCheckpoint /\ restarts = 0
    /\ passed = <<>> /\ crossed = {} /\ kept = 0

crosses(s) == s >= FirstPassage /\ (s - FirstPassage) % Period = 0

\* A crossing in step 0 is taken for one before tracking and not recorded.
referenceCrosses == step > 0 /\ crosses(step)

crossing == {p \in alive : step > 0 /\ crosses(step - offset[p])}

passageOf(p) == (step - offset[p] - FirstPassage) \div Period

\* What a rank records of the particles it holds, in the order of its index.
recorded(r, holder) ==
    SetToSeq({[id |-> p, passage |-> passageOf(p), time |-> step] : p \in {q \in crossing : holder[q] = r}})

\* A spatial monitor in computeExternalFields: particles that cross in this step.
spatialHits(holder) == [r \in Ranks |-> particles[r] \o recorded(r, holder)]

\* openMode is APPEND after a restart, and the first job has removed the file.
appended(f, set) == Append(f, set)

\* applyToReferenceParticle of a temporal monitor: all particles, drifted to the
\* plane, are saved as one set; without particles the record stays.
temporalSet(refs) == [step |-> Head(refs), hits |-> {[id |-> p, passage |-> Len(passed)] : p \in alive}]

\* save() clears what it has written.
cleared(refs, saves) == IF saves THEN <<>> ELSE refs

\* One time step: particle crossings, losses, the reference, the checkpoint.
TimeStep ==
    /\ phase = "tracking" /\ step < Steps
    /\ \E holder \in [crossing -> Ranks], lost \in SUBSET alive :
           LET survivors == alive \ lost
               refs      == IF referenceCrosses THEN Append(references, step) ELSE references
               saves     == kind = "temporal" /\ referenceCrosses /\ alive # {}
               history2  == IF referenceCrosses /\ alive # {} THEN Append(passed, step) ELSE passed
           IN  /\ Cardinality(lost) <= 1
               /\ particles' = IF kind = "spatial" THEN spatialHits(holder) ELSE particles
               /\ references' = cleared(refs, saves)
               /\ passages' = IF referenceCrosses THEN passages + 1 ELSE passages
               /\ file' = IF saves THEN appended(file, temporalSet(refs)) ELSE file
               /\ alive' = survivors
               /\ step' = step + 1
               /\ passed' = history2
               /\ crossed' = IF kind = "spatial"
                             THEN crossed \cup {<<p, passageOf(p)>> : p \in crossing} ELSE crossed
               /\ checkpoint' = IF (step + 1) % CheckpointFreq = 0
                                THEN [step |-> step + 1, alive |-> survivors, passed |-> history2]
                                ELSE checkpoint
    /\ UNCHANGED <<job, phase, restarts, kept>>

\* The end of execute(): switchElementsOff, goOffline, statistics and save.
GoOffline ==
    /\ phase = "tracking" /\ step = Steps
    /\ IF kind = "temporal" \/ collectivesAgree(passages)
       THEN phase' = "ended" ELSE phase' = "failed"
    /\ IF kind = "spatial" /\ collectivesAgree(passages) /\ ~noParticlesToDump
       THEN /\ file' = file \o savedSets(passages)
            /\ particles' = Empty /\ references' = <<>>
       ELSE UNCHANGED <<file, particles, references>>
    /\ UNCHANGED <<job, beam, passages, checkpoint, restarts, history>>

Kill ==
    /\ phase = "tracking"
    /\ phase' = "killed"
    /\ UNCHANGED <<job, beam, sink, file, checkpoint, restarts, history>>

\* initialise() of a job with --restart.
Restart ==
    /\ phase \in {"killed", "ended"} /\ restarts < MaxRestarts
    /\ checkpoint # NoCheckpoint /\ checkpoint.step < Steps
    /\ restarts' = restarts + 1
    /\ IF monotonic(file)
       THEN /\ phase' = "tracking"
            /\ file' = keptSets(file, checkpoint.step)
            /\ kept' = Len(file')
       ELSE phase' = "refused" /\ UNCHANGED <<file, kept>>
    /\ step' = checkpoint.step /\ alive' = checkpoint.alive /\ passed' = checkpoint.passed
    /\ particles' = Empty /\ references' = <<>> /\ passages' = 0 /\ crossed' = {}
    /\ UNCHANGED <<job, checkpoint>>

\* initialise() of a fresh job removes the file of an earlier one. A later restart
\* is from a checkpoint of this job.
StartAfresh ==
    /\ phase = "killed" /\ restarts < MaxRestarts
    /\ restarts' = restarts + 1
    /\ phase' = "tracking" /\ step' = 0 /\ alive' = Particles
    /\ particles' = Empty /\ references' = <<>> /\ passages' = 0
    /\ file' = fileOfFreshJob(file)
    /\ passed' = <<>> /\ crossed' = {} /\ kept' = 0
    /\ checkpoint' = NoCheckpoint
    /\ UNCHANGED job

Next == TimeStep \/ GoOffline \/ Kill \/ Restart \/ StartAfresh

Spec == Init /\ [][Next]_vars

-----------------------------------------------------------------------------
(* Properties.                                                              *)

\* Types; a spatial monitor has the record of every passage of its job in memory,
\* a temporal one only of those that found no particles.
TypeOK ==
    /\ phase \in {"tracking", "ended", "killed", "refused", "failed"}
    /\ step \in 0 .. Steps /\ alive \subseteq Particles
    /\ \A r \in Ranks : \A i \in DOMAIN particles[r] : particles[r][i].id \in Particles
    /\ references \in Seq(0 .. Steps - 1) /\ passages \in Nat
    /\ phase = "tracking" =>
           IF kind = "spatial" THEN Len(references) = passages
           ELSE references # <<>> => alive = {}
    /\ \A i \in DOMAIN file : file[i].step \in 0 .. Steps - 1
    /\ restarts \in 0 .. MaxRestarts

\* The file of a temporal monitor has one set for every step in which the
\* bunch passed, however often the run was killed and restarted.
TemporalFollowsRun ==
    kind = "temporal" /\ phase \in {"tracking", "ended"} =>
        [i \in DOMAIN file |-> file[i].step] = passed

newSets == {i \in DOMAIN file : i > kept}

idOf(h) == <<h.id, h.passage>>

\* A spatial monitor that was passed writes every crossing of its job into
\* exactly one set, on whatever ranks the particles were.
CrossingsWrittenOnce ==
    kind = "spatial" /\ phase = "ended" /\ passages > 0 =>
        \A c \in crossed : Cardinality({i \in newSets : \E h \in file[i].hits : idOf(h) = c}) = 1

\* What the file holds, whatever happened to the run.
FileFollowsRun == TypeOK /\ TemporalFollowsRun /\ CrossingsWrittenOnce

\* A restart never finds a file that it cannot cut back.
RewindAccepted == phase # "refused"

\* The temporal separation is large: a revolution outlasts the bunch in a higher ratio
\* than that of all crossings to those of a passage.
separated(p) ==
    \A j \in DOMAIN p : (Max(Offsets) - Min(Offsets)) * Cardinality(crossed)
                            < Period * Cardinality({c \in crossed : c[2] = p[j]})

\* The comment at splitSets: "Two iterations should be sufficient" then. With two
\* passages, seen by every rank, the crossings are in the set of their passage,
\* although only the order of times on each rank is known.
CrossingsInTheirSet ==
    LET p == [j \in DOMAIN references |-> (references[j] - FirstPassage) \div Period]
    IN  kind = "spatial" /\ phase = "tracking" /\ step = Steps /\ passages = 2 /\ separated(p)
        /\ (\A r \in Ranks : {particles[r][i].passage : i \in DOMAIN particles[r]} = ToSet(p)) =>
            \A j \in 1 .. 2 : \A h \in setOf(splitSets(2), j).hits : h.passage = p[j]

\* LossDataSink.cpp: "Some nodes have 0 lost particles, some not -> H5 can handle
\* that but all nodes HAVE to participate": no rank leaves the others alone in a
\* collective operation.
AllRanksParticipate == phase # "failed"
=============================================================================
