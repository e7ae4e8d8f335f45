---------------------------- MODULE TrackerOutput ----------------------------
(***************************************************************************)
(* ParallelTracker together with the files it appends to while it tracks:   *)
(* one phase-space file (HDF5) and one statistics file (SDDS) per container. *)
(* Writing them is part of a step and not atomic with the checkpoint; a     *)
(* restart cuts them back to the restored checkpoint, HDF5 by time and      *)
(* statistics by path length, and the job can be killed while it does so.   *)
(***************************************************************************)
EXTENDS ParallelTracker, SequencesExt

CONSTANTS
    PsDumpFreq,    \* PSDUMPFREQ, 0 disables phase-space dumps
    StatDumpFreq   \* STATDUMPFREQ, 0 disables statistics

ASSUME OutputAssumption == PsDumpFreq \in Nat /\ StatDumpFreq \in Nat

VARIABLES
    h5,     \* container -> records of its phase-space file
    stat    \* container -> rows of its statistics file

files == <<h5, stat>>

NoFiles == [c \in Containers |-> <<>>]

-----------------------------------------------------------------------------
(* Dumps. A record holds the time and path length that go into the file, and *)
(* the number of the step it was written in.                                *)

record(c, g, t, s) == [step |-> g, time |-> t, s |-> s[c]]

\* The dumps inside a step use the step count before it is incremented.
dumpDue(freq, g) == freq > 0 /\ (g % freq) + 1 = freq

\* At the end of the run the last step is dumped unless it was dumped already. The
\* count is signed: before the first step its predecessor is -1.
finalDumpDue(freq, g) ==
    freq > 0 /\ IF g = 0 THEN freq # 1 ELSE ~dumpDue(freq, g - 1)

\* Appends a record of the primed tracker state to the files of the containers
\* in the given sets; phase space is written for populated containers only.
AppendRecords(statContainers, h5Containers) ==
    /\ stat' = [c \in Containers |->
                  IF c \in statContainers
                  THEN Append(stat[c], record(c, gstep', time', sPos')) ELSE stat[c]]
    /\ h5' = [c \in Containers |->
                IF c \in h5Containers \cap nonEmpty'
                THEN Append(h5[c], record(c, gstep', time', sPos')) ELSE h5[c]]

containersIf(due) == IF due THEN Containers ELSE {}

\* writePhaseSpace: the statistics of all containers, then their phase space.
writePhaseSpace(psDump, statDump) ==
    AppendRecords(containersIf(statDump), containersIf(psDump))

\* The same cut short by a kill: some containers' statistics, or all of them and
\* some containers' phase space.
writePhaseSpaceKilled(psDump, statDump) ==
    \E done \in SUBSET Containers :
        \/ AppendRecords(containersIf(statDump) \cap done, {})
        \/ AppendRecords(containersIf(statDump), containersIf(psDump) \cap done)

-----------------------------------------------------------------------------
(* Rewinding to the restored checkpoint.                                    *)

\* Faulty variant: one row too many is kept.
rowsUpToTooMany(values, bound) ==
    LET first == SelectInSeq(values, LAMBDA v : v > bound)
    IN  IF first = 0 THEN Len(values) ELSE first

\* How many rows come before the first one that lies beyond the bound.
rowsUpTo(values, bound) ==
    LET first == SelectInSeq(values, LAMBDA v : v > bound)
    IN  IF first = 0 THEN Len(values) ELSE first - 1

\* Faulty variant: the record of the checkpoint itself is cut off.
rewindBelowTime(records, t) ==
    SubSeq(records, 1, rowsUpTo([i \in DOMAIN records |-> records[i].time], t - 1))

\* H5PartWrapper::rewindToTime
rewindToTime(records, t) ==
    SubSeq(records, 1, rowsUpTo([i \in DOMAIN records |-> records[i].time], t))

\* Util::rewindLinesSDDS keeps the rows up to the path length and drops among
\* them those whose time does not exceed that of the row before.
rewindLinesSDDS(rows, s) ==
    LET n == rowsUpTo([i \in DOMAIN rows |-> rows[i].s], s)
        newer(i) == i = 1 \/ rows[i].time > rows[i - 1].time
        kept[i \in 0 .. n] ==
            IF i = 0 THEN <<>>
            ELSE IF newer(i) THEN Append(kept[i - 1], rows[i]) ELSE kept[i - 1]
    IN  kept[n]

rewoundH5(c)   == rewindToTime(h5[c], checkpoint.time)
rewoundStat(c) == rewindLinesSDDS(stat[c], checkpoint.sPos[c])

rewindToCheckpoint ==
    /\ h5' = [c \in Containers |-> rewoundH5(c)]
    /\ stat' = [c \in Containers |-> rewoundStat(c)]

\* TrackRun rejects beams with emission or decay before it touches the files.
rewindReached == Emits = {} /\ Decaying = {}

-----------------------------------------------------------------------------
OutInit == Init /\ h5 = NoFiles /\ stat = NoFiles

\* A fresh run creates its files anew.
StartRun == FreshStart /\ h5' = NoFiles /\ stat' = NoFiles

RestartRun == Restart /\ rewindToCheckpoint

RefusedRun == RefuseRestart /\ IF rewindReached THEN rewindToCheckpoint ELSE UNCHANGED files

EnterSegment == BeginSegment /\ UNCHANGED files

DumpingStep ==
    TimeStep /\ writePhaseSpace(dumpDue(PsDumpFreq, gstep), dumpDue(StatDumpFreq, gstep))

finalDump ==
    writePhaseSpace(finalDumpDue(PsDumpFreq, gstep), finalDumpDue(StatDumpFreq, gstep))

NextSegment == LeaveSegment /\ ~globalEOL /\ UNCHANGED files

FinishRun == (EndOfSchedule \/ (LeaveSegment /\ globalEOL)) /\ finalDump

KilledBetweenSteps == Crash /\ UNCHANGED files

\* Killed while dumping, that is before the checkpoint of the step is written.
KilledInStep ==
    /\ crashes < MaxCrashes
    /\ IntegrationStep
    /\ writePhaseSpaceKilled(dumpDue(PsDumpFreq, gstep), dumpDue(StatDumpFreq, gstep))
    /\ phase' = "interrupted" /\ crashes' = crashes + 1
    /\ UNCHANGED checkpoint

KilledInFinalDump ==
    /\ crashes < MaxCrashes
    /\ \/ phase = "segment" /\ reachedEnd(segment)
       \/ phase = "step" /\ globalEOL /\ innerLoopDone
    /\ phase' = "interrupted" /\ crashes' = crashes + 1
    /\ UNCHANGED <<position, clock, bunch, globalEOL, checkpoint>>
    /\ writePhaseSpaceKilled(finalDumpDue(PsDumpFreq, gstep), finalDumpDue(StatDumpFreq, gstep))

KilledInRewind ==
    /\ phase = "interrupted" /\ checkpoint # NoCheckpoint /\ rewindReached
    /\ crashes < MaxCrashes /\ crashes' = crashes + 1
    /\ UNCHANGED <<phase, position, clock, bunch, globalEOL, checkpoint>>

\* A phase-space file is copied and renamed into place: it is either cut back or
\* untouched.
KilledInPhaseSpaceRewind ==
    /\ KilledInRewind
    /\ \E done \in SUBSET Containers :
          h5' = [c \in Containers |-> IF c \in done THEN rewoundH5(c) ELSE h5[c]]
    /\ UNCHANGED stat

\* A statistics file is truncated and written again row by row.
KilledInStatisticsRewind ==
    /\ KilledInRewind
    /\ h5' = [c \in Containers |-> rewoundH5(c)]
    /\ \E c \in Containers, done \in SUBSET Containers :
       \E n \in 0 .. Len(rewoundStat(c)) :
          stat' = [b \in Containers |->
                     IF b = c THEN SubSeq(rewoundStat(c), 1, n)
                     ELSE IF b \in done THEN rewoundStat(b) ELSE stat[b]]

OutNext ==
    \/ StartRun \/ RestartRun \/ RefusedRun \/ EnterSegment \/ DumpingStep
    \/ NextSegment \/ FinishRun
    \/ KilledBetweenSteps \/ KilledInStep \/ KilledInFinalDump
    \/ KilledInPhaseSpaceRewind \/ KilledInStatisticsRewind

OutSpec == OutInit /\ [][OutNext]_<<vars, files>>

-----------------------------------------------------------------------------
(* Properties, for beams that are loaded before tracking starts.            *)

\* The steps a run that was never interrupted has dumped after g steps.
dueSteps(freq, g) ==
    [i \in 1 .. IF freq = 0 THEN 0 ELSE g \div freq |-> i * freq]

stepsIn(records) == [i \in DOMAIN records |-> records[i].step]

\* However often the job was killed and restarted, the phase-space file of a
\* container that still holds particles has exactly the records of an
\* uninterrupted run, none twice, none missing and none left over from the lost
\* steps; that of an emptied one has an initial part of them.
PhaseSpaceFollowsRun ==
    Tracking => \A c \in Loaded :
        /\ IsPrefix(stepsIn(h5[c]), dueSteps(PsDumpFreq, gstep))
        /\ c \in nonEmpty => Len(h5[c]) = Len(dueSteps(PsDumpFreq, gstep))

\* The statistics file of a container that holds particles never has the row of a
\* step twice, nor one of a step that was lost or not to be dumped.
StatisticsNeverRepeat ==
    Tracking => \A c \in Loaded \cap nonEmpty : \A i \in DOMAIN stat[c] :
        /\ i > 1 => stat[c][i].step > stat[c][i - 1].step
        /\ stat[c][i].step \in Range(dueSteps(StatDumpFreq, gstep))
=============================================================================
