---------------------------- MODULE CheckpointFile ----------------------------
(***************************************************************************)
(* CheckpointFile::write as the MPI ranks execute it: rank 0 removes a stale *)
(* temporary file, all ranks open it, write their part, close it, rank 0    *)
(* renames it over the published file and broadcasts the outcome. Ranks     *)
(* advance at their own pace between the barriers and collective calls;     *)
(* calls fail, and the job can be killed at any point and resubmitted.      *)
(* The HDF5 and MPI calls are modelled from how the code uses them.         *)
(***************************************************************************)
EXTENDS Naturals

CONSTANTS
    Ranks,        \* MPI ranks of the job
    Zero,         \* rank 0
    Faults,       \* calls that can fail, a subset of FaultKinds
    MaxWrites,    \* checkpoints written by the job
    MaxFailures,  \* bound on failed calls
    MaxCrashes    \* bound on kills

FaultKinds == {"open", "write", "close", "rename"}

ASSUME CheckpointAssumption ==
    /\ Zero \in Ranks
    /\ Faults \subseteq FaultKinds
    /\ MaxWrites \in Nat /\ MaxFailures \in Nat /\ MaxCrashes \in Nat

\* Where a rank is in write(): the stage it has completed last.
outside == 0   \* between two writes
entered == 1   \* past the removal, at the first barrier
opened  == 2   \* holds the temporary file open
written == 3   \* all its data are in the file, at the barrier of closeFile
closed  == 4   \* H5CloseFile has returned
told    == 5   \* knows that the rename succeeded, at the last barrier

VARIABLES
    writes,      \* rank -> number of writes it has returned from
    stage,       \* rank -> stage of the write it is in
    failing,     \* ranks in the catch handler of write()
    tmp,         \* contents of the temporary file
    file,        \* contents of the published file
    job,         \* "up" or "down"
    failures,    \* failed calls so far
    crashes      \* kills so far

ranks == <<writes, stage, failing>>
disk  == <<tmp, file>>
vars  == <<ranks, disk, job, failures, crashes>>

NoFile == [version |-> 0, parts |-> {}]

-----------------------------------------------------------------------------
\* Rank q has come as far as stage s of the write that rank r is in.
Reached(q, r, s) ==
    \/ writes[q] > writes[r]
    \/ writes[q] = writes[r] /\ stage[q] >= s

AllReached(r, s) == \A q \in Ranks : Reached(q, r, s)

Running(r) == job = "up" /\ r \notin failing

advance(r, s) == stage' = [stage EXCEPT ![r] = s]

\* A call fails: at most MaxFailures of those in Faults do.
Fails(kind) ==
    /\ kind \in Faults
    /\ failures < MaxFailures
    /\ failures' = failures + 1

\* An exception that leaves write() ends in MPI_Abort.
Abort ==
    /\ job' = "down"
    /\ UNCHANGED <<ranks, disk, crashes>>

Init ==
    /\ writes = [r \in Ranks |-> 0]
    /\ stage = [r \in Ranks |-> outside]
    /\ failing = {}
    /\ tmp = NoFile /\ file = NoFile
    /\ job = "up"
    /\ failures = 0 /\ crashes = 0

\* Rank 0 removes what an earlier job may have left; the others go straight to
\* the barrier.
Enter(r) ==
    /\ Running(r) /\ stage[r] = outside /\ writes[r] < MaxWrites
    /\ advance(r, entered)
    /\ tmp' = IF r = Zero THEN NoFile ELSE tmp
    /\ UNCHANGED <<writes, failing, file, job, failures, crashes>>

\* Faulty variant: no barrier between the removal and the open.
OpenEarly(r) ==
    /\ Running(r) /\ stage[r] = entered
    /\ advance(r, opened)
    /\ tmp' = IF \E q \in Ranks : Reached(q, r, opened) THEN tmp
              ELSE [version |-> writes[r] + 1, parts |-> {}]
    /\ UNCHANGED <<writes, failing, file, job, failures, crashes>>

\* The collective open creates the file when the first rank gets to it.
Open(r) ==
    /\ Running(r) /\ stage[r] = entered /\ AllReached(r, entered)
    /\ advance(r, opened)
    /\ tmp' = IF \E q \in Ranks : Reached(q, r, opened) THEN tmp
              ELSE [version |-> writes[r] + 1, parts |-> {}]
    /\ UNCHANGED <<writes, failing, file, job, failures, crashes>>

OpenFails(r) ==
    /\ Running(r) /\ stage[r] = entered /\ AllReached(r, entered)
    /\ Fails("open")
    /\ Abort

\* The collective writes of attributes and of this rank's particles.
Write(r) ==
    /\ Running(r) /\ stage[r] = opened /\ AllReached(r, opened)
    /\ advance(r, written)
    /\ tmp' = [tmp EXCEPT !.parts = @ \cup {r}]
    /\ UNCHANGED <<writes, failing, file, job, failures, crashes>>

WriteFails(r) ==
    /\ Running(r) /\ stage[r] = opened /\ AllReached(r, opened)
    /\ Fails("write")
    /\ failing' = failing \cup {r}
    /\ UNCHANGED <<writes, stage, disk, job, crashes>>

\* Faulty variant: closeFile without its barrier.
CloseEarly(r) ==
    /\ Running(r) /\ stage[r] = written
    /\ advance(r, closed)
    /\ UNCHANGED <<writes, failing, disk, job, failures, crashes>>

\* closeFile: a barrier, then H5CloseFile, which each rank returns from by itself.
Close(r) ==
    /\ Running(r) /\ stage[r] = written /\ AllReached(r, written)
    /\ advance(r, closed)
    /\ UNCHANGED <<writes, failing, disk, job, failures, crashes>>

CloseFails(r) ==
    /\ Running(r) /\ stage[r] = written /\ AllReached(r, written)
    /\ Fails("close")
    /\ failing' = failing \cup {r}
    /\ UNCHANGED <<writes, stage, disk, job, crashes>>

\* Faulty variant: the handle stays set when its close fails.
RethrowAfterSecondClose(r) ==
    /\ job = "up" /\ r \in failing
    /\ failing = Ranks
    /\ UNCHANGED failures
    /\ Abort

\* The catch handler closes the file and rethrows. The close is collective: a
\* rank whose write failed gets through it only with all the others, while one
\* whose close failed holds a handle that is closed already.
Rethrow(r) ==
    /\ job = "up" /\ r \in failing
    /\ stage[r] = written \/ failing = Ranks
    /\ UNCHANGED failures
    /\ Abort

Rename(r) ==
    /\ r = Zero /\ Running(r) /\ stage[r] = closed
    /\ advance(r, told)
    /\ file' = tmp /\ tmp' = NoFile
    /\ UNCHANGED <<writes, failing, job, failures, crashes>>

\* Faulty variant: the result of the rename is ignored.
RenameFailureIgnored(r) ==
    /\ r = Zero /\ Running(r) /\ stage[r] = closed
    /\ Fails("rename")
    /\ advance(r, told)
    /\ UNCHANGED <<writes, failing, disk, job, crashes>>

\* A failed rename is broadcast, and every rank throws.
RenameFails(r) ==
    /\ r = Zero /\ Running(r) /\ stage[r] = closed
    /\ Fails("rename")
    /\ Abort

\* The broadcast reaches the other ranks.
Learn(r) ==
    /\ r # Zero /\ Running(r) /\ stage[r] = closed /\ Reached(Zero, r, told)
    /\ advance(r, told)
    /\ UNCHANGED <<writes, failing, disk, job, failures, crashes>>

\* Faulty variant: a write is counted twice.
LeaveTwice(r) ==
    /\ Running(r) /\ stage[r] = told /\ AllReached(r, told)
    /\ advance(r, outside)
    /\ writes' = [writes EXCEPT ![r] = @ + 2]
    /\ UNCHANGED <<failing, disk, job, failures, crashes>>

\* The last barrier.
Leave(r) ==
    /\ Running(r) /\ stage[r] = told /\ AllReached(r, told)
    /\ advance(r, outside)
    /\ writes' = [writes EXCEPT ![r] = @ + 1]
    /\ UNCHANGED <<failing, disk, job, failures, crashes>>

\* The job is killed.
Crash ==
    /\ job = "up" /\ crashes < MaxCrashes
    /\ job' = "down"
    /\ crashes' = crashes + 1
    /\ UNCHANGED <<ranks, disk, failures>>

\* The job is resubmitted with --restart: it reads the published file, or starts
\* afresh without one; a temporary file stays where it is.
Resubmit ==
    /\ job = "down"
    /\ job' = "up"
    /\ writes' = [r \in Ranks |-> file.version]
    /\ stage' = [r \in Ranks |-> outside]
    /\ failing' = {}
    /\ UNCHANGED <<disk, failures, crashes>>

Progress(r) ==
    \/ Enter(r) \/ Open(r) \/ Write(r) \/ Close(r) \/ Rename(r) \/ Learn(r)
    \/ Leave(r) \/ Rethrow(r)

Failure(r) == OpenFails(r) \/ WriteFails(r) \/ CloseFails(r) \/ RenameFails(r)

Next == Crash \/ Resubmit \/ \E r \in Ranks : Progress(r) \/ Failure(r)

Spec == Init /\ [][Next]_vars

FairSpec == Spec /\ WF_vars(Resubmit) /\ \A r \in Ranks : WF_vars(Progress(r))

-----------------------------------------------------------------------------
(* Properties.                                                              *)

Contents == [version : 0 .. MaxWrites, parts : SUBSET Ranks]

\* Every variable has its type.
TypeOK ==
    /\ writes \in [Ranks -> 0 .. MaxWrites]
    /\ stage \in [Ranks -> outside .. told]
    /\ failing \subseteq Ranks
    /\ tmp \in Contents /\ file \in Contents
    /\ job \in {"up", "down"}
    /\ failures \in 0 .. MaxFailures /\ crashes \in 0 .. MaxCrashes

\* The published file always holds the data of every rank, whichever calls fail
\* and wherever the job is killed.
PublishedComplete == file # NoFile => file.parts = Ranks

\* The data of two checkpoints are never mixed: the file a rank is about to write
\* to is that of the write it is in and is still the temporary one, also when a
\* crash left a temporary file behind.
WritesOwnFile ==
    \A r \in Ranks :
        (job = "up" /\ stage[r] = opened) => tmp.version = writes[r] + 1

\* The ranks see an atomically replaced store of checkpoints.
Store == INSTANCE CheckpointStore WITH content <- file.version, returned <- writes

ReplacesAtomically == Store!Spec

\* However calls fail, and after finitely many kills, every checkpoint gets
\* written: no rank waits at a barrier or in the broadcast for one that has gone,
\* except for one whose own write of data failed.
AllWritten ==
    [](\A r \in failing : stage[r] # opened) => <>(\A r \in Ranks : writes[r] = MaxWrites)
=============================================================================
