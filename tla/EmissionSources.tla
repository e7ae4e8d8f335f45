-------------------------- MODULE EmissionSources --------------------------
(***************************************************************************)
(* Emission in the steps of the tracking loop. Inventory sources             *)
(* (EmittedFromFile, OpalFlatTop) keep a sorted list of birth times and a    *)
(* cursor; profile sources (FlatTop) emit a number of particles per step.    *)
(* All ranks hold the same lists and cursors, share what is due in a step    *)
(* among themselves, and create their part in preallocated storage.          *)
(*                                                                         *)
(* A step asks the sources one after the other, so one process stands for    *)
(* the job; the segments of the schedule are reduced to which containers are *)
(* frozen and to the time step in force. Times are integers, in a unit in    *)
(* which half an emission window is a whole number.                         *)
(***************************************************************************)
EXTENDS Integers, Sequences, FiniteSetsExt

CONSTANTS
    NumRanks,        \* MPI ranks
    Containers,      \* particle containers
    Capacity,        \* container -> particles a rank has storage for
    NumSources,      \* sources in the order in which a step asks them
    Feeds,           \* source -> its container
    Profiled,        \* the FlatTop sources; the others have an inventory
    T0,              \* source -> t0_m
    PulseTimes,      \* inventory source -> pulse times of its records, in file order
    Requested,       \* inventory source -> NPARTDIST, 0 for all records
    EmissionStepsOf, \* inventory source -> EMISSIONSTEPS, 0 for no step of its own
    Window,          \* profile source -> emissionTime_m
    TotalN,          \* profile source -> totalN_m
    TrackDts,        \* time steps of the segments
    Horizon          \* bound on the bunch time

Ranks     == 0 .. NumRanks - 1
Sources   == 1 .. NumSources
Inventory == Sources \ Profiled

ASSUME EmissionAssumption ==
    /\ NumRanks \in Nat \ {0} /\ NumSources \in Nat
    /\ Capacity \in [Containers -> Nat]
    /\ Feeds \in [Sources -> Containers]
    /\ Profiled \subseteq Sources
    /\ T0 \in [Sources -> Nat]
    /\ PulseTimes \in [Inventory -> Seq(Int) \ {<<>>}]
    /\ Requested \in [Inventory -> Nat] /\ EmissionStepsOf \in [Inventory -> Nat]
    /\ Window \in [Profiled -> Nat] /\ TotalN \in [Profiled -> Nat]
    /\ TrackDts # {} /\ TrackDts \subseteq Nat \ {0}
    /\ Horizon \in Int

VARIABLES
    time,       \* bunch time
    dtTrack,    \* dtCurrentTrack_m
    dt,         \* time step selected before emission
    turn,       \* source asked next in this step, 0 between steps
    frozen,     \* containers at the stop of their segment
    next,       \* inventory source -> nextGlobalIndex_m, the records emitted so far
    emitted,    \* profile source -> totalEmitted_m
    localNum,   \* container -> rank -> particles it holds
    failure,    \* exception that ends the run: "none", "overdue" or "full"
    made,       \* history: inventory source -> record -> particles created from it
    heldBack    \* history: a container was frozen before its inventory was used up

sources == <<next, emitted, localNum, made>>
vars    == <<time, dtTrack, dt, turn, frozen, sources, failure, heldBack>>

-----------------------------------------------------------------------------
(* The inventory. A pulse time is the time in the file, negated.             *)

smaller(a, b) == IF a < b THEN a ELSE b

valuesOf(seq) == {seq[i] : i \in DOMAIN seq}

\* buildInventory takes the first NPARTDIST records of the file.
selected(s) ==
    SubSeq(PulseTimes[s], 1,
           IF Requested[s] > 0 THEN smaller(Requested[s], Len(PulseTimes[s]))
           ELSE Len(PulseTimes[s]))

emissionTime(s) == Max(valuesOf(selected(s))) - Min(valuesOf(selected(s)))
pulseCenter(s)  == (Max(valuesOf(selected(s))) + Min(valuesOf(selected(s)))) \div 2

\* Numbers in ascending order: the k-th is the least that k of them do not exceed.
ascending(seq) ==
    [k \in DOMAIN seq |->
        Min({seq[i] : i \in {j \in DOMAIN seq :
                              k <= Cardinality({l \in DOMAIN seq : seq[l] <= seq[j]})}})]

\* The birth times, sorted: the pulse is centred on t0.
birthTimes ==
    [s \in Inventory |->
        ascending([i \in DOMAIN selected(s) |-> T0[s] + selected(s)[i] - pulseCenter(s)])]

\* The first half of the pulse has to fit between the start and t0.
getGlobalTimeShift(s) ==
    LET early == emissionTime(s) \div 2 - T0[s] IN IF early > 0 THEN early ELSE 0

\* Faulty variant: the sources' shifts are not taken into account.
startTimeUnshifted == 0

\* TrackRun shifts the clock by the largest shift any source needs.
startTime == -Max({0} \cup {getGlobalTimeShift(s) : s \in Inventory})

getEmissionTimeStep(s) ==
    IF EmissionStepsOf[s] > 0 THEN emissionTime(s) \div EmissionStepsOf[s] ELSE 0

-----------------------------------------------------------------------------
(* Time step selection.                                                     *)

Pending(cursor) == {s \in Inventory : cursor[s] < Len(birthTimes[s])}

\* selectDT
selectDT(cursor) ==
    LET emissionSteps == {getEmissionTimeStep(s) : s \in Pending(cursor)} \ {0}
    IN  IF emissionSteps = {} THEN dtTrack ELSE Min(emissionSteps)

-----------------------------------------------------------------------------
(* Sharing a number of particles among the ranks.                           *)

\* Faulty variant: the particles a rank already holds are not counted.
spaceLeftWhenEmpty(c, r) == Capacity[c]

\* Storage a rank has left in a container.
spaceLeft(c, r) == IF localNum[c][r] <= Capacity[c] THEN Capacity[c] - localNum[c][r] ELSE 0

\* An even share, not more than there is space for.
evenShare(n, c, r) ==
    smaller(n \div NumRanks + (IF r < n % NumRanks THEN 1 ELSE 0), spaceLeft(c, r))

\* What the ranks below r have together, for every r up to the number of ranks.
sumBelow(count) ==
    LET sum[r \in 0 .. NumRanks] == IF r = 0 THEN 0 ELSE sum[r - 1] + count[r - 1]
    IN  sum

evenShares(n, c) == [r \in Ranks |-> evenShare(n, c, r)]

rooms(n, c) == [r \in Ranks |-> spaceLeft(c, r) - evenShare(n, c, r)]

\* The deficit is given to the lowest ranks with room, as far as there is room.
emitCount(n, c, r) ==
    LET deficit  == n - sumBelow(evenShares(n, c))[NumRanks]
        roomLess == sumBelow(rooms(n, c))[r]
        rest     == IF deficit > roomLess THEN deficit - roomLess ELSE 0
    IN  evenShare(n, c, r) + smaller(rooms(n, c)[r], rest)

emitCounts(n, c) == [r \in Ranks |-> emitCount(n, c, r)]

\* Faulty variant: the ranks below are taken to emit even shares.
emitOffsetEven(n, c, r) == sumBelow(evenShares(n, c))[r]

emitOffset(n, c, r) == sumBelow(emitCounts(n, c))[r]

shared(n, c) == sumBelow(emitCounts(n, c))[NumRanks]

-----------------------------------------------------------------------------
Init ==
    /\ time = startTime
    /\ dtTrack \in TrackDts /\ dt = dtTrack
    /\ turn = 0
    /\ frozen = {}
    /\ next = [s \in Inventory |-> 0]
    /\ emitted = [s \in Profiled |-> 0]
    /\ localNum = [c \in Containers |-> [r \in Ranks |-> 0]]
    /\ failure = "none"
    /\ made = [s \in Inventory |-> [k \in 1 .. Len(birthTimes[s]) |-> 0]]
    /\ heldBack = FALSE

Running == failure = "none"

\* The step up to emission: the time step of the unfinished sources.
BeginStep ==
    /\ Running /\ turn = 0 /\ time < Horizon
    /\ frozen # Containers
    /\ dt' = selectDT(next)
    /\ turn' = 1
    /\ UNCHANGED <<time, dtTrack, frozen, sources, failure, heldBack>>

\* Containers frozen at the stop of the segment are left out.
mayEmit(s) == Running /\ turn = s /\ Feeds[s] \notin frozen

\* Records due in the step: those after the cursor born at its end at the latest.
due(s) ==
    Cardinality({k \in DOMAIN birthTimes[s] : k > next[s] /\ birthTimes[s][k] <= time + dt})

\* Faulty variant: no check for records of an earlier step.
neverOverdue(s) == FALSE

\* The first record due was born before the step.
overdue(s) ==
    due(s) > 0 /\ \E k \in DOMAIN birthTimes[s] : k = next[s] + 1 /\ birthTimes[s][k] < time

\* Every rank creates the records of its part behind its own particles.
create(c, n) ==
    localNum' = [localNum EXCEPT ![c] = [r \in Ranks |-> @[r] + emitCount(n, c, r)]]

\* How often a record is created when the ranks emit the next n.
copies(s, n, k) ==
    Cardinality({r \in Ranks :
        k \in next[s] + emitOffset(n, Feeds[s], r) + 1 ..
              next[s] + emitOffset(n, Feeds[s], r) + emitCount(n, Feeds[s], r)})

\* EmittedFromFile::emitParticles, OpalFlatTop::emitParticles
EmitInventory(s) ==
    /\ s \in Inventory /\ mayEmit(s)
    /\ ~overdue(s) /\ shared(due(s), Feeds[s]) = due(s)
    /\ next' = [next EXCEPT ![s] = @ + due(s)]
    /\ made' = [made EXCEPT ![s] = [k \in DOMAIN @ |-> @[k] + copies(s, due(s), k)]]
    /\ create(Feeds[s], due(s))
    /\ turn' = turn + 1
    /\ UNCHANGED <<time, dtTrack, dt, frozen, emitted, failure, heldBack>>

\* The exceptions of the same function, which end the run on all ranks.
EmitFails(s) ==
    /\ s \in Inventory /\ mayEmit(s)
    /\ \/ overdue(s) /\ failure' = "overdue"
       \/ ~overdue(s) /\ shared(due(s), Feeds[s]) < due(s) /\ failure' = "full"
    /\ UNCHANGED <<time, dtTrack, dt, turn, frozen, sources, heldBack>>

\* FlatTop::emitParticles: the profile gives up to totalN_m particles in a step
\* that begins inside the window or before it; what does not fit is dropped.
EmitProfile(s) ==
    /\ s \in Profiled /\ mayEmit(s)
    /\ \E n \in IF time - T0[s] < Window[s] THEN 0 .. TotalN[s] ELSE {0} :
          /\ create(Feeds[s], n)
          /\ emitted' = [emitted EXCEPT ![s] = @ + shared(n, Feeds[s])]
    /\ turn' = turn + 1
    /\ UNCHANGED <<time, dtTrack, dt, frozen, next, made, failure, heldBack>>

SkipFrozen(s) ==
    /\ Running /\ turn = s /\ Feeds[s] \in frozen
    /\ turn' = turn + 1
    /\ UNCHANGED <<time, dtTrack, dt, frozen, sources, failure, heldBack>>

\* The step after emission: the time step is selected again, the clock advances by
\* it, and containers reach the stop of the segment.
FinishStep ==
    /\ Running /\ turn = NumSources + 1
    /\ time' = time + selectDT(next)
    /\ frozen' \in {frozen \cup stopped : stopped \in SUBSET Containers}
    /\ heldBack' = (heldBack \/ \E s \in Pending(next) : Feeds[s] \in frozen')
    /\ turn' = 0
    /\ UNCHANGED <<dtTrack, dt, sources, failure>>

\* The next segment frees the containers and brings its own time step.
NextSegment ==
    /\ Running /\ turn = 0
    /\ frozen' = {}
    /\ dtTrack' \in TrackDts
    /\ UNCHANGED <<time, dt, turn, sources, failure, heldBack>>

\* Between steps particles are lost and migrate between ranks, within the storage
\* there is.
Redistribute ==
    /\ Running /\ turn = 0
    /\ \E c \in Containers : \E after \in [Ranks -> 0 .. Capacity[c]] :
          /\ sumBelow(after)[NumRanks] <= sumBelow(localNum[c])[NumRanks]
          /\ localNum' = [localNum EXCEPT ![c] = after]
    /\ UNCHANGED <<time, dtTrack, dt, turn, frozen, next, emitted, made, failure, heldBack>>

Next ==
    \/ BeginStep \/ FinishStep \/ NextSegment \/ Redistribute
    \/ \E s \in Sources : EmitInventory(s) \/ EmitFails(s) \/ EmitProfile(s) \/ SkipFrozen(s)

Spec == Init /\ [][Next]_vars

-----------------------------------------------------------------------------
(* Properties.                                                              *)

\* Every variable has its type; no cursor is past the end of its inventory.
TypeOK ==
    /\ time \in Int /\ dtTrack \in TrackDts /\ dt \in Nat \ {0}
    /\ turn \in 0 .. NumSources + 1
    /\ frozen \subseteq Containers
    /\ \A s \in Inventory : next[s] \in 0 .. Len(birthTimes[s])
    /\ \A s \in Profiled : emitted[s] \in Nat
    /\ \A c \in Containers, r \in Ranks : localNum[c][r] \in Nat
    /\ failure \in {"none", "overdue", "full"}
    /\ heldBack \in BOOLEAN

\* The ranks work out their parts of a step by themselves: together they create
\* each record the cursor has passed exactly once, and no other record, however
\* little space each of them has left.
EachBirthOnce ==
    \A s \in Inventory : \A k \in DOMAIN made[s] :
        made[s][k] = IF k <= next[s] THEN 1 ELSE 0

\* Emission never needs more storage than was allocated, on any rank, although
\* several sources fill one container and its particles move between ranks.
StorageNeverResized == \A c \in Containers, r \in Ranks : localNum[c][r] <= Capacity[c]

\* A run ends for lack of storage only if all ranks together have too little: space
\* on any rank is found.
FullMeansFull ==
    failure = "full" =>
        due(turn) >
            sumBelow([r \in Ranks |-> Capacity[Feeds[turn]] - localNum[Feeds[turn]][r]])[NumRanks]

\* The storage of all ranks is used up to the last place and never overrun.
StorageRespected == TypeOK /\ StorageNeverResized /\ FullMeansFull

\* A record is never emitted in a step before or after the one it is born in, also
\* when its container was frozen for a while.
BornInTheirStep ==
    [][\A s \in Inventory : \A k \in next[s] + 1 .. next'[s] :
          time <= birthTimes[s][k] /\ birthTimes[s][k] <= time + dt]_vars

\* A step emits all records born in it: between two steps nothing born before now is
\* left, unless a container was frozen with births to come.
StepEmitsItsBirths ==
    (turn = 0 /\ ~heldBack) => \A s \in Pending(next) : birthTimes[s][next[s] + 1] >= time
=============================================================================
