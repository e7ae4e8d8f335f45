-------------------------- MODULE BorisStepControl --------------------------
(***************************************************************************)
(* boris_step::Control: the schedule of bisected intervals inside one       *)
(* nominal time step. Time is counted in ticks of the smallest float, so    *)
(* that an odd number of ticks is an interval that cannot be bisected.      *)
(***************************************************************************)
EXTENDS Integers, Sequences

CONSTANTS
    MaxDepth,    \* maximumDepth, 64 in the code
    MaxTrials,   \* maximumTrials_m, the work budget
    TimeFloor    \* timeFloor_m, the interval below which bisection is pointless

ASSUME ControlAssumption ==
    /\ MaxDepth \in Nat
    /\ MaxTrials \in Nat \ {0}
    /\ TimeFloor \in Nat

\* A pending interval: its depth, its width, and for the properties only the
\* time relative to the nominal start at which it is going to end.
Tile(depth, width, end) == [depth |-> depth, width |-> width, end |-> end]

\* No schedule: the empty optional.
NoSchedule == [pending |-> <<>>, trials |-> 0, elapsed |-> 0, nominal |-> 0]

emplace(nominal) ==
    [pending |-> <<Tile(0, nominal, nominal)>>, trials |-> 1, elapsed |-> 0, nominal |-> nominal]

done(s)     == s.pending = <<>>
current(s)  == s.pending[Len(s.pending)]
step(s)     == current(s).width

canSplit(s) ==
    /\ ~done(s)
    /\ current(s).depth < MaxDepth
    /\ step(s) > TimeFloor
    /\ step(s) % 2 = 0

\* requireNextTrial: another interval may be attempted.
trialsLeft(s) == s.trials < MaxTrials

\* Faulty variant: the second half keeps the width of its parent.
splitKeepingParent(s) ==
    LET t == current(s)  half == t.width \div 2  last == Len(s.pending)
    IN  [pending |-> Append([s.pending EXCEPT ![last].depth = t.depth + 1],
                            Tile(t.depth + 1, half, t.end - half)),
         trials  |-> s.trials + 1, elapsed |-> s.elapsed, nominal |-> s.nominal]

\* Reject the current interval: keep its second half, visit its first half.
split(s) ==
    LET t == current(s)  half == t.width \div 2  last == Len(s.pending)
    IN  [pending |-> Append([s.pending EXCEPT ![last] = Tile(t.depth + 1, half, t.end)],
                            Tile(t.depth + 1, half, t.end - half)),
         trials  |-> s.trials + 1, elapsed |-> s.elapsed, nominal |-> s.nominal]

\* Commit the current interval; the last one snaps the sum to the nominal step.
accept(s) ==
    LET rest == SubSeq(s.pending, 1, Len(s.pending) - 1)
    IN  [pending |-> rest,
         trials  |-> IF rest = <<>> THEN s.trials ELSE s.trials + 1,
         elapsed |-> IF rest = <<>> THEN s.nominal ELSE s.elapsed + step(s),
         nominal |-> s.nominal]

\* Faulty variant: accepting is not charged to the budget.
canAcceptUnbudgeted(s) == TRUE

\* accept() needs another trial unless the interval is the last one.
canAccept(s) == Len(s.pending) = 1 \/ trialsLeft(s)
=============================================================================
