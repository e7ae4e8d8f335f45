------------------------ MODULE DirectedTurnCounter ------------------------
(***************************************************************************)
(* DirectedTurnCounter of one reference particle on a ring. Positions are   *)
(* path lengths; the signed distance to the launch plane is that of a       *)
(* circular orbit with its sine replaced by the triangle wave of the same   *)
(* zeros and quarters.                                                     *)
(***************************************************************************)
EXTENDS Integers

CONSTANTS
    Circumference,   \* length of the orbit, a multiple of four
    Tolerance        \* distance behind the plane that arms the counter

ASSUME TurnAssumption ==
    /\ Circumference \in Nat \ {0} /\ Circumference % 4 = 0
    /\ Tolerance \in Nat \ {0}

\* What the orbit makes of a path length.
distance(s) ==
    LET p == s % Circumference  quarter == Circumference \div 4
    IN  IF p <= quarter THEN p
        ELSE IF p <= 3 * quarter THEN 2 * quarter - p
        ELSE p - Circumference

forward(s) ==
    LET p == s % Circumference  quarter == Circumference \div 4
    IN  p < quarter \/ p > 3 * quarter

NewCounter == [armed |-> FALSE, turns |-> 0]

arming(c, s)  == c.armed \/ distance(s) < -Tolerance
counts(c, s)  == arming(c, s) /\ distance(s) >= 0 /\ forward(s)

\* Faulty variant: the counter stays armed when it counts.
updateStaysArmed(c, s) ==
    [armed |-> arming(c, s), turns |-> IF counts(c, s) THEN c.turns + 1 ELSE c.turns]

update(c, s) ==
    [armed |-> arming(c, s) /\ ~counts(c, s),
     turns |-> IF counts(c, s) THEN c.turns + 1 ELSE c.turns]

\* Light covers `reach` in the step; the reference moves from s at `speed`.
canReturn(c, s, requested, reach) ==
    /\ c.armed /\ requested > 0 /\ c.turns = requested - 1
    /\ distance(s) < 0
    /\ -distance(s) <= reach

returning(c, s, requested, dt, speed) ==
    /\ canReturn(c, s, requested, speed * dt)
    /\ distance(s + speed * dt) >= 0
    /\ forward(s + speed * dt)

\* The bisection keeps the end on the nonnegative side of the plane.
firstReturn(s, dt, speed) ==
    CHOOSE h \in 1 .. dt : /\ distance(s + speed * h) >= 0
                           /\ \A g \in 1 .. h - 1 : distance(s + speed * g) < 0

terminalStep(c, s, requested, dt, speed) ==
    IF returning(c, s, requested, dt, speed) THEN firstReturn(s, dt, speed) ELSE dt

\* The terminal step is refused if it ends too far past the plane.
unresolved(c, s, requested, dt, speed) ==
    /\ returning(c, s, requested, dt, speed)
    /\ distance(s + speed * firstReturn(s, dt, speed)) > Tolerance
=============================================================================
