------------------------------ MODULE MCOrbit ------------------------------
(* Instances of OrbitThreader for TLC: a line with and without resolved        *)
(* supports, with the bunch reaching behind the reference or not, and rings    *)
(* launched at path length 0, or at 3 as a restart does.                       *)
EXTENDS OrbitThreader

\* An element, a marker, and one whose field goes on beyond the stop.
Supports == [begin : {-1, 0, 2, 5}, length : {2, 4, 5}, steps : {1}]
                \cup {[begin |-> 2, length |-> 2, steps |-> 0],
                      [begin |-> 12, length |-> 2, steps |-> 1]}

Lines == [ring : {FALSE}, closes : {FALSE}, maps : {FALSE}, start : {0, 3}, tail : {0, 2}, step : {4}]

MappedLines == [ring : {FALSE}, closes : {FALSE}, maps : {TRUE}, start : {0, 3}, tail : {0, 2}, step : {2}]

FreshRings == [ring : {TRUE}, closes : BOOLEAN, maps : {FALSE}, start : {0}, tail : {0, 2}, step : {2}]

RestartedRings == [ring : {TRUE}, closes : {TRUE}, maps : {FALSE}, start : {3}, tail : {2}, step : {2}]

Fresh == Lines \cup MappedLines \cup FreshRings
=============================================================================
