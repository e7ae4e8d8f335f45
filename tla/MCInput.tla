------------------------------ MODULE MCInput ------------------------------
(* Instances of InputProgram for TLC: all input files of up to three         *)
(* statements over a small set of statements.                               *)
EXTENDS InputProgram

Number(k)  == [ref |-> NoName, plus |-> k]
Sum(n, k)  == [ref |-> n, plus |-> k]
Assignment(o, n, x, declared, const, arrow) ==
    [op |-> o, name |-> n, expr |-> x, declared |-> declared, const |-> const, arrow |-> arrow]
Let(n, x)      == Assignment("assign", n, x, TRUE, FALSE, FALSE)
Set(n, x)      == Assignment("assign", n, x, FALSE, FALSE, FALSE)
Const(n, x)    == Assignment("assign", n, x, TRUE, TRUE, FALSE)
Deferred(n, x) == Assignment("defer", n, x, TRUE, FALSE, FALSE)
SetOf(n, x)    == Assignment("assign", n, x, FALSE, FALSE, TRUE)
ElementOf(n, x, eager) == [op |-> "element", name |-> n, expr |-> x, eager |-> eager]
CommandOf(n, eager, track) ==
    [op |-> "command", expr |-> Sum(n, 0), eager |-> eager, track |-> track]
ValueOf(n) == CommandOf(n, FALSE, FALSE)
IfLess(n, k, s, t) ==
    [op |-> "if", condition |-> [name |-> n, limit |-> k], then |-> s, else |-> t]
WhileLess(n, k, s) == [op |-> "while", condition |-> [name |-> n, limit |-> k], body |-> s]
BlockOf(b) == [op |-> "block", body |-> b]
CallOf(f)  == [op |-> "call", file |-> f]
OpenTrack  == [op |-> "track"]
CloseTrack == [op |-> "endtrack"]
StopNow    == [op |-> "stop"]
StopBelow2 == IfLess("b", 2, StopNow, Nothing)

\* Called files: one that stops before its end, one that reads to its end.
CalledFiles == [stops |-> <<Let("b", Number(2)), StopNow, Let("b", Number(0))>>,
                reads |-> <<Let("b", Number(1)), ValueOf("a")>>]

\* The statements the programs are made of. "a" is never a plain number, so a
\* loop over "a" ends when its body counts "b" up.
Listed ==
    {Deferred("a", Sum("b", 1)), Deferred("b", Sum("a", 1)),
     Let("b", Number(1)), Set("b", Sum("b", 1)), Const("b", Number(1)), Let("c", Sum("a", 0)),
     SetOf("e", Sum("a", 1)), SetOf("b", Number(3)),
     CommandOf("a", TRUE, FALSE), CommandOf("a", FALSE, TRUE),
     ElementOf("e", Sum("a", 0), FALSE), ElementOf("e", Sum("a", 0), TRUE), ValueOf("a"),
     IfLess("a", 3, BlockOf(<<StopNow, Let("b", Number(2))>>), Let("b", Number(0))),
     IfLess("b", 2, Let("b", Number(2)), Nothing),
     WhileLess("b", 2, BlockOf(<<Set("b", Sum("b", 1)), StopBelow2, ValueOf("a")>>)),
     WhileLess("a", 3, Let("b", Sum("b", 1))),
     CallOf("stops"), CallOf("reads"), OpenTrack, CloseTrack, StopNow}

\* With those nested in others, in a called file or in the preamble.
AllStatements == Listed \cup {Let("b", Number(k)) : k \in {0, 2}}
                        \cup {StopBelow2} \cup {s.then : s \in {t \in Listed : t.op = "if"}}
                        \cup {s.body : s \in {t \in Listed : t.op = "while"}}

\* Deferred definitions first, so that the loops have something to count.
Preamble    == <<Deferred("a", Sum("b", 1)), Let("b", Number(0))>>
AllPrograms == {Preamble \o p : p \in UNION {[1 .. n -> Listed] : n \in 1 .. 3}}
=============================================================================
