---------------------------- MODULE InputProgram ----------------------------
(***************************************************************************)
(* The input language: OpalParser with its stack of streams and its         *)
(* structured statements, the values of objects with the cache of deferred  *)
(* expressions, and OpalData::update, which makes commands see current      *)
(* values. Statements are records; text, indices and types are left out.    *)
(*                                                                         *)
(* An expression is a number added to the value of at most one name, and    *)
(* every object has one attribute. Numbers saturate at Cap, a bound of the  *)
(* model. A parser is named by its place in the stack of activations.       *)
(***************************************************************************)
EXTENDS Integers, Sequences, FiniteSets

CONSTANTS
    Statements, \* the statements of all files, nested ones included
    Programs,   \* the input files to consider, each a sequence of statements
    Files,      \* file name -> the statements of a file that can be CALLed
    Cap         \* bound on values

NoName == "none"
Nothing == [op |-> "nothing"]

IsName(n)       == n \in STRING /\ n # NoName
IsExpression(x) == x.ref \in STRING /\ x.plus \in Nat

\* What the parsers make of a statement.
IsStatement(s) ==
    /\ s.op \in {"assign", "defer", "element"} => IsName(s.name) /\ IsExpression(s.expr)
    /\ s.op = "command" => IsExpression(s.expr)
    /\ s.op \in {"element", "command"} => s.eager \in BOOLEAN
    /\ s.op \in {"if", "while"} => IsName(s.condition.name)
    /\ s.op = "if" => {s.then, s.else} \subseteq Statements \cup {Nothing}
    /\ s.op = "while" => s.body \in Statements
    /\ s.op = "block" => s.body \in Seq(Statements)
    /\ s.op = "call" => s.file \in DOMAIN Files

ASSUME InputAssumption ==
    /\ Cap \in Nat \ {0}
    /\ Programs \subseteq Seq(Statements)
    /\ \A f \in DOMAIN Files : Files[f] \in Seq(Statements)
    /\ \A s \in Statements : IsStatement(s)

VARIABLES
    control,    \* activations of run(), WHILE statements and pending statements
    inputs,     \* inputStack: what is left to read of each stream
    stopped,    \* parsers whose stopFlag is set
    halted,     \* history: parser that executed a STOP or ENDTRACK -> "stopped", or
                \* "looped" once it has tested the condition of a loop again; and
                \* the parser of a file -> "spared", if a STOP was in a track block
    defs,       \* name -> attribute: its value or expression, and the cache
    constants,  \* names defined by CONST
    built,      \* element -> value its physical element was last updated to
    modified,   \* OpalData's modified flag
    read,       \* history: the last value read, and what was to be read
    phase       \* "running", "done" or "aborted"

engine == <<control, inputs, stopped, halted>>
data   == <<defs, constants, built, modified>>
vars   == <<engine, data, read, phase>>

-----------------------------------------------------------------------------
(* Attributes and their evaluation.                                         *)

\* A directory with an entry that is new or replaces another, and one with an entry
\* less.
with(directory, name, x) ==
    [n \in DOMAIN directory \cup {name} |-> IF n = name THEN x ELSE directory[n]]

without(directory, name) == [n \in DOMAIN directory \ {name} |-> directory[n]]

Plain(v)      == [value |-> v, ref |-> NoName, plus |-> 0, known |-> TRUE]
Automatic(x)  == [value |-> 0, ref |-> x.ref, plus |-> x.plus, known |-> FALSE]

capped(v) == IF v > Cap THEN Cap ELSE v

cached(x, v) == [x EXCEPT !.value = v, !.known = TRUE]

\* A known value is returned; an unknown expression is evaluated and cached once
\* the attribute it refers to has been found.
settled(x, found) ==
    IF x.known THEN x
    ELSE IF x.ref = NoName THEN cached(x, capped(x.plus))
    ELSE IF x.ref \notin DOMAIN found THEN x
    ELSE LET y == found[x.ref]
         IN  IF y.known THEN cached(x, capped(y.value + x.plus)) ELSE x

\* Every expression evaluated, the innermost first. What as many rounds as there are
\* names leave unknown refers to an unknown name or, in the end, to itself.
evaluated(store) ==
    LET found[k \in 0 .. Cardinality(DOMAIN store)] ==
            IF k = 0 THEN store
            ELSE LET last == found[k - 1] IN [n \in DOMAIN store |-> settled(store[n], last)]
    IN  found[Cardinality(DOMAIN store)]

\* The names an evaluation of some asks for: with an unknown one, the one it refers to.
asked(store, names) ==
    LET reached[k \in 0 .. Cardinality(DOMAIN store)] ==
            IF k = 0 THEN names
            ELSE LET last == reached[k - 1]
                 IN  last \cup {store[n].ref : n \in {m \in last \cap DOMAIN store : ~store[m].known}}
    IN  reached[Cardinality(DOMAIN store)]

\* They are cached by it, and no others.
cachedFor(store, names) ==
    LET found == evaluated(store)
        those == asked(store, names)
    IN  [n \in DOMAIN store |-> IF n \in those THEN found[n] ELSE store[n]]

Failed == [ok |-> FALSE]

hasValue(store, n) == n \in DOMAIN store /\ evaluated(store)[n].known

\* An expression evaluates the attribute it refers to: a plain or cached value is
\* returned; otherwise the expression there is evaluated and cached. An unknown
\* name and a recursive definition are errors.
evaluate(store, x) ==
    IF x.ref = NoName THEN [ok |-> TRUE, value |-> capped(x.plus), store |-> store]
    ELSE IF hasValue(store, x.ref)
    THEN [ok |-> TRUE, value |-> capped(evaluated(store)[x.ref].value + x.plus),
          store |-> cachedFor(store, {x.ref})]
    ELSE Failed

forgotten(store) == [n \in DOMAIN store |-> [store[n] EXCEPT !.known = (@ /\ store[n].ref = NoName)]]

\* Evaluation from the definitions alone, without any cache.
definitive(x) == evaluate(forgotten(defs), x)

expression(n) == [ref |-> n, plus |-> 0]

\* Faulty variant: elements are not rebuilt.
updateWithoutElements(store) ==
    [ok |-> TRUE, defs |-> IF modified THEN forgotten(store) ELSE store, built |-> built]

\* OpalData::update: forget every cached value, then rebuild every element.
update(store) ==
    IF ~modified THEN [ok |-> TRUE, defs |-> store, built |-> built]
    ELSE IF \A e \in DOMAIN built : hasValue(forgotten(store), e)
    THEN [ok |-> TRUE, defs |-> cachedFor(forgotten(store), DOMAIN built),
          built |-> [e \in DOMAIN built |-> evaluated(forgotten(store))[e].value]]
    ELSE Failed

\* What a statement that updates first then reads.
readAfterUpdate(x) == IF update(defs).ok THEN evaluate(update(defs).defs, x) ELSE Failed

outcome(r) == IF r.ok THEN r.value ELSE -1

noteRead(via, x, got) == read' = [via |-> via, got |-> got, want |-> outcome(definitive(x))]

-----------------------------------------------------------------------------
(* The stack of activations.                                                *)

top     == control[Len(control)]
below   == SubSeq(control, 1, Len(control) - 1)

\* The activation of run(): `root` if it is its parser's first, `owns` if it
\* pushed the stream it reads, `busy` while it executes a statement.
Run(parser, track, root, owns) ==
    [kind |-> "run", parser |-> parser, track |-> track, root |-> root, owns |-> owns,
     busy |-> FALSE]

Do(frame, statement) ==
    [kind |-> "do", parser |-> frame.parser, track |-> frame.track, statement |-> statement]

Loop(frame, statement) ==
    [kind |-> "while", parser |-> frame.parser, track |-> frame.track,
     statement |-> statement, last |-> "unknown"]

\* Faulty variant: the condition of a loop is not among the expressions.
refreshedNever(frames) == frames

\* The condition of a loop is an automatic expression itself: an update that
\* finds the definitions modified forgets its value with those of the others.
refreshed(frames) ==
    IF ~modified THEN frames
    ELSE [i \in DOMAIN frames |->
             IF frames[i].kind = "while" THEN [frames[i] EXCEPT !.last = "unknown"]
                                         ELSE frames[i]]

Init ==
    /\ \E p \in Programs : inputs = <<p>>
    /\ control = <<Run(1, FALSE, TRUE, TRUE)>>
    /\ stopped = {} /\ halted = [p \in {} |-> ""]
    /\ defs = [n \in {} |-> 0] /\ constants = {} /\ built = [n \in {} |-> 0]
    /\ modified = FALSE
    /\ read = [via |-> "nothing", got |-> 0, want |-> 0]
    /\ phase = "running"

running(kind)  == phase = "running" /\ top.kind = kind
executing(op)  == running("do") /\ top.statement.op = op

\* MPI_Abort, or an exception that ends the program.
abort == phase' = "aborted" /\ UNCHANGED <<engine, data, read>>

\* readStatement, and what is left of the stream.
ReadStatement ==
    /\ running("run") /\ ~top.busy
    /\ inputs[Len(inputs)] # <<>>
    /\ control' = Append(Append(below, [top EXCEPT !.busy = TRUE]),
                         Do(top, Head(inputs[Len(inputs)])))
    /\ inputs' = [inputs EXCEPT ![Len(inputs)] = Tail(@)]
    /\ UNCHANGED <<stopped, halted, data, read, phase>>

\* Faulty variant: the stream stays on the stack when a STOP ends it.
ReturnLeavingStream ==
    /\ running("run")
    /\ IF top.busy THEN top.parser \in stopped ELSE inputs[Len(inputs)] = <<>>
    /\ control' = below
    /\ inputs' = IF top.owns /\ ~top.busy THEN SubSeq(inputs, 1, Len(inputs) - 1) ELSE inputs
    /\ halted' = IF top.root THEN without(halted, top.parser) ELSE halted
    /\ phase' = IF below = <<>> THEN "done" ELSE "running"
    /\ UNCHANGED <<stopped, data, read>>

\* run() returns at the end of its stream, or after a statement that stopped
\* the parser; the overload with a stream pops it.
Return ==
    /\ running("run")
    /\ IF top.busy THEN top.parser \in stopped ELSE inputs[Len(inputs)] = <<>>
    /\ control' = below
    /\ inputs' = IF top.owns THEN SubSeq(inputs, 1, Len(inputs) - 1) ELSE inputs
    /\ halted' = IF top.root THEN without(halted, top.parser) ELSE halted
    /\ phase' = IF below = <<>> THEN "done" ELSE "running"
    /\ UNCHANGED <<stopped, data, read>>

NextStatement ==
    /\ running("run") /\ top.busy /\ top.parser \notin stopped
    /\ control' = Append(below, [top EXCEPT !.busy = FALSE])
    /\ UNCHANGED <<inputs, stopped, halted, data, read, phase>>

\* Faulty variant: run() keeps the stopFlag it finds.
enterStopped(parser) == stopped

\* run() begins by clearing the parser's stopFlag.
enter(parser) == stopped \ {parser}

-----------------------------------------------------------------------------
(* Assignments and definitions.                                             *)

\* The object an assignment is to. "object->attribute" needs a known object and
\* no type; a variable needs REAL or CONST if it is unknown, and is neither an
\* element nor a constant.
assignable(s) ==
    IF s.arrow THEN s.name \in DOMAIN defs /\ ~s.declared
    ELSE /\ s.name \in DOMAIN defs \/ s.declared
         /\ s.name \notin constants \cup DOMAIN built

\* A new object is defined, with value 0, before its expression is parsed.
withObject(s) == IF s.name \in DOMAIN defs THEN defs ELSE with(defs, s.name, Plain(0))

\* Faulty variant: the assignment does not mark the definitions as modified.
assignedSilently(s, store, attribute) ==
    /\ defs' = [store EXCEPT ![s.name] = attribute]
    /\ constants' = IF s.const /\ s.name \notin DOMAIN defs
                    THEN constants \cup {s.name} ELSE constants
    /\ modified' = modified

assigned(s, store, attribute) ==
    /\ defs' = [store EXCEPT ![s.name] = attribute]
    /\ constants' = IF s.const /\ s.name \notin DOMAIN defs
                    THEN constants \cup {s.name} ELSE constants
    /\ modified' = TRUE

\* "=": the expression is evaluated while the statement is parsed.
Assign ==
    /\ executing("assign")
    /\ LET s == top.statement  r == evaluate(withObject(s), s.expr)
       IN  IF assignable(s) /\ r.ok
           THEN /\ control' = below
                /\ assigned(s, r.store, Plain(r.value))
                /\ read' = [via |-> "parsing", got |-> r.value,
                            want |-> outcome(evaluate(forgotten(withObject(s)), s.expr))]
                /\ UNCHANGED <<inputs, stopped, halted, built, phase>>
           ELSE abort

\* ":=": the expression is kept, unless it is a number; constants have no ":=".
Defer ==
    /\ executing("defer")
    /\ LET s == top.statement
       IN  IF assignable(s) /\ ~s.const /\ s.name \notin constants
           THEN /\ control' = below
                /\ assigned(s, withObject(s),
                            IF s.expr.ref = NoName THEN Plain(capped(s.expr.plus))
                                                   ELSE Automatic(s.expr))
                /\ UNCHANGED <<inputs, stopped, halted, built, read, phase>>
           ELSE abort

\* A labelled element: a new definition, or the replacement of an element.
DefineElement ==
    /\ executing("element")
    /\ LET s == top.statement
           r == IF s.eager THEN evaluate(defs, s.expr)
                           ELSE [ok |-> TRUE, value |-> 0, store |-> defs]
           attribute == IF s.eager THEN Plain(r.value) ELSE Automatic(s.expr)
       IN  IF ~top.track /\ s.name \notin DOMAIN defs \ DOMAIN built /\ r.ok
           THEN /\ control' = below
                /\ defs' = with(r.store, s.name, attribute)
                /\ built' = with(built, s.name, 0)
                /\ modified' = TRUE
                /\ IF s.eager THEN noteRead("parsing", s.expr, r.value) ELSE UNCHANGED read
                /\ UNCHANGED <<inputs, stopped, halted, constants, phase>>
           ELSE abort

-----------------------------------------------------------------------------
(* Commands and structured statements.                                      *)

\* A command: "=" gives an attribute the value it has while the command is
\* parsed, ":=" the value after the update that comes before the execution.
\* The parser of a track block knows only its own commands, such as RUN.
Command ==
    /\ executing("command")
    /\ LET s == top.statement
           parsed == IF s.eager THEN evaluate(defs, s.expr)
                                ELSE [ok |-> TRUE, value |-> 0, store |-> defs]
           u == update(parsed.store)
           r == IF s.eager THEN [parsed EXCEPT !.store = u.defs] ELSE evaluate(u.defs, s.expr)
       IN  IF (top.track <=> s.track) /\ parsed.ok /\ u.ok /\ r.ok
           THEN /\ control' = refreshed(below)
                /\ defs' = r.store /\ built' = u.built /\ modified' = FALSE
                /\ noteRead(IF s.eager THEN "parsing" ELSE "execution", s.expr, r.value)
                /\ UNCHANGED <<inputs, stopped, halted, constants, phase>>
           ELSE abort

holds(condition, v) == v < condition.limit

If ==
    /\ executing("if")
    /\ LET s == top.statement  x == expression(s.condition.name)  r == readAfterUpdate(x)
           chosen == IF holds(s.condition, r.value) THEN s.then ELSE s.else
       IN  IF r.ok
           THEN /\ control' = IF chosen = Nothing THEN refreshed(below)
                              ELSE Append(refreshed(below), Do(top, chosen))
                /\ defs' = r.store /\ built' = update(defs).built /\ modified' = FALSE
                /\ noteRead("execution", x, r.value)
                /\ UNCHANGED <<inputs, stopped, halted, constants, phase>>
           ELSE abort

BeginWhile ==
    /\ executing("while")
    /\ control' = Append(below, Loop(top, top.statement))
    /\ UNCHANGED <<inputs, stopped, halted, data, read, phase>>

\* The stopFlag plays no part in a loop: a STOP in its body ends the round.
looping(parser) == IF parser \in DOMAIN halted THEN with(halted, parser, "looped") ELSE halted

TestWhile ==
    /\ running("while")
    /\ LET c == top.statement.condition  x == expression(c.name)  r == readAfterUpdate(x)
           frame == refreshed(control)[Len(control)]
           known == frame.last # "unknown"
           passed == IF known THEN frame.last = "true" ELSE holds(c, r.value)
       IN  IF r.ok
           THEN /\ control' = IF passed
                              THEN Append(Append(refreshed(below), [frame EXCEPT !.last = "true"]),
                                          Do(top, top.statement.body))
                              ELSE refreshed(below)
                /\ defs' = IF known THEN update(defs).defs ELSE r.store
                /\ built' = update(defs).built /\ modified' = FALSE
                /\ read' = [via |-> "execution", got |-> passed,
                            want |-> holds(c, outcome(definitive(x)))]
                /\ halted' = looping(top.parser)
                /\ UNCHANGED <<inputs, stopped, constants, phase>>
           ELSE abort

\* A compound statement or a macro call: the same parser runs another stream.
Block ==
    /\ executing("block")
    /\ control' = Append(below, Run(top.parser, top.track, FALSE, TRUE))
    /\ inputs' = Append(inputs, top.statement.body)
    /\ stopped' = enter(top.parser)
    /\ UNCHANGED <<halted, data, read, phase>>

\* CALL runs the file with a parser of its own.
Call ==
    /\ executing("call")
    /\ IF ~top.track /\ update(defs).ok
       THEN /\ control' = Append(refreshed(below), Run(Len(control), FALSE, TRUE, TRUE))
            /\ inputs' = Append(inputs, Files[top.statement.file])
            /\ stopped' = enter(Len(control))
            /\ defs' = update(defs).defs /\ built' = update(defs).built /\ modified' = FALSE
            /\ UNCHANGED <<halted, constants, read, phase>>
       ELSE abort

\* TRACK lets the parser of the track block read on in the current stream.
Track ==
    /\ executing("track")
    /\ IF ~top.track /\ update(defs).ok
       THEN /\ control' = Append(refreshed(below), Run(Len(control), TRUE, TRUE, FALSE))
            /\ stopped' = enter(Len(control))
            /\ defs' = update(defs).defs /\ built' = update(defs).built /\ modified' = FALSE
            /\ UNCHANGED <<inputs, halted, constants, read, phase>>
       ELSE abort

\* Only the parser of a track block knows ENDTRACK, which stops it.
EndTrack ==
    /\ executing("endtrack")
    /\ IF top.track /\ update(defs).ok
       THEN /\ control' = refreshed(below)
            /\ stopped' = stopped \cup {top.parser}
            /\ halted' = with(halted, top.parser, "stopped")
            /\ defs' = update(defs).defs /\ built' = update(defs).built /\ modified' = FALSE
            /\ UNCHANGED <<inputs, constants, read, phase>>
       ELSE abort

\* The parser of the file that is read: for a track block, the one that read TRACK.
fileParser == IF top.track THEN control[top.parser - 1].parser ELSE top.parser

\* STOP and QUIT are recognised by the parser itself, which stops; in a track
\* block, the parser of the file does not.
Stop ==
    /\ executing("stop")
    /\ control' = below
    /\ stopped' = stopped \cup {top.parser}
    /\ halted' = with(with(halted, fileParser, "spared"), top.parser, "stopped")
    /\ UNCHANGED <<inputs, data, read, phase>>

Next ==
    \/ ReadStatement \/ Return \/ NextStatement
    \/ Assign \/ Defer \/ DefineElement \/ Command
    \/ If \/ BeginWhile \/ TestWhile \/ Block
    \/ Call \/ Track \/ EndTrack \/ Stop

Spec     == Init /\ [][Next]_vars
FairSpec == Spec /\ WF_vars(Next)

-----------------------------------------------------------------------------
(* Properties.                                                              *)

\* Types, and the stack discipline of streams: each stream on inputStack
\* belongs to one activation of run() that has not returned.
TypeOK ==
    /\ phase \in {"running", "done", "aborted"}
    /\ modified \in BOOLEAN
    /\ \A n \in DOMAIN defs : defs[n].value \in 0 .. Cap /\ defs[n].known \in BOOLEAN
    /\ DOMAIN built \subseteq DOMAIN defs /\ constants \subseteq DOMAIN defs
    /\ \A i \in DOMAIN control : control[i].kind \in {"run", "while", "do"}
    /\ Len(inputs) = Cardinality({i \in DOMAIN control : control[i].kind = "run" /\ control[i].owns})

\* What a condition or a command reads is what the definitions say now, not a
\* value cached before a later assignment, in every round of a loop.
ReadsCurrent == read.via = "execution" => read.got = read.want

\* Between an update and the next assignment every cached value is right,
\* whichever of the expressions have been evaluated in between.
CachesSound ==
    ~modified => \A n \in DOMAIN defs :
                    defs[n].known => defs[n].value = outcome(definitive(expression(n)))

\* As long as nothing is modified, the elements a run would track through are
\* built from the current definitions.
ElementsCurrent ==
    ~modified => \A e \in DOMAIN built : built[e] = outcome(definitive(expression(e)))

\* An update leaves nothing behind that was worked out before it.
UpdateRefreshes == CachesSound /\ ElementsCurrent

\* BasicActions/Stop.cpp:22-23: STOP "terminates program execution or reading of a
\* called file". Nothing of a file is executed after its STOP or QUIT, in no block, loop,
\* called file or track block that it has entered, and nothing of a track block after
\* ENDTRACK. Two cases in which the code departs from the text are left out: in a loop
\* ("looped") the condition is tested again and may start another round; and a STOP in
\* a track block ends the block as ENDTRACK does, while the file is read on ("spared").
NothingAfterStop == running("do") => \A p \in DOMAIN halted : halted[p] # "stopped"

\* Statements of a file or a block are given up only because of a STOP of the
\* parser that reads them; a STOP in a called file spares its caller.
DroppedOnlyByStop ==
    [][Len(inputs') < Len(inputs) /\ inputs[Len(inputs)] # <<>>
           => top.parser \in DOMAIN halted]_vars

\* A STOP outside of loops and track blocks ends the reading of its file, ENDTRACK that
\* of its track block, and neither ends anything else.
StopIsExact == []NothingAfterStop /\ DroppedOnlyByStop

\* A loop whose body makes its condition false is left, and the program ends.
Terminates == <>(phase # "running")
=============================================================================
