------------------------ MODULE CheckpointFile_proofs ------------------------
(* CheckpointFile for any number of ranks, writes, failed calls and kills: the *)
(* published file is complete, the data of two checkpoints are never mixed,   *)
(* and the published file is replaced atomically.                             *)
EXTENDS CheckpointFile, TLAPS

USE CheckpointAssumption DEF outside, entered, opened, written, closed, told

-----------------------------------------------------------------------------
(* The inductive invariant.                                                 *)

\* A rank inside a write has one left to do.
Busy == \A r \in Ranks : stage[r] # outside => writes[r] < MaxWrites

\* A rank past a barrier, a collective call or the broadcast has been waited for.
Barriers ==
    \A r \in Ranks :
        /\ stage[r] >= opened  => AllReached(r, entered)
        /\ stage[r] >= written => AllReached(r, opened)
        /\ stage[r] >= closed  => AllReached(r, written)
        /\ stage[r] >= told    => Reached(Zero, r, told)

\* Ranks are at most one write apart, and then at its two ends.
Skew ==
    \A q, r \in Ranks : writes[q] > writes[r] =>
        /\ writes[q] = writes[r] + 1
        /\ stage[r] = told /\ stage[q] <= entered

\* The rank uses the temporary file, which rank 0 has not renamed yet.
UsesTmp(r) == stage[r] \in {opened, written, closed} /\ ~Reached(Zero, r, told)

\* The temporary file in use is that of the write, and has what was written.
TmpInUse ==
    \A r \in Ranks : UsesTmp(r) =>
        /\ tmp.version = writes[r] + 1
        /\ stage[r] # opened => r \in tmp.parts

\* The published file is that of rank 0's last rename.
FileIsLatest ==
    file.version = IF stage[Zero] = told THEN writes[Zero] + 1 ELSE writes[Zero]

TypeInv == TypeOK /\ Busy

OrderInv == Barriers /\ Skew

FileInv == TmpInUse /\ FileIsLatest /\ PublishedComplete

-----------------------------------------------------------------------------
(* The steps of the job, sorted by what they do to ranks and files.         *)

\* Failed calls, the catch handler and kills leave both as they are.
Halts == UNCHANGED <<writes, stage, disk>>

\* Every step is of one of these kinds.
LEMMA StepKinds ==
    ASSUME [Next]_vars
    PROVE  \/ Halts
           \/ Resubmit
           \/ \E r \in Ranks : \/ Enter(r) \/ Open(r) \/ Write(r) \/ Close(r)
                               \/ Rename(r) \/ Learn(r) \/ Leave(r)
<1>1. CASE Crash
  BY <1>1 DEF Crash, Halts, ranks
<1>2. CASE Resubmit
  BY <1>2
<1>3. ASSUME NEW r \in Ranks, Progress(r)
      PROVE  Halts \/ Enter(r) \/ Open(r) \/ Write(r) \/ Close(r) \/ Rename(r)
                \/ Learn(r) \/ Leave(r)
  BY <1>3 DEF Progress, Rethrow, Abort, Halts, ranks
<1>4. ASSUME NEW r \in Ranks, Failure(r) PROVE Halts
  BY <1>4 DEF Failure, OpenFails, WriteFails, CloseFails, RenameFails, Abort, Halts, ranks
<1>5. CASE UNCHANGED vars
  BY <1>5 DEF vars, ranks, Halts
<1> QED BY <1>1, <1>2, <1>3, <1>4, <1>5 DEF Next

\* A rank that advances in its write has come no less far for any other.
LEMMA AdvanceKeepsReached ==
    ASSUME TypeOK, NEW r \in Ranks, NEW s \in outside .. told,
           s >= stage[r], advance(r, s), UNCHANGED writes
    PROVE  \A p, q \in Ranks, t \in outside .. told : Reached(p, q, t) => Reached(p, q, t)'
BY DEF TypeOK, advance, Reached

-----------------------------------------------------------------------------
(* Types.                                                                   *)

LEMMA NextType == TypeInv /\ [Next]_vars => TypeInv'
<1> SUFFICES ASSUME TypeInv, [Next]_vars PROVE TypeInv'
  OBVIOUS
<1> USE DEF TypeInv, TypeOK, Busy, Contents
<1>1. CASE Crash
  BY <1>1 DEF Crash, ranks, disk
<1>2. CASE Resubmit
  BY <1>2 DEF Resubmit, disk
<1>3. ASSUME NEW r \in Ranks, Progress(r) PROVE TypeInv'
  <2>1. CASE Enter(r)
    BY <2>1 DEF Enter, Running, advance, NoFile
  <2>2. CASE Open(r)
    BY <2>2 DEF Open, Running, advance
  <2>3. CASE Write(r)
    BY <2>3 DEF Write, Running, advance
  <2>4. CASE Close(r)
    BY <2>4 DEF Close, Running, advance, disk
  <2>5. CASE Rename(r)
    BY <2>5 DEF Rename, Running, advance, NoFile
  <2>6. CASE Learn(r)
    BY <2>6 DEF Learn, Running, advance, disk
  <2>7. CASE Leave(r)
    BY <2>7 DEF Leave, Running, advance, disk
  <2>8. CASE Rethrow(r)
    BY <2>8 DEF Rethrow, Abort, ranks, disk
  <2> QED BY <1>3, <2>1, <2>2, <2>3, <2>4, <2>5, <2>6, <2>7, <2>8 DEF Progress
<1>4. ASSUME NEW r \in Ranks, Failure(r) PROVE TypeInv'
  BY <1>4 DEF Failure, OpenFails, WriteFails, CloseFails, RenameFails, Abort,
              Fails, Running, ranks, disk, advance
<1>5. CASE UNCHANGED vars
  BY <1>5 DEF vars, ranks, disk
<1> QED BY <1>1, <1>2, <1>3, <1>4, <1>5 DEF Next

-----------------------------------------------------------------------------
(* The order in which ranks get on.                                         *)

\* Advancing keeps what the barriers say of the ranks that had passed them; for
\* the rank itself the guard of the action says it.
LEMMA AdvanceKeepsBarriers ==
    ASSUME TypeOK, Barriers, NEW r \in Ranks, NEW s \in entered .. told,
           s = stage[r] + 1, advance(r, s), UNCHANGED writes,
           s = opened  => AllReached(r, entered),
           s = written => AllReached(r, opened),
           s = closed  => AllReached(r, written),
           s = told    => r = Zero \/ Reached(Zero, r, told)
    PROVE  Barriers'
<1>1. \A p, q \in Ranks, t \in outside .. told : Reached(p, q, t) => Reached(p, q, t)'
  BY AdvanceKeepsReached DEF TypeOK
<1>2. \A q \in Ranks, t \in outside .. told : AllReached(q, t) => AllReached(q, t)'
  BY <1>1 DEF AllReached
<1>3. \A q \in Ranks : stage'[q] = IF q = r THEN s ELSE stage[q]
  BY DEF TypeOK, advance
<1>4. SUFFICES ASSUME NEW q \in Ranks
      PROVE  /\ stage'[q] >= opened  => AllReached(q, entered)'
             /\ stage'[q] >= written => AllReached(q, opened)'
             /\ stage'[q] >= closed  => AllReached(q, written)'
             /\ stage'[q] >= told    => Reached(Zero, q, told)'
  BY DEF Barriers
<1>5. CASE q # r
  BY <1>1, <1>2, <1>3, <1>5 DEF Barriers
<1>6. CASE q = r
  <2>1. stage[r] \in 0 .. 5 /\ stage'[r] = s
    BY <1>3 DEF TypeOK
  <2>2. /\ stage'[r] >= opened  => AllReached(r, entered)
        /\ stage'[r] >= written => AllReached(r, opened)
        /\ stage'[r] >= closed  => AllReached(r, written)
    BY <2>1 DEF Barriers
  <2>3. stage'[r] >= told => Reached(Zero, r, told)'
    <3>1. CASE r = Zero
      BY <2>1, <3>1 DEF Reached
    <3>2. CASE r # Zero
      BY <1>1, <2>1, <3>2
    <3> QED BY <3>1, <3>2
  <2> QED BY <1>2, <1>6, <2>2, <2>3
<1> QED BY <1>5, <1>6

\* A rank that is a write ahead does not get past the first barrier, and one that
\* is behind does not get past the last.
LEMMA AdvanceKeepsSkew ==
    ASSUME TypeOK, Skew, NEW r \in Ranks, NEW s \in entered .. told,
           s = stage[r] + 1, advance(r, s), UNCHANGED writes,
           s >= opened => AllReached(r, entered)
    PROVE  Skew'
<1>1. \A q \in Ranks : stage'[q] = IF q = r THEN s ELSE stage[q]
  BY DEF TypeOK, advance
<1>2. SUFFICES ASSUME NEW p \in Ranks, NEW q \in Ranks, writes[p] > writes[q]
      PROVE  writes[p] = writes[q] + 1 /\ stage'[q] = told /\ stage'[p] <= entered
  BY DEF Skew
<1>3. writes[p] = writes[q] + 1 /\ stage[q] = told /\ stage[p] <= entered
  BY <1>2 DEF Skew
<1>4. q # r
  BY <1>3
<1>5. CASE p = r
  <2>1. ~Reached(q, r, entered)
    BY <1>2, <1>5 DEF Reached, TypeOK
  <2> QED BY <1>1, <1>3, <1>4, <1>5, <2>1 DEF AllReached
<1>6. CASE p # r
  BY <1>1, <1>3, <1>4, <1>6
<1> QED BY <1>5, <1>6

\* Leaving a write: the others are at its end, or in the next one already.
LEMMA LeaveKeepsOrder ==
    ASSUME TypeOK, OrderInv, NEW r \in Ranks, Leave(r)
    PROVE  OrderInv'
<1>1. /\ stage[r] = told /\ AllReached(r, told)
      /\ \A q \in Ranks : writes'[q] = IF q = r THEN writes[r] + 1 ELSE writes[q]
      /\ \A q \in Ranks : stage'[q] = IF q = r THEN outside ELSE stage[q]
  BY DEF Leave, advance, TypeOK
<1>2. \A q \in Ranks : writes[q] \in Nat /\ stage[q] \in 0 .. 5
  BY DEF TypeOK
<1>3. \A q \in Ranks \ {r} : \/ writes[q] = writes[r] /\ stage[q] = told
                             \/ writes[q] = writes[r] + 1 /\ stage[q] <= entered
  <2> SUFFICES ASSUME NEW q \in Ranks \ {r}
               PROVE  \/ writes[q] = writes[r] /\ stage[q] = told
                      \/ writes[q] = writes[r] + 1 /\ stage[q] <= entered
    OBVIOUS
  <2>1. writes[q] > writes[r] \/ (writes[q] = writes[r] /\ stage[q] >= told)
    BY <1>1 DEF AllReached, Reached
  <2> QED BY <2>1, <1>2 DEF OrderInv, Skew
<1>4. Skew'
  <2> SUFFICES ASSUME NEW p \in Ranks, NEW q \in Ranks, writes'[p] > writes'[q]
               PROVE  writes'[p] = writes'[q] + 1 /\ stage'[q] = told /\ stage'[p] <= entered
    BY DEF Skew
  <2>1. CASE p = r
    BY <1>1, <1>2, <1>3, <2>1
  <2>2. CASE p # r /\ q = r
    BY <1>1, <1>2, <1>3, <2>2
  <2>3. CASE p # r /\ q # r
    BY <1>1, <2>3 DEF OrderInv, Skew
  <2> QED BY <2>1, <2>2, <2>3
<1>5. \A q \in Ranks \ {r} : stage[q] >= opened => writes[q] = writes[r]
  BY <1>2, <1>3
<1>6. \A p, q \in Ranks, t \in 0 .. 5 :
         q # r /\ stage[q] >= opened /\ Reached(p, q, t) => Reached(p, q, t)'
  <2> SUFFICES ASSUME NEW p \in Ranks, NEW q \in Ranks, NEW t \in 0 .. 5,
                      q # r, stage[q] >= opened, Reached(p, q, t)
               PROVE  Reached(p, q, t)'
    OBVIOUS
  <2>1. CASE p = r
    BY <1>1, <1>2, <1>5, <2>1 DEF Reached
  <2>2. CASE p # r
    BY <1>1, <2>2 DEF Reached
  <2> QED BY <2>1, <2>2
<1>7. Barriers'
  <2> SUFFICES ASSUME NEW q \in Ranks
               PROVE  /\ stage'[q] >= opened  => AllReached(q, entered)'
                      /\ stage'[q] >= written => AllReached(q, opened)'
                      /\ stage'[q] >= closed  => AllReached(q, written)'
                      /\ stage'[q] >= told    => Reached(Zero, q, told)'
    BY DEF Barriers
  <2>1. CASE q = r
    BY <1>1, <2>1
  <2>2. CASE q # r
    <3>1. /\ stage[q] >= opened  => AllReached(q, entered)
          /\ stage[q] >= written => AllReached(q, opened)
          /\ stage[q] >= closed  => AllReached(q, written)
          /\ stage[q] >= told    => Reached(Zero, q, told)
      BY DEF OrderInv, Barriers
    <3>2. stage'[q] = stage[q] /\ stage[q] \in 0 .. 5
      BY <1>1, <1>2, <2>2
    <3> QED BY <1>6, <2>2, <3>1, <3>2 DEF AllReached
  <2> QED BY <2>1, <2>2
<1> QED BY <1>4, <1>7 DEF OrderInv

LEMMA NextOrder == TypeInv /\ OrderInv /\ [Next]_vars => OrderInv'
<1> SUFFICES ASSUME TypeInv, OrderInv, [Next]_vars PROVE OrderInv'
  OBVIOUS
<1>0. TypeOK
  BY DEF TypeInv
<1>1. CASE Halts
  BY <1>1 DEF Halts, OrderInv, Barriers, Skew, AllReached, Reached
<1>2. CASE Resubmit
  BY <1>0, <1>2 DEF Resubmit, OrderInv, Barriers, Skew, TypeOK, Contents
<1>3. ASSUME NEW r \in Ranks,
             Enter(r) \/ Open(r) \/ Write(r) \/ Close(r) \/ Rename(r) \/ Learn(r)
      PROVE  OrderInv'
  <2>1. PICK s \in entered .. told :
          /\ s = stage[r] + 1 /\ advance(r, s) /\ UNCHANGED writes
          /\ s = opened  => AllReached(r, entered)
          /\ s = written => AllReached(r, opened)
          /\ s = closed  => AllReached(r, written)
          /\ s = told    => r = Zero \/ Reached(Zero, r, told)
    <3>1. CASE Enter(r)
      BY <3>1 DEF Enter
    <3>2. CASE Open(r)
      BY <3>2 DEF Open
    <3>3. CASE Write(r)
      BY <3>3 DEF Write
    <3>4. CASE Close(r)
      BY <3>4 DEF Close
    <3>5. CASE Rename(r)
      BY <3>5 DEF Rename
    <3>6. CASE Learn(r)
      BY <3>6 DEF Learn
    <3> QED BY <1>3, <3>1, <3>2, <3>3, <3>4, <3>5, <3>6
  <2>2. Barriers'
    BY <1>0, <2>1, AdvanceKeepsBarriers DEF OrderInv
  <2>3. s >= opened => AllReached(r, entered)
    BY <1>0, <2>1 DEF OrderInv, Barriers, TypeOK
  <2>4. Skew'
    BY <1>0, <2>1, <2>3, AdvanceKeepsSkew DEF OrderInv
  <2> QED BY <2>2, <2>4 DEF OrderInv
<1>4. ASSUME NEW r \in Ranks, Leave(r) PROVE OrderInv'
  BY <1>0, <1>4, LeaveKeepsOrder
<1> QED BY <1>1, <1>2, <1>3, <1>4, StepKinds

-----------------------------------------------------------------------------
(* The files.                                                               *)

\* While a rank has the temporary file in use all ranks are in the same write, past
\* the removal of the file, and past its creation once something is written to it.
LEMMA TmpUsersTogether ==
    ASSUME TypeOK, OrderInv, NEW q \in Ranks, UsesTmp(q)
    PROVE  \A r \in Ranks : /\ writes[r] = writes[q] /\ stage[r] >= entered
                            /\ stage[q] # opened => stage[r] >= opened
<1>1. SUFFICES ASSUME NEW r \in Ranks
      PROVE  /\ writes[r] = writes[q] /\ stage[r] >= entered
             /\ stage[q] # opened => stage[r] >= opened
  OBVIOUS
<1>2. /\ stage[q] \in {opened, written, closed}
      /\ writes[q] \in Nat /\ writes[r] \in Nat /\ stage[r] \in 0 .. 5
  BY DEF TypeOK, UsesTmp
<1>3. Reached(r, q, entered) /\ (stage[q] # opened => Reached(r, q, opened))
  BY <1>2 DEF OrderInv, Barriers, AllReached
<1>4. ~(writes[r] > writes[q])
  BY <1>2 DEF OrderInv, Skew
<1> QED BY <1>2, <1>3, <1>4 DEF Reached

\* A rank at the first barrier finds the file that others have opened in use.
LEMMA OpenFindsTmpInUse ==
    ASSUME TypeOK, OrderInv, NEW r \in Ranks, NEW p \in Ranks,
           stage[r] = entered, Reached(p, r, opened)
    PROVE  UsesTmp(p) /\ writes[p] = writes[r]
<1>1. \A q \in Ranks : writes[q] \in Nat /\ stage[q] \in 0 .. 5
  BY DEF TypeOK
<1>2. ASSUME NEW q \in Ranks, writes[q] > writes[r] PROVE FALSE
  <2>1. stage[r] = told
    BY <1>2 DEF OrderInv, Skew
  <2> QED BY <2>1
<1>3. writes[p] = writes[r] /\ stage[p] >= opened
  BY <1>1, <1>2 DEF Reached
<1>4. ASSUME NEW q \in Ranks, writes[q] = writes[r], stage[q] >= closed PROVE FALSE
  <2>1. Reached(r, q, written)
    BY <1>4 DEF OrderInv, Barriers, AllReached
  <2> QED BY <1>1, <1>4, <2>1 DEF Reached
<1>5. stage[p] \in {opened, written}
  BY <1>1, <1>3, <1>4
<1>6. ~Reached(Zero, p, told)
  BY <1>1, <1>2, <1>3, <1>4 DEF Reached
<1> QED BY <1>3, <1>5, <1>6 DEF UsesTmp

\* When rank 0 renames, every rank is in the same write and has written its part.
LEMMA RenameFindsAll ==
    ASSUME TypeOK, OrderInv, TmpInUse, Rename(Zero)
    PROVE  /\ \A r \in Ranks : writes[r] = writes[Zero] /\ r \in tmp.parts
           /\ tmp.version = writes[Zero] + 1
<1>1. stage[Zero] = closed
  BY DEF Rename
<1>2. UsesTmp(Zero)
  BY <1>1 DEF UsesTmp, Reached, TypeOK
<1>3. ASSUME NEW r \in Ranks PROVE writes[r] = writes[Zero] /\ r \in tmp.parts
  <2>1. writes[r] = writes[Zero] /\ stage[r] \in 0 .. 5
    BY <1>2, TmpUsersTogether DEF TypeOK
  <2>2. Reached(r, Zero, written)
    BY <1>1 DEF OrderInv, Barriers, AllReached
  <2>3. stage[r] >= written
    BY <2>1, <2>2 DEF Reached, TypeOK
  <2>4. ~Reached(Zero, r, told)
    BY <1>1, <2>1 DEF Reached, TypeOK
  <2>5. stage[r] # told
    BY <2>4 DEF OrderInv, Barriers
  <2>6. UsesTmp(r) /\ stage[r] # opened
    BY <2>1, <2>3, <2>4, <2>5 DEF UsesTmp
  <2> QED BY <2>1, <2>6 DEF TmpInUse
<1> QED BY <1>2, <1>3 DEF TmpInUse

\* A rank takes up the temporary file only by opening it.
LEMMA NewTmpUser ==
    ASSUME TypeOK, NEW r \in Ranks, NEW s \in entered .. told, s = stage[r] + 1,
           advance(r, s), UNCHANGED writes,
           NEW q \in Ranks, UsesTmp(q)'
    PROVE  /\ stage'[q] = IF q = r THEN s ELSE stage[q]
           /\ q # r \/ s # opened => UsesTmp(q)
<1>1. stage'[q] = IF q = r THEN s ELSE stage[q]
  BY DEF advance, TypeOK
<1>2. ~Reached(Zero, q, told)
  <2>1. ~Reached(Zero, q, told)'
    BY DEF UsesTmp
  <2> QED BY <2>1, AdvanceKeepsReached DEF TypeOK
<1> QED BY <1>1, <1>2 DEF UsesTmp, TypeOK

LEMMA NextFile == TypeInv /\ OrderInv /\ FileInv /\ [Next]_vars => FileInv'
<1> SUFFICES ASSUME TypeInv, OrderInv, FileInv, [Next]_vars PROVE FileInv'
  OBVIOUS
<1>0. /\ TypeOK /\ TmpInUse /\ FileIsLatest /\ PublishedComplete
      /\ \A q \in Ranks : writes[q] \in Nat /\ stage[q] \in 0 .. 5
  BY DEF TypeInv, TypeOK, FileInv
<1>1. CASE Halts
  BY <1>0, <1>1 DEF Halts, disk, FileInv, TmpInUse, UsesTmp, Reached, FileIsLatest,
                    PublishedComplete
<1>2. CASE Resubmit
  BY <1>0, <1>2 DEF Resubmit, disk, FileInv, TmpInUse, UsesTmp, FileIsLatest,
                    PublishedComplete
<1>3. ASSUME NEW r \in Ranks, Enter(r) PROVE FileInv'
  <2>1. /\ stage[r] = outside /\ advance(r, entered) /\ UNCHANGED <<writes, file>>
        /\ tmp' = IF r = Zero THEN NoFile ELSE tmp
    BY <1>3 DEF Enter
  <2>2. TmpInUse'
    <3> SUFFICES ASSUME NEW q \in Ranks, UsesTmp(q)'
                 PROVE  tmp'.version = writes'[q] + 1 /\ (stage'[q] # opened => q \in tmp'.parts)
      BY DEF TmpInUse
    <3>1. UsesTmp(q) /\ stage'[q] = IF q = r THEN entered ELSE stage[q]
      BY <1>0, <2>1, NewTmpUser
    <3>2. r # Zero
      BY <1>0, <2>1, <3>1, TmpUsersTogether
    <3> QED BY <1>0, <2>1, <3>1, <3>2 DEF TmpInUse, UsesTmp
  <2> QED BY <1>0, <2>1, <2>2 DEF FileInv, FileIsLatest, PublishedComplete, advance, TypeOK
<1>4. ASSUME NEW r \in Ranks, Open(r) PROVE FileInv'
  <2>1. /\ stage[r] = entered /\ advance(r, opened) /\ UNCHANGED <<writes, file>>
        /\ tmp' = IF \E q \in Ranks : Reached(q, r, opened) THEN tmp
                  ELSE [version |-> writes[r] + 1, parts |-> {}]
    BY <1>4 DEF Open
  <2>2. TmpInUse'
    <3> SUFFICES ASSUME NEW q \in Ranks, UsesTmp(q)'
                 PROVE  tmp'.version = writes'[q] + 1 /\ (stage'[q] # opened => q \in tmp'.parts)
      BY DEF TmpInUse
    <3>1. /\ stage'[q] = IF q = r THEN opened ELSE stage[q]
          /\ q # r => UsesTmp(q)
      BY <1>0, <2>1, NewTmpUser
    <3>2. CASE q # r
      <4>1. writes[r] = writes[q] /\ stage[q] \in {opened, written, closed}
        BY <1>0, <3>1, <3>2, TmpUsersTogether DEF UsesTmp
      <4>2. Reached(q, r, opened)
        BY <4>1 DEF Reached
      <4> QED BY <1>0, <2>1, <3>1, <3>2, <4>2 DEF TmpInUse
    <3>3. CASE q = r /\ \E p \in Ranks : Reached(p, r, opened)
      <4>1. PICK p \in Ranks : UsesTmp(p) /\ writes[p] = writes[r]
        BY <1>0, <2>1, <3>3, OpenFindsTmpInUse
      <4> QED BY <1>0, <2>1, <3>1, <3>3, <4>1 DEF TmpInUse
    <3>4. CASE q = r /\ ~\E p \in Ranks : Reached(p, r, opened)
      BY <2>1, <3>1, <3>4
    <3> QED BY <3>2, <3>3, <3>4
  <2> QED BY <1>0, <2>1, <2>2 DEF FileInv, FileIsLatest, PublishedComplete, advance, TypeOK
<1>5. ASSUME NEW r \in Ranks, Write(r) PROVE FileInv'
  <2>1. /\ stage[r] = opened /\ advance(r, written) /\ UNCHANGED <<writes, file>>
        /\ tmp' = [tmp EXCEPT !.parts = @ \cup {r}]
    BY <1>5 DEF Write
  <2>2. tmp'.version = tmp.version /\ tmp'.parts = tmp.parts \cup {r}
    BY <1>0, <2>1 DEF TypeOK, Contents
  <2>3. TmpInUse'
    <3> SUFFICES ASSUME NEW q \in Ranks, UsesTmp(q)'
                 PROVE  tmp'.version = writes'[q] + 1 /\ (stage'[q] # opened => q \in tmp'.parts)
      BY DEF TmpInUse
    <3>1. UsesTmp(q) /\ stage'[q] = IF q = r THEN written ELSE stage[q]
      BY <1>0, <2>1, NewTmpUser
    <3> QED BY <1>0, <2>1, <2>2, <3>1 DEF TmpInUse
  <2> QED BY <1>0, <2>1, <2>3 DEF FileInv, FileIsLatest, PublishedComplete, advance, TypeOK
<1>6. ASSUME NEW r \in Ranks, Close(r) PROVE FileInv'
  <2>1. /\ stage[r] = written /\ advance(r, closed) /\ UNCHANGED <<writes, tmp, file>>
    BY <1>6 DEF Close, disk
  <2>2. TmpInUse'
    <3> SUFFICES ASSUME NEW q \in Ranks, UsesTmp(q)'
                 PROVE  tmp.version = writes[q] + 1 /\ (stage'[q] # opened => q \in tmp.parts)
      BY <2>1 DEF TmpInUse
    <3>1. UsesTmp(q) /\ stage'[q] = IF q = r THEN closed ELSE stage[q]
      BY <1>0, <2>1, NewTmpUser
    <3> QED BY <1>0, <2>1, <3>1 DEF TmpInUse
  <2> QED BY <1>0, <2>1, <2>2 DEF FileInv, FileIsLatest, PublishedComplete, advance, TypeOK
<1>7. ASSUME NEW r \in Ranks, Learn(r) PROVE FileInv'
  <2>1. /\ r # Zero /\ stage[r] = closed /\ advance(r, told) /\ UNCHANGED <<writes, tmp, file>>
    BY <1>7 DEF Learn, disk
  <2>2. TmpInUse'
    <3> SUFFICES ASSUME NEW q \in Ranks, UsesTmp(q)'
                 PROVE  tmp.version = writes[q] + 1 /\ (stage'[q] # opened => q \in tmp.parts)
      BY <2>1 DEF TmpInUse
    <3>1. UsesTmp(q) /\ stage'[q] = IF q = r THEN told ELSE stage[q]
      BY <1>0, <2>1, NewTmpUser
    <3>2. q # r
      BY <3>1 DEF UsesTmp
    <3> QED BY <1>0, <2>1, <3>1, <3>2 DEF TmpInUse
  <2> QED BY <1>0, <2>1, <2>2 DEF FileInv, FileIsLatest, PublishedComplete, advance, TypeOK
<1>8. ASSUME NEW r \in Ranks, Rename(r) PROVE FileInv'
  <2>1. /\ r = Zero /\ stage[Zero] = closed /\ advance(Zero, told) /\ UNCHANGED writes
        /\ file' = tmp
    BY <1>8 DEF Rename
  <2>2. /\ \A q \in Ranks : writes[q] = writes[Zero] /\ q \in tmp.parts
        /\ tmp.version = writes[Zero] + 1
    BY <1>0, <1>8, <2>1, RenameFindsAll
  <2>3. stage'[Zero] = told
    BY <1>0, <2>1 DEF advance, TypeOK
  <2>4. TmpInUse'
    BY <1>0, <2>1, <2>2, <2>3 DEF TmpInUse, UsesTmp, Reached
  <2>5. tmp.parts = Ranks
    BY <1>0, <2>2 DEF TypeOK, Contents
  <2> QED BY <2>1, <2>2, <2>3, <2>4, <2>5 DEF FileInv, FileIsLatest, PublishedComplete
<1>9. ASSUME NEW r \in Ranks, Leave(r) PROVE FileInv'
  <2>1. /\ stage[r] = told /\ AllReached(r, told) /\ UNCHANGED <<tmp, file>>
        /\ \A q \in Ranks : writes'[q] = IF q = r THEN writes[r] + 1 ELSE writes[q]
        /\ \A q \in Ranks : stage'[q] = IF q = r THEN outside ELSE stage[q]
    BY <1>0, <1>9 DEF Leave, advance, disk, TypeOK
  <2>2. TmpInUse'
    <3> SUFFICES ASSUME NEW q \in Ranks, UsesTmp(q)'
                 PROVE  tmp.version = writes'[q] + 1 /\ (stage'[q] # opened => q \in tmp.parts)
      BY <2>1 DEF TmpInUse
    <3>1. q # r /\ stage'[q] = stage[q] /\ writes'[q] = writes[q]
          /\ stage[q] \in {opened, written, closed}
      BY <2>1 DEF UsesTmp
    <3>2. Reached(q, r, told)
      BY <2>1 DEF AllReached
    <3>3. writes[q] > writes[r]
      BY <1>0, <3>1, <3>2 DEF Reached
    <3> QED BY <3>1, <3>3, <1>0 DEF OrderInv, Skew
  <2> QED BY <1>0, <2>1, <2>2 DEF FileInv, FileIsLatest, PublishedComplete
<1> QED BY <1>1, <1>2, <1>3, <1>4, <1>5, <1>6, <1>7, <1>8, <1>9, StepKinds

-----------------------------------------------------------------------------
(* The results.                                                             *)

CheckpointInv == TypeInv /\ OrderInv /\ FileInv

LEMMA Invariance == Spec => []CheckpointInv
<1>1. Init => CheckpointInv
  BY DEF Init, NoFile, CheckpointInv, TypeInv, TypeOK, Busy, Contents, OrderInv, Barriers,
         Skew, FileInv, TmpInUse, UsesTmp, FileIsLatest, PublishedComplete
<1>2. CheckpointInv /\ [Next]_vars => CheckpointInv'
  BY NextType, NextOrder, NextFile DEF CheckpointInv
<1> QED BY <1>1, <1>2, PTL DEF Spec

\* Every variable of CheckpointFile::write has its type: counts stay in bounds.
THEOREM CheckpointTypeCorrect == Spec => []TypeOK
<1>1. CheckpointInv => TypeOK
  BY DEF CheckpointInv, TypeInv
<1> QED BY <1>1, Invariance, PTL

\* Whichever calls fail and wherever the job is killed, the published checkpoint has
\* the data of every rank.
THEOREM CheckpointComplete == Spec => []PublishedComplete
<1>1. CheckpointInv => PublishedComplete
  BY DEF CheckpointInv, FileInv
<1> QED BY <1>1, Invariance, PTL

\* No rank writes into the temporary file of another checkpoint.
THEOREM CheckpointUnmixed == Spec => []WritesOwnFile
<1>1. CheckpointInv => WritesOwnFile
  <2> SUFFICES ASSUME CheckpointInv, NEW r \in Ranks, stage[r] = opened
               PROVE  tmp.version = writes[r] + 1
    BY DEF WritesOwnFile
  <2>1. \A q \in Ranks : writes[q] \in Nat /\ stage[q] \in 0 .. 5
    BY DEF CheckpointInv, TypeInv, TypeOK
  <2>2. ~(writes[Zero] > writes[r])
    BY DEF CheckpointInv, OrderInv, Skew
  <2>3. ASSUME writes[Zero] = writes[r], stage[Zero] >= told PROVE FALSE
    <3>1. Reached(r, Zero, written)
      BY <2>1, <2>3 DEF CheckpointInv, OrderInv, Barriers, AllReached
    <3> QED BY <2>1, <2>3, <3>1 DEF Reached
  <2>4. UsesTmp(r)
    BY <2>2, <2>3 DEF UsesTmp, Reached
  <2> QED BY <2>4 DEF CheckpointInv, FileInv, TmpInUse
<1> QED BY <1>1, Invariance, PTL

\* The ranks together implement an atomically replaced store of checkpoints.
THEOREM CheckpointAtomic == Spec => ReplacesAtomically
<1>1. Init => Store!Init
  BY DEF Init, NoFile, Store!Init
<1>2. CheckpointInv /\ [Next]_vars => [Store!Next]_Store!vars
  <2> SUFFICES ASSUME CheckpointInv, [Next]_vars PROVE [Store!Next]_Store!vars
    OBVIOUS
  <2>0. /\ TypeOK /\ OrderInv /\ TmpInUse /\ FileIsLatest
        /\ \A q \in Ranks : writes[q] \in Nat /\ stage[q] \in 0 .. 5
    BY DEF CheckpointInv, TypeInv, TypeOK, FileInv
  <2>1. CASE UNCHANGED <<writes, file>>
    BY <2>1 DEF Store!vars
  <2>2. CASE Resubmit
    BY <2>2 DEF Resubmit, disk, Store!Resume, Store!Next
  <2>3. ASSUME NEW r \in Ranks, Rename(r) PROVE Store!Replace
    <3>1. /\ r = Zero /\ stage[Zero] = closed /\ UNCHANGED writes /\ file' = tmp
      BY <2>3 DEF Rename
    <3>2. /\ \A q \in Ranks : writes[q] = writes[Zero]
          /\ tmp.version = writes[Zero] + 1
      BY <2>0, <2>3, <3>1, RenameFindsAll
    <3>3. file.version = writes[Zero]
      BY <2>0, <3>1 DEF FileIsLatest
    <3> QED BY <3>1, <3>2, <3>3 DEF Store!Replace
  <2>4. ASSUME NEW r \in Ranks, Leave(r) PROVE Store!Return(r)
    <3>1. /\ stage[r] = told /\ UNCHANGED file
          /\ writes' = [writes EXCEPT ![r] = @ + 1]
      BY <2>4 DEF Leave, disk
    <3>2. Reached(Zero, r, told)
      BY <2>0, <3>1 DEF OrderInv, Barriers
    <3>3. writes[r] < file.version
      BY <2>0, <3>2 DEF FileIsLatest, Reached
    <3> QED BY <3>1, <3>3 DEF Store!Return
  <2>5. ASSUME NEW r \in Ranks, Enter(r) \/ Open(r) \/ Write(r) \/ Close(r) \/ Learn(r)
        PROVE  UNCHANGED <<writes, file>>
    BY <2>5 DEF Enter, Open, Write, Close, Learn, disk
  <2>6. Halts => UNCHANGED <<writes, file>>
    BY DEF Halts, disk
  <2> QED BY <2>1, <2>2, <2>3, <2>4, <2>5, <2>6, StepKinds DEF Store!Next
<1>3. QED
  BY <1>1, <1>2, Invariance, PTL DEF Spec, ReplacesAtomically, Store!Spec
=============================================================================
