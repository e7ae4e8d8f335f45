--------------------------- MODULE CheckpointStore ---------------------------
(***************************************************************************)
(* What CheckpointFile::write promises the ranks of a job: the file under   *)
(* the published name is replaced as a whole by the next checkpoint, once   *)
(* every rank is done with the one before; a rank returns from a write only *)
(* when its checkpoint is in place; a resubmitted job starts from whatever  *)
(* is in place. CheckpointFile implements this specification.              *)
(***************************************************************************)
EXTENDS Naturals

CONSTANT Ranks

VARIABLES
    content,    \* number of the checkpoint in place, 0 for none
    returned    \* rank -> number of writes it has returned from

vars == <<content, returned>>

Init == content = 0 /\ returned = [r \in Ranks |-> 0]

Replace ==
    /\ \A r \in Ranks : returned[r] = content
    /\ content' = content + 1
    /\ UNCHANGED returned

Return(r) ==
    /\ returned[r] < content
    /\ returned' = [returned EXCEPT ![r] = @ + 1]
    /\ UNCHANGED content

Resume ==
    /\ returned' = [r \in Ranks |-> content]
    /\ UNCHANGED content

Next == Replace \/ Resume \/ \E r \in Ranks : Return(r)

Spec == Init /\ [][Next]_vars
=============================================================================
