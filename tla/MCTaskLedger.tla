--------------------------- MODULE MCTaskLedger ---------------------------
(***************************************************************************)
(* Small instances of TaskLedger for TLC.  Each configuration names the    *)
(* task identifiers it uses; what kind of task an identifier stands for is *)
(* fixed here.                                                             *)
(***************************************************************************)
EXTENDS TaskFsmRefinement, TLC

CONSTANTS conv, work, child, human, integ,   \* task identifiers
          a1, a2                             \* agents

MCKind == [t \in Tasks |-> CASE t = conv -> "conversation"
                             [] t = integ -> "integration"
                             [] OTHER -> "work"]

MCAssignee == [t \in Tasks |-> CASE t = human -> None
                                 [] t \in {child, integ} /\ a2 \in Agents -> a2
                                 [] OTHER -> a1]

\* A child belongs to the task, or to the conversation where there is no task.
MCParent == [t \in Tasks |-> IF t \notin {child, human} THEN None
                            ELSE IF work \in Tasks THEN work
                            ELSE conv]

Symmetry == Permutations(Runs) \cup Permutations(Msgs)
=============================================================================
