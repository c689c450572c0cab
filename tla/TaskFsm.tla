------------------------------ MODULE TaskFsm ------------------------------
(***************************************************************************)
(* What internal/core/fsm.go promises of every task row: the statuses it   *)
(* may go through, according to its kind.  One step may move several rows, *)
(* as a transaction that completes a task and wakes its parent does.       *)
(***************************************************************************)
CONSTANTS
    Tasks,
    Kind,       \* task -> "conversation", "work" or "integration"
    Beyond      \* <<kind, from, to>> allowed in addition to the table

VARIABLE status

\* The table of fsm.go.
taskTransitions ==
    [queued    |-> {"running", "failed", "cancelled"},
     running   |-> {"finishing", "queued", "failed", "cancelled"},
     finishing |-> {"waiting", "queued", "submitted", "failed"},
     waiting   |-> {"queued", "failed", "cancelled"},
     submitted |-> {"queued", "completed", "cancelled"},
     failed    |-> {"queued", "cancelled"},
     completed |-> {},
     cancelled |-> {}]

\* ValidateTaskTransition
ValidTransition(kind, from, to) ==
    IF kind = "conversation"
    THEN \/ to \in taskTransitions[from] /\ "submitted" \notin {from, to}
         \/ from = "waiting" /\ to = "completed"
    ELSE to \in taskTransitions[from]

\* One row in one transaction: left alone, inserted, moved or deleted.
RowStep(t, from, to) ==
    \/ to = from
    \/ from = "none" /\ to \in {"queued", "waiting"}
    \/ from \in DOMAIN taskTransitions /\ ValidTransition(Kind[t], from, to)
    \/ <<Kind[t], from, to>> \in Beyond
    \/ to = "deleted" /\ from \in {"completed", "cancelled"}

Init == status = [t \in Tasks |-> "none"]

Next ==
    /\ DOMAIN status' = Tasks
    /\ \A t \in Tasks : RowStep(t, status[t], status'[t])

Spec == Init /\ [][Next]_status

=============================================================================
