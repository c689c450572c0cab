------------------------ MODULE TaskFsmRefinement ------------------------
(***************************************************************************)
(* The ledger's transactions seen through the task statuses alone.         *)
(***************************************************************************)
EXTENDS TaskLedger

\* Two transactions move a task outside the table: CompleteTask confirms a
\* waiting task of a human, and projectAdvanceInvariantFailure fails a
\* submitted task whose acceptance broke an invariant of Git.
Exceptions ==
    {<<"work", "waiting", "completed">>,
     <<"work", "submitted", "failed">>,
     <<"integration", "submitted", "failed">>}

Statuses == [t \in Tasks |-> task[t].status]

Fsm == INSTANCE TaskFsm WITH status <- Statuses, Beyond <- Exceptions

\* Whatever transactions run against each other, no task leaves the paths of
\* ValidateTaskTransition except through those two; in particular a completed
\* or cancelled task is final, which a late run end, a late capture or a late
\* advance could undo.
FollowsTaskFsm == Fsm!Spec

=============================================================================
