---------------------------- MODULE MCGitResults ----------------------------
(***************************************************************************)
(* GitResults for TLC.  The ids of work tasks are interchangeable, and so  *)
(* are those of integration tasks.                                         *)
(***************************************************************************)
EXTENDS GitResults, TLC

Symmetry == Permutations(WorkTasks) \cup Permutations(Integrations)
=============================================================================
