---------------------------- MODULE MCRunLaunch ----------------------------
(***************************************************************************)
(* RunLaunch for TLC: two runs of one agent that follow each other, or one *)
(* run that meets more faults.  The runs are interchangeable.              *)
(***************************************************************************)
EXTENDS RunLaunch, TLC

Symmetry == Permutations(Runs)
=============================================================================
