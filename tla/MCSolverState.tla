---------------------------- MODULE MCSolverState ----------------------------
(***************************************************************************)
(* Instances of the solver state's protocol for TLC.                       *)
(***************************************************************************)
EXTENDS SolverStateProps, TLC
=============================================================================
