---------------------------- MODULE MCSolveQueue ----------------------------
(***************************************************************************)
(* Instances of the solve queue for TLC.  The dispatcher threads are       *)
(* interchangeable, so the safety runs use their symmetry.                 *)
(***************************************************************************)
EXTENDS SolveQueueProps, TLC

WorkerSymmetry == Permutations(Workers)
=============================================================================
