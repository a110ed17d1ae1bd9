----------------------------- MODULE MCContexts -----------------------------
(***************************************************************************)
(* Instances of the context registry for TLC.                              *)
(***************************************************************************)
EXTENDS ContextsProps, TLC

Symmetry == Permutations(Thread) \cup Permutations(Key)
=============================================================================
