----------------------------- MODULE MCShutdown -----------------------------
(***************************************************************************)
(* Instances of the close of the window for TLC.                           *)
(***************************************************************************)
EXTENDS ShutdownProps, TLC
=============================================================================
