---------------------------- MODULE MCSendLedger ----------------------------
(***************************************************************************)
(* Instances of the send ledger for TLC.                                   *)
(***************************************************************************)
EXTENDS SendLedgerProps, TLC
=============================================================================
