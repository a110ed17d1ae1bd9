------------------------------ MODULE SpendCap ------------------------------
(***************************************************************************)
(* What a harness run's send ledger promises, without processes, leases or *)
(* files: what the providers bill never exceeds what the ledger counts,    *)
(* and what it counts never exceeds the run's cap.                         *)
(***************************************************************************)
EXTENDS Naturals

CONSTANT Cap

VARIABLES committed, \* settled charges plus open holds
          billed     \* what the providers have billed

vars == <<committed, billed>>

Init == committed = 0 /\ billed = 0

\* A send is admitted: its bound is held before it goes out.
Hold ==
  /\ committed' \in committed .. Cap
  /\ UNCHANGED billed

\* The provider bills a send, within what is held.
Bill ==
  /\ billed' \in billed .. committed
  /\ UNCHANGED committed

\* A hold settles: the ledger may count less, never less than the bills.
Settle ==
  /\ committed' \in billed .. committed
  /\ UNCHANGED billed

Next == Hold \/ Bill \/ Settle

Spec == Init /\ [][Next]_vars
=============================================================================
