--------------------------- MODULE SendLedgerProps ---------------------------
(***************************************************************************)
(* What the send ledger and the run's lease must do.                       *)
(***************************************************************************)
EXTENDS SendLedger

\* Every bill is counted: through retries, broken streams, crashes, late
\* answers and reconciliations, a send the provider billed has a row, open or
\* settled, of at least the bill (send_reservation: "it never settles at zero").
EveryBillCounts == \A k \in Key : wire[k].bill <= task.hold[k].amount

\* Settled charges and open holds together stay within the run's cap, however
\* admissions, retries and settlements of several processes interleave.
WithinCap == Spent <= Cap

\* The hold of a send whose answer may still come stays counted, so what the
\* providers bill in all is at most what the ledger counts, and the ledger at
\* most the cap: the detailed ledger implements the abstract one.
Abstract == INSTANCE SpendCap WITH committed <- Spent, billed <- Billed

ImplementsSpendCap == Abstract!Spec

\* A settled row is final: a late settle, a turn end or a second
\* reconciliation after it changes nothing and reopens nothing.
ChargeIsFinal ==
  [][\A k \in Key : task.hold[k].st = "charged" => task'.hold[k] = task.hold[k]]_vars

\* Whoever reconciles, sweeping at boot or taking over, leaves the sends of
\* the process that holds the run's live lease alone: only that process, by a
\* step of its own round, settles them (send_reservation.reconcile: "Skipped
\* while another instance holds the run's live lease").
DriverKeepsItsHolds ==
  [][\A i \in Instance : HeldLive(i) =>
       \A k \in HoldsOf(i) : task'.hold[k] # task.hold[k] => flight'[i] # flight[i]]_vars

\* A run never waits on a dead process: while it may be driven, a dead
\* owner's lease goes to a live process, or none is left.
DeadLeaseTakenOver ==
  \A i \in Instance :
    (task.owner = i /\ tick[i] = "dead" /\ Drivable)
      ~> (task.owner # i \/ ~Drivable \/ \A j \in Instance : ~Up(j))
=============================================================================
