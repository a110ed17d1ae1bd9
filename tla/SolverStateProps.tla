--------------------------- MODULE SolverStateProps ---------------------------
(***************************************************************************)
(* What the claims, the locks and the restores must keep of a context.     *)
(***************************************************************************)
EXTENDS SolverState

\* The study mesh: while a study re-reads the network between its own solves
\* no worker that owns the solver state lives, and no second study runs.
StudyMesh == \A s \in Live : ~InFlight /\ Live = {s}

\* A save never exports while a study may have a contingency on the network.
SaveNotUnderStudy == \A p \in Savers \cup Jobs : pc[p] = "exporting" => ~StudyRuns

\* Whatever ends the solves, no slack or vintage row stays on the network.
NetworkComesBack == edits # {} ~> edits = {}

\* Whatever ends a solve, the context stops reading as in flight: no save,
\* activate or load of the project is refused until a restart.
GateReopens == InFlight ~> ~InFlight

\* The promise of the except handlers: a solve's transient rows are off the
\* network before any save can persist them.  The handlers run after the lock
\* is let go of, so a save that passed its gate before the run gets in first.
SavedClean == \A p \in Savers \cup Jobs : pc[p] = "exporting" => edits = {}

\* How far the code falls short of it: the only edits a save can export are
\* those of a solve turned back before its LP, on its way to the handler that
\* restores.  No study's contingency, no power flow's dispatch fix, no LP under
\* way and no solve whose verdict is out leaves anything a save could persist.
SavedEditsUnwind ==
  \A p \in Savers \cup Jobs : pc[p] = "exporting" =>
    \A e \in edits : e \in Solvers /\ pc[e] = "unwinding"
=============================================================================
