\* Two jobs, two threads, aborts and requeues, one process death at any point,
\* one lost table operation.
CONSTANTS
  Projects = {p1, p2}
  Kinds = {"solve"}
  Workers = {w1, w2}
  MaxConcurrent = 2
  Outcomes = {"completed"}
  Ops = {"abort", "requeue"}
  MaxJobs = 2
  MaxRestarts = 1
  MaxFaults = 1
SPECIFICATION Spec
INVARIANTS
  ExclusiveSolve
  AckedCancelIsFinal
  TableAgrees
PROPERTIES
  NeverSolvedTwice
  OnlyAbortsReviveRows
SYMMETRY WorkerSymmetry
CHECK_DEADLOCK FALSE
