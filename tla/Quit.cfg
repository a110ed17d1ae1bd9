\* A desktop quit against two threads and a clear, then the next boot: the
\* detailed queue implements SolveOnce.
CONSTANTS
  Projects = {p1, p2}
  Kinds = {"solve"}
  Workers = {w1, w2}
  MaxConcurrent = 2
  Outcomes = {"completed"}
  Ops = {"clear", "quit"}
  MaxJobs = 2
  MaxRestarts = 1
  MaxFaults = 0
SPECIFICATION Spec
INVARIANTS
  OneActivePerProject
  QuitReachesEveryRun
PROPERTIES
  QuitKeepsTheBacklog
  ImplementsSolveOnce
SYMMETRY WorkerSymmetry
CHECK_DEADLOCK FALSE
