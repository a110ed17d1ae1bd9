\* An abort racing the INSERT of the job it cancels.
CONSTANTS
  Projects = {p1, p2}
  Kinds = {"solve"}
  Workers = {w1}
  MaxConcurrent = 1
  Outcomes = {"completed"}
  Ops = {"abort"}
  MaxJobs = 2
  MaxRestarts = 0
  MaxFaults = 0
SPECIFICATION Spec
INVARIANTS
  CancelReachesTheTable
CHECK_DEADLOCK FALSE
