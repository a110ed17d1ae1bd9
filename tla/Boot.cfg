\* Two jobs and one thread across a restart at which forks may be swept and
\* the build may know fewer kinds; clears, one lost table operation.
CONSTANTS
  Projects = {p1, p2}
  Kinds = {"solve", "campus"}
  Workers = {w1}
  MaxConcurrent = 1
  Outcomes = {"completed", "failed"}
  Ops = {"clear", "forksweep", "downgrade"}
  MaxJobs = 2
  MaxRestarts = 1
  MaxFaults = 1
SPECIFICATION Spec
INVARIANTS
  RunsOnlyRunnable
  WaitingIsDurable
PROPERTIES
  BootRestoresTheQueue
CHECK_DEADLOCK FALSE
