\* Two jobs over a lowered cap, with pauses, resumes, aborts and bulk
\* cancels, under the fairness of the threads.
CONSTANTS
  Projects = {p1, p2}
  Kinds = {"solve"}
  Workers = {w1, w2}
  MaxConcurrent = 1
  Outcomes = {"completed"}
  Ops = {"abort", "bulk", "pause"}
  MaxJobs = 2
  MaxRestarts = 0
  MaxFaults = 0
SPECIFICATION FairSpec
INVARIANTS
  TypeOK
  WithinCap
  BulkCancelSparesRunning
PROPERTIES
  EveryJobEnds
CHECK_DEADLOCK FALSE
