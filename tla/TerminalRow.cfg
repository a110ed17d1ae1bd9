\* An abort's mirror racing the worker's terminal mirror.
CONSTANTS
  Projects = {p1, p2}
  Kinds = {"solve"}
  Workers = {w1}
  MaxConcurrent = 1
  Outcomes = {"completed"}
  Ops = {"abort"}
  MaxJobs = 2
  MaxRestarts = 0
  MaxFaults = 0
SPECIFICATION Spec
PROPERTIES
  TerminalRowStays
CHECK_DEADLOCK FALSE
