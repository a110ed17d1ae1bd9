\* A save waits for the lock of a run that is turned back before its LP.
CONSTANTS
  Runs = {r1}
  Flows = {p1}
  Jobs = {j1}
  Studies = {s1}
  Savers = {u1}
  None = None
SPECIFICATION Spec
INVARIANT SavedClean
