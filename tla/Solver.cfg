\* A foreground solve, a power flow, a queued job, a study and a save, each
\* once; aborts and resets at any point.
CONSTANTS
  Runs = {r1}
  Flows = {p1}
  Jobs = {j1}
  Studies = {s1}
  Savers = {}
  None = None
SPECIFICATION FairSpec
INVARIANTS
  TypeOK
  StudyMesh
  SaveNotUnderStudy
  SavedEditsUnwind
PROPERTIES
  NetworkComesBack
  GateReopens
