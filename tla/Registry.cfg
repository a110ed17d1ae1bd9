\* Two threads and two projects over a cap of one.
CONSTANTS
  Thread = {t1, t2}
  Key = {k1, k2}
  Session = {s1}
  NoKey = NoKey
  Cap = 1
  MaxBuilds = 2
  MaxEdits = 1
SPECIFICATION Spec
INVARIANTS
  TypeOK
  OneBuilder
  LockEntryInUse
PROPERTIES
  NeverForked
SYMMETRY Symmetry
