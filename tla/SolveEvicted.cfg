\* As Registry: the eviction promise of the docs, which the code breaks.
CONSTANTS
  Thread = {t1, t2}
  Key = {k1, k2}
  Session = {s1}
  NoKey = NoKey
  Cap = 1
  MaxBuilds = 2
  MaxEdits = 1
SPECIFICATION Spec
INVARIANT
  EvictionSparesSolves
SYMMETRY Symmetry
