\* Two processes, two sends of one or two units under a cap of two, with
\* crashes, lost leases, failing ticks and failing settlements.
CONSTANTS
  Instance = {i1, i2}
  Key = {k1, k2}
  NoOne = NoOne
  Cap = 2
  Amounts = {1, 2}
  MaxRestarts = 2
  Faults = {"crash", "context", "lock"}
SPECIFICATION FairSpec
INVARIANTS
  TypeOK
  WithinCap
  
PROPERTIES
  
  DriverKeepsItsHolds
  
  DeadLeaseTakenOver
