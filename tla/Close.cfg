\* Two resident contexts; closes, vetoes and the deadline at any point, with
\* requests, foreground solves and queued jobs around them.
CONSTANT
  Ctx = {c1, c2}
SPECIFICATION FairSpec
INVARIANTS
  TypeOK
  VetoRestoresTheApp
  ClosedUnansweredOnlyLate
  
PROPERTY
  HiddenWindowGoes
CHECK_DEADLOCK FALSE
