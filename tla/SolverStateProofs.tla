-------------------------- MODULE SolverStateProofs --------------------------
(***************************************************************************)
(* The study mesh and the save gate, proved for any sets of requests.      *)
(*                                                                         *)
(* A claim asks for everything it could undo in the step that claims, under *)
(* the state lock.  A save's look under the mutation lock stays true until  *)
(* it lets go: Holding says at which steps that lock is held, and a study   *)
(* is published by its holder only.                                        *)
(***************************************************************************)
EXTENDS SolverStateProps, TLAPS

\* The steps at which a party has the mutation lock.
HoldingSteps == {"inside", "modelled", "exporting", "claiming", "trial"}

Holding == \A p \in Parties : pc[p] \in HoldingSteps => lock = p

\* The steps at which the network carries edits of a party.
EditedBy(e) ==
  \/ e \in Workers /\ pc[e] = "modelled"
  \/ e \in Solvers /\ pc[e] = "unwinding"
  \/ e \in Studies /\ pc[e] \in {"mutated", "trial", "tried"}

Edited == \A e \in edits : EditedBy(e)

Inv == TypeOK /\ Holding /\ StudyMesh /\ SaveNotUnderStudy /\ Edited

\* Who takes part: what a worker, a study and a save are not.
LEMMA Apart ==
  /\ \A w \in Workers : w \in Parties /\ w \notin Studies /\ w \notin Savers /\ w # None
  /\ \A s \in Studies : s \in Parties /\ s \notin Workers /\ s \notin Savers /\ s # None
  /\ \A u \in Savers : u \in Parties /\ u \notin Workers /\ u \notin Studies /\ u # None
  /\ \A j \in Jobs : j \in Workers /\ j \in Solvers /\ j \notin Foreground
  /\ \A r \in Runs : r \in Workers /\ r \in Solvers /\ r \in Foreground
  /\ \A f \in Flows : f \in Workers /\ f \in Foreground
  /\ \A w \in Foreground : w \in Workers /\ w \notin Jobs
  /\ \A w \in Solvers : w \in Workers
BY PartiesDiffer DEF Foreground, Solvers, Workers, Parties

-----------------------------------------------------------------------------
\* The initial state is in the invariant.
LEMMA InitInv == Init => Inv
<1> SUFFICES ASSUME Init PROVE Inv
  OBVIOUS
<1>1. TypeOK
  BY DEF Init, Idle, TypeOK, Steps
<1>2. Holding
  BY DEF Init, Holding, HoldingSteps
<1>3. Live = {}
  BY Apart DEF Init, Live
<1> QED
  BY <1>1, <1>2, <1>3 DEF Init, Inv, StudyMesh, SaveNotUnderStudy, StudyRuns, Edited

\* The types are kept by every step.
LEMMA StepTyped ==
  ASSUME TypeOK, [Next]_vars
  PROVE  TypeOK'
<1> USE Apart DEF TypeOK, Steps, Go, state
<1>1. CASE \E w \in Foreground : Claim(w)
  BY <1>1 DEF Claim, Own
<1>2. CASE \E j \in Jobs : JobClaim(j) \/ JobRefused(j) \/ StopJob(j)
  BY <1>2 DEF JobClaim, JobRefused, StopJob, Own, Tell
<1>3. ASSUME NEW w \in Workers, SolveStep(w) \/ EarlyExit(w) \/ Restore(w)
      PROVE  TypeOK'
  <2>1. CASE Enter(w) \/ Transform(w) \/ Restore(w)
    BY <2>1 DEF Enter, Transform, Restore
  <2>2. CASE Solve(w)
    BY <2>2 DEF Solve
  <2>3. CASE GoBack(w)
    BY <2>3 DEF GoBack
  <2>4. CASE Raise(w)
    BY <2>4 DEF Raise
  <2> QED BY <1>3, <2>1, <2>2, <2>3, <2>4 DEF SolveStep, EarlyExit
<1>4. ASSUME NEW w \in Workers, RunEnds(w) \/ FlowReport(w)
      PROVE  TypeOK'
  BY <1>4 DEF RunEnds, Answer, Dies, Report, FlowReport, Ends, Reported
<1>5. ASSUME NEW j \in Jobs, JobEnding(j)
      PROVE  TypeOK'
  <2>1. CASE Answer(j) \/ JobReport(j)
    BY <2>1 DEF Answer, JobReport, Ends, Reported
  <2>2. CASE JobRaises(j) \/ JobCatch(j) \/ JobFails(j) \/ JobEnds(j)
    BY <2>2 DEF JobRaises, JobCatch, JobFails, JobEnds, Ends
  <2> QED BY <1>5, <2>1, <2>2 DEF JobEnding
<1>6. ASSUME NEW p \in Savers \cup Jobs, SaveAsk(p) \/ SaveStep(p)
      PROVE  TypeOK'
  BY <1>6 DEF SaveAsk, SaveStep, SaveLock, Export, Turned
<1>7. ASSUME NEW s \in Studies,
             \/ StudyAsk(s) \/ StudyLock(s) \/ StudyTimesOut(s) \/ StudyPublish(s)
             \/ Mutate(s) \/ StudyStep(s)
      PROVE  TypeOK'
  BY <1>7 DEF StudyAsk, StudyLock, StudyTimesOut, StudyPublish, Mutate, StudyStep, Trial,
       TrialEnds, StudyEnds
<1>8. CASE AbortReads \/ AbortTells \/ AbortMarks \/ ResetTells \/ ResetDisowns
  BY <1>8 DEF AbortReads, AbortTells, AbortMarks, ResetTells, ResetDisowns, Idle, Tell
<1>9. CASE UNCHANGED vars
  BY <1>9 DEF vars
<1> QED BY <1>1, <1>2, <1>3, <1>4, <1>5, <1>6, <1>7, <1>8, <1>9 DEF Next

\* One party at a time has the mutation lock.
LEMMA StepHolding ==
  ASSUME TypeOK, Holding, [Next]_vars
  PROVE  Holding'
<1> USE Apart DEF TypeOK, Holding, HoldingSteps, Go
<1>0. lock = None => \A p \in Parties : pc[p] \notin HoldingSteps
  BY PartiesDiffer
<1>1. CASE \E w \in Foreground : Claim(w)
  BY <1>1 DEF Claim, Own
<1>2. CASE \E j \in Jobs : JobClaim(j) \/ JobRefused(j) \/ StopJob(j)
  BY <1>2 DEF JobClaim, JobRefused, StopJob, Own
<1>3. ASSUME NEW w \in Workers, SolveStep(w) \/ EarlyExit(w) \/ Restore(w)
      PROVE  Holding'
  <2>1. CASE Enter(w)
    BY <1>0, <2>1 DEF Enter
  <2>2. CASE Transform(w)
    BY <2>2 DEF Transform
  <2>3. CASE Solve(w)
    BY <2>3 DEF Solve
  <2>4. CASE GoBack(w)
    BY <2>4 DEF GoBack
  <2>5. CASE Raise(w)
    BY <2>5 DEF Raise
  <2>6. CASE Restore(w)
    BY <2>6 DEF Restore
  <2> QED BY <1>3, <2>1, <2>2, <2>3, <2>4, <2>5, <2>6 DEF SolveStep, EarlyExit
<1>4. ASSUME NEW w \in Workers, RunEnds(w) \/ FlowReport(w)
      PROVE  Holding'
  BY <1>4 DEF RunEnds, Answer, Dies, Report, FlowReport, Ends
<1>5. ASSUME NEW j \in Jobs, JobEnding(j)
      PROVE  Holding'
  BY <1>5 DEF JobEnding, Answer, JobReport, JobRaises, JobCatch, JobFails, JobEnds, Ends
<1>6. ASSUME NEW p \in Savers \cup Jobs, SaveAsk(p) \/ SaveStep(p)
      PROVE  Holding'
  <2>1. CASE SaveAsk(p)
    BY <2>1 DEF SaveAsk
  <2>2. CASE SaveLock(p)
    BY <1>0, <2>2 DEF SaveLock, Turned
  <2>3. CASE Export(p)
    BY <2>3 DEF Export
  <2> QED BY <1>6, <2>1, <2>2, <2>3 DEF SaveStep
<1>7. ASSUME NEW s \in Studies,
             \/ StudyAsk(s) \/ StudyLock(s) \/ StudyTimesOut(s) \/ StudyPublish(s)
             \/ Mutate(s) \/ StudyStep(s)
      PROVE  Holding'
  <2>1. CASE StudyAsk(s) \/ StudyTimesOut(s) \/ Mutate(s) \/ StudyEnds(s)
    BY <2>1 DEF StudyAsk, StudyTimesOut, Mutate, StudyEnds
  <2>2. CASE StudyLock(s) \/ Trial(s)
    BY <1>0, <2>2 DEF StudyLock, Trial
  <2>3. CASE StudyPublish(s) \/ TrialEnds(s)
    BY <2>3 DEF StudyPublish, TrialEnds
  <2> QED BY <1>7, <2>1, <2>2, <2>3 DEF StudyStep
<1>8. CASE AbortReads \/ AbortTells \/ AbortMarks \/ ResetTells \/ ResetDisowns
  BY <1>8 DEF AbortReads, AbortTells, AbortMarks, ResetTells, ResetDisowns
<1>9. CASE UNCHANGED vars
  BY <1>9 DEF vars
<1> QED BY <1>1, <1>2, <1>3, <1>4, <1>5, <1>6, <1>7, <1>8, <1>9 DEF Next

\* A step that moves no study and lets no worker come alive keeps the mesh.
LEMMA MeshKept ==
  ASSUME StudyMesh, \A s \in Studies : pc'[s] = pc[s], InFlight' => InFlight
  PROVE  StudyMesh' /\ Live' = Live
BY DEF StudyMesh, Live

\* The mesh is kept by every step.
LEMMA StepMesh ==
  ASSUME Inv, [Next]_vars
  PROVE  StudyMesh'
<1> USE Apart DEF Go
<1>0. TypeOK /\ Holding /\ StudyMesh
  BY DEF Inv
<1>1. ASSUME NEW w \in Workers, Own(w), ~StudyRuns
      PROVE  StudyMesh'
  <2>1. Live' = {}
    BY <1>0, <1>1 DEF Own, Live, StudyRuns, TypeOK
  <2> QED BY <2>1 DEF StudyMesh
<1>2. ASSUME NEW j \in Jobs, JobRefused(j) \/ StopJob(j)
      PROVE  StudyMesh'
  BY <1>0, <1>2, MeshKept DEF JobRefused, StopJob, state, InFlight, Alive, TypeOK
<1>3. ASSUME NEW w \in Workers, SolveStep(w) \/ EarlyExit(w) \/ Restore(w)
      PROVE  StudyMesh'
  <2>1. pc[w] \notin {"new", "done"} /\ owner' = owner /\ \A p \in Parties \ {w} : pc'[p] = pc[p]
    BY <1>0, <1>3 DEF SolveStep, EarlyExit, Enter, Transform, Solve, GoBack, Raise, Restore,
         state, TypeOK
  <2> QED BY <1>0, <2>1, MeshKept DEF InFlight, Alive, TypeOK
<1>4. ASSUME NEW w \in Workers, RunEnds(w) \/ FlowReport(w)
      PROVE  StudyMesh'
  <2>1. pc[w] \notin {"new", "done"} /\ owner' = owner /\ \A p \in Parties \ {w} : pc'[p] = pc[p]
    BY <1>0, <1>4 DEF RunEnds, Answer, Dies, Report, FlowReport, Ends, state, TypeOK
  <2> QED BY <1>0, <2>1, MeshKept DEF InFlight, Alive, TypeOK
<1>5. ASSUME NEW j \in Jobs, JobEnding(j)
      PROVE  StudyMesh'
  <2>1. owner' \in {owner, None} /\ \A p \in Parties \ {j} : pc'[p] = pc[p]
    BY <1>0, <1>5 DEF JobEnding, Answer, JobReport, JobRaises, JobCatch, JobFails, JobEnds,
         Ends, state, TypeOK
  <2> QED BY <1>0, <2>1, MeshKept DEF InFlight, Alive, TypeOK
<1>6. ASSUME NEW p \in Savers \cup Jobs, SaveAsk(p) \/ SaveStep(p)
      PROVE  StudyMesh'
  <2>1. owner' = owner /\ \A q \in Parties \ {p} : pc'[q] = pc[q]
    BY <1>0, <1>6 DEF SaveAsk, SaveStep, SaveLock, Export, Turned, state, TypeOK
  <2> QED BY <1>0, <2>1, MeshKept DEF InFlight, Alive, TypeOK
<1>7. ASSUME NEW s \in Studies,
             \/ StudyAsk(s) \/ StudyLock(s) \/ StudyTimesOut(s) \/ StudyPublish(s)
             \/ Mutate(s) \/ StudyStep(s)
      PROVE  StudyMesh'
  <2>1. owner' = owner /\ \A p \in Parties \ {s} : pc'[p] = pc[p]
    BY <1>0, <1>7 DEF StudyAsk, StudyLock, StudyTimesOut, StudyPublish, Mutate, StudyStep,
         Trial, TrialEnds, StudyEnds, state, TypeOK
  <2>2. InFlight' = InFlight
    BY <1>0, <2>1 DEF InFlight, Alive, TypeOK
  <2>3. CASE StudyPublish(s) /\ ~MeshBusy
    BY <1>0, <2>1, <2>2, <2>3 DEF StudyPublish, MeshBusy, StudyRuns, StudyMesh, Live, TypeOK
  <2>4. CASE ~(StudyPublish(s) /\ ~MeshBusy)
    <3>1. s \in Live' => s \in Live
      BY <1>0, <1>7, <2>4 DEF StudyAsk, StudyLock, StudyTimesOut, StudyPublish, Mutate,
           StudyStep, Trial, TrialEnds, StudyEnds, Live, TypeOK
    <3>2. Live' \subseteq Live
      BY <2>1, <3>1 DEF Live
    <3> QED BY <1>0, <2>2, <3>2 DEF StudyMesh
  <2> QED BY <2>3, <2>4
<1>8. CASE AbortReads \/ AbortTells \/ AbortMarks \/ ResetTells \/ ResetDisowns
  <2>1. owner' \in {owner, None} /\ pc' = pc
    BY <1>8 DEF AbortReads, AbortTells, AbortMarks, ResetTells, ResetDisowns, state
  <2> QED BY <1>0, <2>1, MeshKept DEF InFlight, Alive
<1>9. CASE UNCHANGED vars
  BY <1>0, <1>9, MeshKept DEF vars, InFlight, Alive
<1> QED
  BY <1>1, <1>2, <1>3, <1>4, <1>5, <1>6, <1>7, <1>8, <1>9
  DEF Next, Claim, ClaimBlocked, JobClaim

\* A save that holds the lock keeps the studies out, and they it.
LEMMA StepSaves ==
  ASSUME Inv, [Next]_vars
  PROVE  SaveNotUnderStudy'
<1> USE Apart DEF Go
<1>0. TypeOK /\ Holding /\ SaveNotUnderStudy
  BY DEF Inv
<1> SUFFICES ASSUME NEW p \in Savers \cup Jobs, pc'[p] = "exporting"
             PROVE  ~StudyRuns'
  BY DEF SaveNotUnderStudy
<1>1. pc[p] = "exporting" => lock = p /\ ~StudyRuns
  BY <1>0 DEF Holding, HoldingSteps, SaveNotUnderStudy
<1>2. CASE pc[p] # "exporting"
  <2>1. SaveLock(p) /\ ~SaveBlocked
    BY <1>0, <1>2 DEF Next, vars, Claim, Own, JobClaim, JobRefused, StopJob, JobEnding, Answer,
      JobReport, JobRaises, JobCatch, JobFails, JobEnds, Ends, SolveStep, EarlyExit, Enter,
      Transform, Solve, GoBack, Raise, Restore, RunEnds, Dies, Report, FlowReport, SaveAsk,
      SaveStep, SaveLock, Export, Turned, StudyAsk, StudyLock, StudyTimesOut, StudyPublish,
      Mutate, StudyStep, Trial, TrialEnds, StudyEnds, AbortReads, AbortTells, AbortMarks,
      ResetTells, ResetDisowns, TypeOK
  <2> QED BY <1>0, <2>1 DEF SaveLock, SaveBlocked, StudyRuns, Live, TypeOK
<1>3. CASE pc[p] = "exporting"
  <2>1. ASSUME NEW s \in Studies, s \in Live'
        PROVE  s \in Live
    <3>1. pc[s] # "claiming"
      BY <1>0, <1>1, <1>3, <2>1 DEF Holding, HoldingSteps
    <3> QED BY <1>0, <2>1, <3>1 DEF Next, vars, Claim, Own, JobClaim, JobRefused, StopJob,
      JobEnding, Answer, JobReport, JobRaises, JobCatch, JobFails, JobEnds, Ends, SolveStep,
      EarlyExit, Enter, Transform, Solve, GoBack, Raise, Restore, RunEnds, Dies, Report,
      FlowReport, SaveAsk, SaveStep, SaveLock, Export, Turned, StudyAsk, StudyLock,
      StudyTimesOut, StudyPublish, Mutate, StudyStep, Trial, TrialEnds, StudyEnds, AbortReads,
      AbortTells, AbortMarks, ResetTells, ResetDisowns, Live, TypeOK
  <2> QED BY <1>1, <1>3, <2>1 DEF StudyRuns, Live
<1> QED BY <1>2, <1>3

\* Edits come and go with the steps that put and restore them.
LEMMA StepEdits ==
  ASSUME TypeOK, Edited, [Next]_vars
  PROVE  Edited'
<1> USE Apart DEF TypeOK, Edited, EditedBy, Go
<1>1. ASSUME NEW p \in Parties, edits' = edits, \A q \in Parties \ {p} : pc'[q] = pc[q],
             ~EditedBy(p)
      PROVE  Edited'
  BY <1>1
<1>2. CASE \E w \in Foreground : Claim(w)
  BY <1>1, <1>2 DEF Claim, Own
<1>3. CASE \E j \in Jobs : JobClaim(j) \/ JobRefused(j) \/ StopJob(j)
  BY <1>1, <1>3 DEF JobClaim, JobRefused, StopJob, Own
<1>4. ASSUME NEW w \in Workers, SolveStep(w)
      PROVE  Edited'
  <2>1. CASE Enter(w)
    BY <1>1, <2>1 DEF Enter
  <2>2. CASE Transform(w)
    BY <2>2 DEF Transform
  <2>3. CASE Solve(w)
    BY <2>3 DEF Solve
  <2> QED BY <1>4, <2>1, <2>2, <2>3 DEF SolveStep
<1>5. ASSUME NEW w \in Solvers, EarlyExit(w) \/ Restore(w)
      PROVE  Edited'
  <2>1. CASE GoBack(w)
    BY <1>1, <2>1 DEF GoBack
  <2>2. CASE Raise(w)
    BY <2>2 DEF Raise
  <2>3. CASE Restore(w)
    BY <2>3 DEF Restore
  <2> QED BY <1>5, <2>1, <2>2, <2>3 DEF EarlyExit
<1>6. ASSUME NEW w \in Workers, RunEnds(w) \/ FlowReport(w)
      PROVE  Edited'
  BY <1>1, <1>6 DEF RunEnds, Answer, Dies, Report, FlowReport, Ends
<1>7. ASSUME NEW j \in Jobs, JobEnding(j)
      PROVE  Edited'
  BY <1>1, <1>7 DEF JobEnding, Answer, JobReport, JobRaises, JobCatch, JobFails, JobEnds, Ends
<1>8. ASSUME NEW p \in Savers \cup Jobs, SaveAsk(p) \/ SaveStep(p)
      PROVE  Edited'
  BY <1>1, <1>8 DEF SaveAsk, SaveStep, SaveLock, Export, Turned, Unsaved
<1>9. ASSUME NEW s \in Studies,
             \/ StudyAsk(s) \/ StudyLock(s) \/ StudyTimesOut(s) \/ StudyPublish(s)
             \/ Mutate(s) \/ StudyStep(s)
      PROVE  Edited'
  <2>1. CASE StudyAsk(s) \/ StudyLock(s) \/ StudyTimesOut(s) \/ StudyPublish(s)
    BY <1>1, <2>1 DEF StudyAsk, StudyLock, StudyTimesOut, StudyPublish
  <2>2. CASE Mutate(s) \/ StudyEnds(s)
    BY <2>2 DEF Mutate, StudyEnds
  <2>3. CASE Trial(s) \/ TrialEnds(s)
    BY <2>3 DEF Trial, TrialEnds
  <2> QED BY <1>9, <2>1, <2>2, <2>3 DEF StudyStep
<1>10. CASE AbortReads \/ AbortTells \/ AbortMarks \/ ResetTells \/ ResetDisowns
  BY <1>10 DEF AbortReads, AbortTells, AbortMarks, ResetTells, ResetDisowns
<1>11. CASE UNCHANGED vars
  BY <1>11 DEF vars
<1> QED
  BY <1>2, <1>3, <1>4, <1>5, <1>6, <1>7, <1>8, <1>9, <1>10, <1>11 DEF Next

-----------------------------------------------------------------------------
\* Every reachable state keeps the types, the lock, the mesh, the save gate and
\* the account of the edits.
THEOREM Invariance == Spec => []Inv
<1>1. Inv /\ [Next]_vars => Inv'
  BY StepTyped, StepHolding, StepMesh, StepSaves, StepEdits DEF Inv
<1> QED BY InitInv, <1>1, PTL DEF Spec

\* The variables stay in their types.
THEOREM TypeCorrect == Spec => []TypeOK
<1>1. Inv => TypeOK
  BY DEF Inv
<1> QED BY Invariance, <1>1, PTL

\* No study runs beside a live owner of the solver state, nor beside another
\* study: both sides look again in the step that claims.
THEOREM MeshCorrect == Spec => []StudyMesh
<1>1. Inv => StudyMesh
  BY DEF Inv
<1> QED BY Invariance, <1>1, PTL

\* No save exports the network of a running study.
THEOREM SaveGateCorrect == Spec => []SaveNotUnderStudy
<1>1. Inv => SaveNotUnderStudy
  BY DEF Inv
<1> QED BY Invariance, <1>1, PTL

\* All a save can export beside the model is what a solve turned back before its
\* LP has still to take off: the lock keeps out whoever is at work on the
\* network, the save's second look keeps out the studies, and every other edit
\* is restored before its lock is let go of.
THEOREM SavedEditsCorrect == Spec => []SavedEditsUnwind
<1>1. Inv => SavedEditsUnwind
  <2> SUFFICES ASSUME Inv, NEW p \in Savers \cup Jobs, pc[p] = "exporting", NEW e \in edits
               PROVE  e \in Solvers /\ pc[e] = "unwinding"
    BY DEF SavedEditsUnwind
  <2>1. EditedBy(e) /\ e \in Workers \cup Studies /\ p \in Parties
    BY Apart DEF Inv, Edited, TypeOK
  <2>2. ~(e \in Workers /\ pc[e] = "modelled")
    BY Apart, <2>1 DEF Inv, Holding, HoldingSteps
  <2>3. e \in Studies => pc[e] \notin {"mutated", "trial", "tried"}
    BY DEF Inv, SaveNotUnderStudy, StudyRuns, Live
  <2> QED BY <2>1, <2>2, <2>3 DEF EditedBy
<1> QED BY Invariance, <1>1, PTL
=============================================================================
