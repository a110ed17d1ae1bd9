----------------------- MODULE SolveQueueControlProofs -----------------------
(***************************************************************************)
(* Proofs about the controls of the solve queue: the cap, the bulk cancel, *)
(* the quit, and cancels that reached the table.  They build on the        *)
(* invariant of SolveQueueProofs.                                          *)
(***************************************************************************)
EXTENDS SolveQueueProofs, FiniteSetTheorems

\* Every worker between taking and giving back a slot counts in `_running_ids`.
Slots ==
  /\ Cardinality(runningIds) <= MaxConcurrent
  /\ \A w \in Workers : pc[w] \in SlotSteps => wjob[w] \in runningIds

\* A stop event is set, or about to be, only where an abort asked for it.
Stops == stop \subseteq asked /\ csig \subseteq asked

\* What an abort or cancel call under way knows of its job.
Mirrors ==
  /\ phase # "up" => /\ cancelled = {} /\ quit = "no"
                     /\ \A j \in Jobs : cpc[j] = "idle"
  /\ \A j \in Jobs : call[j] = "none" => cpc[j] = "idle" /\ j \notin cancelled
  /\ \A j \in cancelled : st[j] \in Terminal
  /\ \A j \in Jobs : cpc[j] # "idle" /\ j \notin csig => st[j] \in Terminal
  /\ \A j \in Jobs : cpc[j] = "load" => st[j] # "queued"
  /\ \A j \in Jobs : cpc[j] = "commit" => cval[j] # "queued"
  /\ \A j \in Jobs : cpc[j] = "signal" => j \in csig

\* The quit drains first; a running job it has not stopped is still to visit.
Quits ==
  /\ quit # "no" => draining
  /\ quit \in {"signal", "wait"} =>
       \A j \in resident : st[j] = "running" => j \in stop \cup qlist
  /\ quit = "wait" => qlist = {}

\* A job whose cancel reached the table is queued nowhere, unless its flag
\* still tells the workers to pass it over.
Acked ==
  \A j \in acked :
    /\ row[j] # "queued" /\ j \notin todo
    /\ call[j] \notin {"none", "insert", "commit"}
    /\ \/ j \in cancelled
       \/ /\ call[j] # "publish"
          /\ \A w \in Workers : wjob[w] # j
          /\ \A a \in 1 .. Len(q) : q[a] # j

CInv == Slots /\ Stops /\ Mirrors /\ Quits /\ Acked

-----------------------------------------------------------------------------
(* The cap                                                                 *)

\* There are finitely many jobs, so the slots can be counted.
LEMMA JobsFinite == IsFiniteSet(Jobs)
BY FS_Interval, BoundsAssumption DEF Jobs

\* Dropping an id from `_running_ids` keeps it within the cap.
LEMMA FewerRunning ==
  ASSUME TypeOK, Slots, NEW S \in SUBSET runningIds
  PROVE  Cardinality(S) <= MaxConcurrent
<1>1. IsFiniteSet(runningIds)
  BY JobsFinite, FS_Subset DEF TypeOK
<1>2. Cardinality(S) <= Cardinality(runningIds)
  BY <1>1, FS_Subset
<1>3. Cardinality(S) \in Nat /\ Cardinality(runningIds) \in Nat
  BY <1>1, FS_Subset, FS_CardinalityType
<1> QED
  BY <1>2, <1>3, BoundsAssumption DEF Slots

\* Only `TakeSlot` adds an id, below the cap, and a release takes out its own.
LEMMA SlotsStep ==
  ASSUME TypeOK, Handed, Pipeline, Slots, [Next]_vars
  PROVE  Slots'
<1> USE DEF jobVars, memVars, gateVars, workVars, enqVars, cliVars, opVars,
            procVars, histVars, tabVars
<1>1. ASSUME UNCHANGED <<runningIds, pc, wjob>> PROVE Slots'
  BY <1>1 DEF Slots
<1>2. ASSUME NEW p \in Projects, NEW k \in Kinds, Register(p, k)
      PROVE  Slots'
  BY <1>1, <1>2 DEF Register
<1>3. ASSUME NEW j \in Jobs,
             \/ InsertBuild(j) \/ InsertCommit(j) \/ InsertRaise(j) \/ Publish(j)
             \/ ClientStep(j) \/ BootJob(j)
      PROVE  Slots'
  BY <1>1, <1>3 DEF InsertBuild, InsertCommit, InsertRaise, Publish, ClientStep,
                    BootJob, pipeVars
<1>4. CASE ControlStep \/ Boot \/ BootDone
  BY <1>1, <1>4 DEF ControlStep, Boot, BootDone, pipeVars
<1>5. CASE Die
  <2>1. \A w \in Workers : pc'[w] = "get"
    BY <1>5 DEF Die
  <2>2. Cardinality(runningIds') <= MaxConcurrent
    BY <1>5, FewerRunning DEF Die
  <2> QED BY <2>1, <2>2 DEF Slots, SlotSteps
<1>6. ASSUME NEW w \in Workers, Get(w) PROVE Slots'
  BY <1>6 DEF Get, At, Goto, Slots, SlotSteps, TypeOK
<1>7. ASSUME NEW w \in Workers, Release(w) PROVE Slots'
  <2>1. /\ runningIds' = runningIds \ {wjob[w]}
        /\ \A v \in Workers : v # w => wjob'[v] = wjob[v]
        /\ \A v \in Workers : pc'[v] \in SlotSteps => v # w /\ pc[v] \in SlotSteps
    BY <1>7 DEF Release, At, SlotSteps, TypeOK
  <2>2. Cardinality(runningIds') <= MaxConcurrent
    BY <2>1, FewerRunning
  <2>3. \A v \in Workers : v # w /\ pc[v] \in SlotSteps => wjob[v] # wjob[w]
    BY <1>7 DEF Release, At, Handed, Pipeline, SlotSteps
  <2> QED BY <2>1, <2>2, <2>3 DEF Slots
<1>8. ASSUME NEW w \in Workers, TakeSlot(w) PROVE Slots'
  <2>1. CASE runningIds' = runningIds
    BY <1>8, <2>1 DEF TakeSlot, Slots, SlotSteps, At, Goto, TypeOK
  <2>2. CASE Room /\ ~Dead(wjob[w]) /\ runningIds' = runningIds \cup {wjob[w]}
    <3>1. IsFiniteSet(runningIds)
      BY JobsFinite, FS_Subset DEF TypeOK
    <3>2. Cardinality(runningIds) \in Nat /\ Cardinality(runningIds) < MaxConcurrent
      BY <3>1, <2>2, FS_CardinalityType DEF Room
    <3>3. Cardinality(runningIds \cup {wjob[w]}) <= Cardinality(runningIds) + 1
      BY <3>1, <3>2, FS_AddElement
    <3>4. Cardinality(runningIds \cup {wjob[w]}) \in Nat
      BY <3>1, FS_AddElement, FS_CardinalityType
    <3>5. Cardinality(runningIds') <= MaxConcurrent
      <4>1. Cardinality(runningIds') = Cardinality(runningIds \cup {wjob[w]})
        BY <2>2
      <4> QED BY <4>1, <3>2, <3>3, <3>4, BoundsAssumption
    <3>6. UNCHANGED wjob /\ \A v \in Workers : v # w => pc'[v] = pc[v]
      BY <1>8 DEF TakeSlot, Goto, TypeOK
    <3> QED BY <2>2, <3>5, <3>6 DEF Slots
  <2> QED BY <1>8, <2>1, <2>2 DEF TakeSlot
<1>9. ASSUME NEW w \in Workers, Worker(w) \/ WorkerLoss(w),
             ~Get(w), ~Release(w), ~TakeSlot(w)
      PROVE  Slots'
  <2>1. UNCHANGED <<runningIds, wjob>>
    BY <1>9 DEF Worker, WorkerLoss, PassGate, Claim, Mark, MarkLost, Start, Solve,
                Finish, Mirror, MirrorLost
  <2>2. /\ \A v \in Workers : v # w => pc'[v] = pc[v]
        /\ pc'[w] \in SlotSteps => pc[w] \in SlotSteps
    BY <1>9 DEF Worker, WorkerLoss, PassGate, Claim, Mark, MarkLost, Start, Solve,
                Finish, Mirror, MirrorLost, At, Goto, TypeOK, SlotSteps, WorkerSteps
  <2> QED BY <2>1, <2>2 DEF Slots
<1> QED
  BY <1>2, <1>3, <1>4, <1>5, <1>6, <1>7, <1>8, <1>9, Steps

\* The workers behind a slot hold different ids of `_running_ids`.
LEMMA SlotsCap ==
  ASSUME TypeOK, Handed, Pipeline, Slots
  PROVE  WithinCap
<1> DEFINE S == {w \in Workers : pc[w] \in SlotSteps}
           f == [w \in S |-> wjob[w]]
<1>1. f \in Injection(S, runningIds)
  <2>1. \A w \in S : wjob[w] \in runningIds /\ wjob[w] # None
    BY DEF Slots, Handed, SlotSteps
  <2>2. \A v, w \in S : f[v] = f[w] => v = w
    BY <2>1 DEF Pipeline
  <2> QED BY <2>1, <2>2 DEF Injection, IsInjective
<1>2. IsFiniteSet(runningIds)
  BY JobsFinite, FS_Subset DEF TypeOK
<1>3. IsFiniteSet(S) /\ Cardinality(S) <= Cardinality(runningIds)
  BY <1>1, <1>2, FS_Injection
<1>4. Cardinality(S) \in Nat /\ Cardinality(runningIds) \in Nat
  BY <1>2, <1>3, FS_CardinalityType
<1> QED
  BY <1>3, <1>4, BoundsAssumption DEF Slots, WithinCap

-----------------------------------------------------------------------------
(* Calls under way, stop events, the quit                                  *)

Controls ==
  \/ SweepStart \/ ClearMemory \/ ClearLoad \/ ClearTable \/ Pause \/ Resume
  \/ QuitDrain \/ QuitSnapshot \/ QuitWait \/ UNCHANGED vars

\* The steps once more, the client calls and controls one by one.
LEMMA AllSteps ==
  ASSUME TypeOK, [Next]_vars
  PROVE  \/ \E p \in Projects, k \in Kinds : Register(p, k)
         \/ \E j \in Jobs : InsertBuild(j) \/ InsertCommit(j) \/ InsertRaise(j) \/ Publish(j)
         \/ \E j \in Jobs : Abort(j) \/ SweepJob(j) \/ QuitJob(j)
         \/ \E j \in Jobs : ClientLoad(j) \/ ClientCommit(j) \/ ClientLost(j) \/ Signal(j)
         \/ \E j \in Jobs : BootJob(j)
         \/ \E w \in Workers : Worker(w) \/ WorkerLoss(w)
         \/ Controls \/ Die \/ Boot \/ BootDone
<1>1. ASSUME NEW p \in Projects, NEW k \in Kinds, Enqueue(p, k)
      PROVE  Register(p, k)
  BY <1>1 DEF Enqueue
<1>2. ASSUME NEW j \in Jobs, Requeue(j)
      PROVE  Register(proj[j], "solve") /\ proj[j] \in Projects /\ "solve" \in Kinds
  BY <1>2, SetsAssumption DEF Requeue, TypeOK
<1> QED
  BY <1>1, <1>2 DEF Next, Enqueuing, Client, Booting, Controls

\* Only an abort or the quit fetches a stop event, and both record the request.
LEMMA StopsStep ==
  ASSUME TypeOK, Stops, Mirrors, [Next]_vars
  PROVE  Stops'
<1> USE DEF Stops, jobVars, memVars, gateVars, workVars, enqVars, cliVars, opVars,
            procVars, histVars, tabVars
<1>1. ASSUME NEW p \in Projects, NEW k \in Kinds, Register(p, k)
      PROVE  Stops'
  BY <1>1 DEF Register
<1>2. ASSUME NEW j \in Jobs,
             \/ InsertBuild(j) \/ InsertCommit(j) \/ InsertRaise(j) \/ Publish(j)
             \/ BootJob(j)
      PROVE  Stops'
  BY <1>2 DEF InsertBuild, InsertCommit, InsertRaise, Publish, BootJob
<1>3. ASSUME NEW j \in Jobs, Abort(j) \/ SweepJob(j) \/ QuitJob(j) PROVE Stops'
  BY <1>3 DEF Abort, SweepJob, QuitJob, Calling, AbortLocked, CancelQueued, QueueOp
<1>4. ASSUME NEW j \in Jobs, ClientLoad(j) \/ ClientCommit(j) \/ ClientLost(j)
      PROVE  Stops'
  BY <1>4 DEF ClientLoad, ClientCommit, ClientLost, AfterMirror, Landed
<1>5. ASSUME NEW j \in Jobs, Signal(j) PROVE Stops'
  BY <1>5 DEF Signal, Mirrors
<1>6. ASSUME NEW w \in Workers, Worker(w) \/ WorkerLoss(w) PROVE Stops'
  BY <1>6 DEF Worker, WorkerLoss, Get, PassGate, TakeSlot, Claim, Mark, MarkLost,
              Start, Solve, Finish, Mirror, MirrorLost, Release
<1>7. CASE Controls
  BY <1>7 DEF Controls, SweepStart, ClearMemory, ClearLoad, ClearTable, Pause,
              Resume, QuitDrain, QuitSnapshot, QuitWait, QueueOp, vars
<1>8. CASE Die \/ Boot \/ BootDone
  BY <1>8 DEF Die, Boot, BootDone
<1> QED
  BY <1>1, <1>2, <1>3, <1>4, <1>5, <1>6, <1>7, <1>8, AllSteps

\* A claim leaves a flagged job alone, so what a call read stays terminal.
LEMMA MirrorsStep ==
  ASSUME TypeOK, Handed, Calls, Claims, Mirrors, [Next]_vars
  PROVE  Mirrors'
<1> USE DEF jobVars, memVars, gateVars, workVars, enqVars, cliVars, opVars,
            procVars, histVars, tabVars
<1>1. ASSUME NEW p \in Projects, NEW k \in Kinds, Register(p, k)
      PROVE  Mirrors'
  <2>1. next + 1 \in Jobs /\ call[next + 1] = "none"
    BY <1>1, BoundsAssumption DEF Register, Jobs, TypeOK, Calls
  <2>2. cpc[next + 1] = "idle" /\ next + 1 \notin cancelled
    BY <2>1 DEF Mirrors
  <2>3. /\ UNCHANGED <<phase, quit, cpc, cval, csig, cancelled>>
        /\ \A i \in Jobs : i # next + 1 => st'[i] = st[i] /\ call'[i] = call[i]
        /\ call'[next + 1] = "insert"
    BY <1>1, <2>1 DEF Register, TypeOK
  <2> QED BY <2>2, <2>3 DEF Mirrors, TypeOK
<1>2. ASSUME NEW j \in Jobs,
             InsertBuild(j) \/ InsertCommit(j) \/ InsertRaise(j) \/ Publish(j)
      PROVE  Mirrors'
  BY <1>2 DEF Mirrors, InsertBuild, InsertCommit, InsertRaise, Publish, TypeOK
<1>3. ASSUME NEW j \in Jobs, Abort(j) \/ SweepJob(j) \/ QuitJob(j) PROVE Mirrors'
  <2>1. CASE UNCHANGED <<phase, quit, cpc, cval, csig, cancelled, st, call>>
    BY <2>1 DEF Mirrors
  <2>2. CASE Calling(j) /\ AbortLocked(j) /\ UNCHANGED opVars
    <3>1. call[j] # "none" /\ phase = "up"
      BY <2>2 DEF Calling, Calls
    <3>2. UNCHANGED <<phase, quit, cval, call>> /\ cpc' = [cpc EXCEPT ![j] = "load"]
      BY <2>2 DEF Calling
    <3>3. CASE CancelQueued(j)
      BY <3>1, <3>2, <3>3 DEF CancelQueued, Mirrors, TypeOK, Terminal
    <3>4. CASE ~CancelQueued(j)
      <4>1. UNCHANGED <<cancelled, st>> /\ csig \subseteq csig'
        BY <2>2, <3>4 DEF AbortLocked
      <4>2. (st[j] = "running" /\ j \in csig') \/ st[j] \in Terminal
        BY <2>2, <3>4 DEF AbortLocked
      <4> QED BY <3>1, <3>2, <4>1, <4>2 DEF Mirrors, TypeOK, Terminal
    <3> QED BY <3>3, <3>4
  <2> QED
    BY <1>3, <2>1, <2>2 DEF Abort, SweepJob, QuitJob, AbortLocked, QueueOp
<1>4. ASSUME NEW j \in Jobs, ClientLoad(j) \/ ClientCommit(j) \/ ClientLost(j)
      PROVE  Mirrors'
  <2>1. UNCHANGED <<phase, quit, csig, cancelled, st, call>>
    BY <1>4 DEF ClientLoad, ClientCommit, ClientLost, AfterMirror
  <2>2. CASE AfterMirror(j)
    BY <2>1, <2>2, <1>4 DEF AfterMirror, Mirrors, TypeOK, ClientLoad, ClientCommit, ClientLost
  <2>3. CASE /\ cpc[j] = "load" /\ cpc' = [cpc EXCEPT ![j] = "commit"]
             /\ cval' = [cval EXCEPT ![j] = st[j]]
    BY <2>1, <2>3 DEF Mirrors, TypeOK
  <2> QED BY <1>4, <2>2, <2>3 DEF ClientLoad, ClientCommit, ClientLost
<1>5. ASSUME NEW j \in Jobs, Signal(j) PROVE Mirrors'
  BY <1>5 DEF Signal, Mirrors, TypeOK
<1>6. ASSUME NEW w \in Workers, Worker(w) \/ WorkerLoss(w) PROVE Mirrors'
  <2>1. UNCHANGED <<phase, quit, cpc, cval, csig, cancelled, call>>
    BY <1>6 DEF Worker, WorkerLoss, Get, PassGate, TakeSlot, Claim, Mark, MarkLost,
                Start, Solve, Finish, Mirror, MirrorLost, Release
  <2>2. \A i \in Jobs : \/ st'[i] = st[i] \/ st'[i] \in Terminal
                        \/ i \notin cancelled /\ st'[i] = "running" /\ st[i] \notin Terminal
    <3>1. CASE Claim(w)
      <4>1. CASE st' = st
        BY <4>1
      <4>2. CASE Verdict(wjob[w]) = "claimed"
        <5>1. wjob[w] \notin cancelled
          BY <4>2 DEF Verdict
        <5>2. wjob[w] \in Jobs /\ st[wjob[w]] = "queued"
          BY <3>1, <5>1 DEF Claim, At, Claims, TypeOK
        <5>3. st' = [st EXCEPT ![wjob[w]] = "running"]
          BY <3>1, <4>2 DEF Claim
        <5> QED BY <5>1, <5>2, <5>3 DEF TypeOK, Terminal
      <4> QED BY <3>1, <4>1, <4>2 DEF Claim
    <3>2. CASE Finish(w)
      BY <3>2 DEF Finish, TypeOK
    <3>3. CASE ~Claim(w) /\ ~Finish(w)
      BY <1>6, <3>3 DEF Worker, WorkerLoss, Get, PassGate, TakeSlot, Mark, MarkLost,
                        Start, Solve, Mirror, MirrorLost, Release
    <3> QED BY <3>1, <3>2, <3>3
  <2> QED BY <2>1, <2>2 DEF Mirrors, TypeOK, Terminal
<1>7. CASE Controls
  BY <1>7 DEF Controls, SweepStart, ClearMemory, ClearLoad, ClearTable, Pause,
              Resume, QuitDrain, QuitSnapshot, QuitWait, QueueOp, vars, Mirrors
<1>8. CASE Die \/ Boot \/ BootDone
  BY <1>8 DEF Die, Boot, BootDone, Mirrors, TypeOK
<1>9. ASSUME NEW j \in Jobs, BootJob(j) PROVE Mirrors'
  BY <1>9 DEF BootJob, Mirrors, TypeOK
<1> QED
  BY <1>1, <1>2, <1>3, <1>4, <1>5, <1>6, <1>7, <1>8, <1>9, AllSteps

\* Nothing starts under a drain, and no running job leaves the list unstopped.
LEMMA QuitsStep ==
  ASSUME TypeOK, Handed, Calls, Claims, Mirrors, Quits, [Next]_vars
  PROVE  Quits'
<1> USE DEF jobVars, memVars, gateVars, workVars, enqVars, cliVars, opVars,
            procVars, histVars, tabVars
\* What is left to visit may shrink by a job that is not running or is told to
\* stop, as long as nothing else starts to run.
<1>0. ASSUME UNCHANGED <<quit, draining>>, stop \subseteq stop', qlist' \subseteq qlist,
             \A i \in resident' : st'[i] = "running" =>
               /\ i \in resident /\ st[i] = "running"
               /\ i \in qlist \ qlist' => i \in stop'
      PROVE  Quits'
  BY <1>0 DEF Quits
<1>1. ASSUME NEW p \in Projects, NEW k \in Kinds, Register(p, k)
      PROVE  Quits'
  <2>1. next + 1 \in Jobs
    BY <1>1, BoundsAssumption DEF Register, Jobs, TypeOK
  <2>2. /\ UNCHANGED <<quit, draining, stop, qlist>>
        /\ resident' = resident \cup {next + 1}
        /\ st' = [st EXCEPT ![next + 1] = "queued"]
    BY <1>1 DEF Register
  <2> QED BY <1>0, <2>1, <2>2 DEF TypeOK
<1>2. ASSUME NEW j \in Jobs,
             InsertBuild(j) \/ InsertCommit(j) \/ InsertRaise(j) \/ Publish(j)
      PROVE  Quits'
  BY <1>0, <1>2 DEF InsertBuild, InsertCommit, InsertRaise, Publish
<1>3. ASSUME NEW j \in Jobs, Abort(j) \/ SweepJob(j) \/ QuitJob(j) PROVE Quits'
  <2>1. CASE Calling(j) /\ (AbortLocked(j) \/ CancelQueued(j)) /\ UNCHANGED opVars
    <3>1. UNCHANGED <<quit, draining, stop, qlist, resident>>
      BY <2>1 DEF Calling
    <3>2. \A i \in resident : st'[i] = "running" => st[i] = "running"
      BY <2>1 DEF AbortLocked, CancelQueued, TypeOK
    <3> QED BY <1>0, <3>1, <3>2
  <2>2. CASE QuitJob(j) /\ j \notin resident /\ qlist' = qlist \ {j}
    BY <1>0, <2>2 DEF QuitJob, Calling, QueueOp
  <2>3. CASE SweepJob(j) /\ UNCHANGED <<memVars, gateVars, quit, qlist>>
    BY <1>0, <2>3
  <2> QED BY <1>3, <2>1, <2>2, <2>3 DEF Abort, SweepJob, QuitJob
<1>4. ASSUME NEW j \in Jobs, ClientLoad(j) \/ ClientCommit(j) \/ ClientLost(j)
      PROVE  Quits'
  <2>1. cpc[j] # "idle" /\ UNCHANGED <<resident, st, stop, draining, quit>>
    BY <1>4 DEF ClientLoad, ClientCommit, ClientLost, AfterMirror
  <2>2. CASE j \in csig \/ qlist' = qlist
    <3>1. qlist' = qlist
      BY <1>4, <2>2 DEF ClientLoad, ClientCommit, ClientLost, AfterMirror
    <3> QED BY <1>0, <2>1, <3>1
  <2>3. CASE j \notin csig /\ qlist' = qlist \ {j}
    <3>1. st[j] # "running"
      BY <2>1, <2>3 DEF Mirrors, Terminal
    <3> QED BY <1>0, <2>1, <2>3, <3>1
  <2> QED BY <1>4, <2>2, <2>3 DEF ClientLoad, ClientCommit, ClientLost, AfterMirror
<1>5. ASSUME NEW j \in Jobs, Signal(j) PROVE Quits'
  BY <1>0, <1>5 DEF Signal
<1>6. ASSUME NEW w \in Workers, Worker(w) \/ WorkerLoss(w) PROVE Quits'
  <2>1. UNCHANGED <<quit, draining, stop, qlist, resident>>
    BY <1>6 DEF Worker, WorkerLoss, Get, PassGate, TakeSlot, Claim, Mark, MarkLost,
                Start, Solve, Finish, Mirror, MirrorLost, Release
  <2>2. CASE Claim(w)
    \* A claim that starts a job saw a queue that was not draining.
    <3>1. CASE st' = st
      BY <1>0, <2>1, <3>1
    <3>2. CASE ~draining
      BY <2>1, <3>2 DEF Quits
    <3>3. st' = st \/ ~draining
      BY <2>2 DEF Claim, Verdict
    <3> QED BY <3>1, <3>2, <3>3
  <2>3. CASE Finish(w)
    <3>1. wjob[w] \in Jobs
      BY <2>3 DEF Finish, At, Handed, TypeOK
    <3>2. \A i \in resident : st'[i] = "running" => st[i] = "running"
      BY <2>3, <3>1 DEF Finish, TypeOK, Terminal
    <3> QED BY <1>0, <2>1, <3>2
  <2>4. CASE ~Claim(w) /\ ~Finish(w)
    <3>1. UNCHANGED st
      BY <1>6, <2>4 DEF Worker, WorkerLoss, Get, PassGate, TakeSlot, Mark, MarkLost,
                        Start, Solve, Mirror, MirrorLost, Release
    <3> QED BY <1>0, <2>1, <3>1
  <2> QED BY <2>2, <2>3, <2>4
<1>7. CASE Controls
  <2>1. CASE QuitDrain
    BY <2>1 DEF QuitDrain, Quits
  <2>2. CASE QuitSnapshot
    BY <2>2 DEF QuitSnapshot, Quits
  <2>3. CASE QuitWait
    BY <2>3 DEF QuitWait, Quits
  <2>4. CASE Controls /\ ~QuitDrain /\ ~QuitSnapshot /\ ~QuitWait
    <3>1. /\ UNCHANGED <<quit, draining, stop, qlist, st>>
          /\ resident' \subseteq resident
      BY <2>4 DEF Controls, SweepStart, ClearMemory, ClearLoad, ClearTable, Pause,
                  Resume, vars
    <3> QED BY <1>0, <3>1
  <2> QED BY <1>7, <2>1, <2>2, <2>3, <2>4
<1>8. CASE Die \/ Boot \/ BootDone
  BY <1>0, <1>8 DEF Die, Boot, BootDone, Quits
<1>9. ASSUME NEW j \in Jobs, BootJob(j) PROVE Quits'
  <2>1. quit = "no" /\ UNCHANGED quit
    BY <1>9 DEF BootJob, Mirrors
  <2> QED BY <2>1 DEF Quits
<1> QED
  BY <1>1, <1>2, <1>3, <1>4, <1>5, <1>6, <1>7, <1>8, <1>9, AllSteps

-----------------------------------------------------------------------------
(* Cancels that reached the table                                          *)

\* What a step on the table's rows may do to an acknowledged job: no row of
\* one turns `queued`.
NoAckedRequeued == \A j \in acked : row[j] # "queued" => row'[j] # "queued"

\* No step brings a job whose cancel reached the table back into the pipeline.
LEMMA AckedStep ==
  ASSUME TypeOK, Handed, Calls, Mirrors, Acked, [Next]_vars
  PROVE  Acked'
<1> USE DEF jobVars, memVars, gateVars, workVars, enqVars, cliVars, opVars,
            procVars, histVars, tabVars
\* Most steps touch neither the pipeline nor the flags.
<1>0. ASSUME UNCHANGED <<acked, todo, call, wjob, q>>, cancelled \subseteq cancelled',
             NoAckedRequeued
      PROVE  Acked'
  BY <1>0 DEF Acked, NoAckedRequeued
<1>1. ASSUME NEW p \in Projects, NEW k \in Kinds, Register(p, k)
      PROVE  Acked'
  <2>1. next + 1 \in Jobs /\ call[next + 1] = "none"
    BY <1>1, BoundsAssumption DEF Register, Jobs, TypeOK, Calls
  <2>2. next + 1 \notin acked
    BY <2>1 DEF Acked
  <2>3. /\ UNCHANGED <<acked, row, todo, cancelled, wjob, q>>
        /\ call' = [call EXCEPT ![next + 1] = "insert"]
    BY <1>1 DEF Register
  <2> QED BY <2>2, <2>3 DEF Acked, TypeOK
<1>2. ASSUME NEW j \in Jobs, InsertBuild(j) \/ InsertCommit(j) \/ InsertRaise(j)
      PROVE  Acked'
  <2>1. j \notin acked /\ UNCHANGED <<acked, todo, cancelled, wjob, q>>
    BY <1>2 DEF Acked, InsertBuild, InsertCommit, InsertRaise
  <2>2. \A i \in Jobs : i # j => row'[i] = row[i] /\ call'[i] = call[i]
    BY <1>2 DEF InsertBuild, InsertCommit, InsertRaise, TypeOK
  <2>3. acked \subseteq Jobs
    BY DEF TypeOK
  <2> QED BY <2>1, <2>2, <2>3 DEF Acked
<1>3. ASSUME NEW j \in Jobs, Publish(j) PROVE Acked'
  <2>1. j \in acked => j \in cancelled
    BY <1>3 DEF Publish, Acked
  <2>2. /\ UNCHANGED <<acked, row, todo, cancelled, wjob>>
        /\ call' = [call EXCEPT ![j] = "done"] /\ q' = Append(q, j)
    BY <1>3 DEF Publish
  <2>3. \A a \in 1 .. Len(q') : q'[a] = j \/ (a \in 1 .. Len(q) /\ q'[a] = q[a])
    BY <2>2 DEF TypeOK
  <2>4. acked \subseteq Jobs
    BY DEF TypeOK
  <2> QED BY <2>1, <2>2, <2>3, <2>4 DEF Acked, TypeOK
<1>4. ASSUME NEW j \in Jobs, Abort(j) \/ SweepJob(j) \/ QuitJob(j) PROVE Acked'
  BY <1>0, <1>4 DEF Abort, SweepJob, QuitJob, Calling, AbortLocked, CancelQueued,
                    QueueOp, NoAckedRequeued
<1>5. ASSUME NEW j \in Jobs, ClientLoad(j) \/ ClientCommit(j) \/ ClientLost(j)
      PROVE  Acked'
  <2>1. UNCHANGED <<todo, call, wjob, q, cancelled>>
    BY <1>5 DEF ClientLoad, ClientCommit, ClientLost
  <2>2. NoAckedRequeued
    BY <1>5 DEF ClientLoad, ClientCommit, ClientLost, Store, NoAckedRequeued,
                Mirrors, TypeOK
  <2>3. CASE UNCHANGED acked
    BY <1>0, <2>1, <2>2, <2>3
  <2>4. CASE /\ acked' = acked \cup {j} /\ j \in cancelled
             /\ row[j] # "none" /\ row'[j] # "queued"
    \* The call's process is up, so boot has no row left to restore, and the
    \* row exists, so its INSERT is done.
    <3>1. j \notin todo /\ call[j] \notin {"none", "insert", "commit"}
      BY <1>5, <2>4 DEF ClientLoad, ClientCommit, ClientLost, Mirrors, Calls
    <3> QED BY <2>1, <2>2, <2>4, <3>1 DEF Acked, NoAckedRequeued
  <2>5. UNCHANGED acked \/ (/\ acked' = acked \cup {j} /\ j \in cancelled
                            /\ row[j] # "none" /\ row'[j] # "queued")
    <3>1. CASE ClientLoad(j)
      BY <3>1 DEF ClientLoad, Landed, Mirrors, TypeOK, Status, Active, Terminal
    <3>2. CASE ClientCommit(j)
      BY <3>2 DEF ClientCommit, Landed, Store, Mirrors, TypeOK
    <3>3. CASE ClientLost(j)
      BY <3>3 DEF ClientLost
    <3> QED BY <1>5, <3>1, <3>2, <3>3
  <2> QED BY <2>3, <2>4, <2>5
<1>6. ASSUME NEW j \in Jobs, Signal(j) PROVE Acked'
  BY <1>0, <1>6 DEF Signal, NoAckedRequeued
<1>7. ASSUME NEW w \in Workers, Worker(w) \/ WorkerLoss(w) PROVE Acked'
  <2>1. CASE Get(w)
    \* An acknowledged job without its flag is not in the queue.
    <3>1. /\ UNCHANGED <<acked, row, todo, call, cancelled>>
          /\ wjob' = [wjob EXCEPT ![w] = q[1]]
          /\ Len(q) \in Nat /\ Len(q) > 0 /\ Len(q') = Len(q) - 1
          /\ \A a \in 1 .. Len(q') : q'[a] = q[a + 1]
      BY <2>1 DEF Get, TypeOK
    <3>2. \A a \in 1 .. Len(q') : a + 1 \in 1 .. Len(q)
      BY <3>1
    <3>3. 1 \in 1 .. Len(q)
      BY <3>1
    <3> QED BY <3>1, <3>2, <3>3 DEF Acked, TypeOK
  <2>2. CASE Release(w)
    <3>1. /\ UNCHANGED <<acked, row, todo, call, cancelled, q>>
          /\ wjob' = [wjob EXCEPT ![w] = None]
      BY <2>2 DEF Release
    <3>2. acked \subseteq Jobs
      BY DEF TypeOK
    <3> QED BY <3>1, <3>2, NoneIsNoJob DEF Acked, TypeOK
  <2>3. CASE ~Get(w) /\ ~Release(w)
    <3>1. UNCHANGED <<acked, todo, call, wjob, q, cancelled>>
      BY <1>7, <2>3 DEF Worker, WorkerLoss, PassGate, TakeSlot, Claim, Mark, MarkLost,
                        Start, Solve, Finish, Mirror, MirrorLost
    <3>2. ASSUME Mark(w) \/ Mirror(w) PROVE NoAckedRequeued
      <4>1. acked \subseteq Jobs /\ wend[w] # "queued"
        BY DEF TypeOK, Terminal
      <4>2. \/ UNCHANGED row \/ Store(wjob[w], "running")
            \/ Store(wjob[w], wend[w])
        BY <3>2 DEF Mark, Mirror
      <4> QED BY <4>1, <4>2 DEF Store, NoAckedRequeued, TypeOK
    <3>3. ASSUME ~Mark(w), ~Mirror(w) PROVE NoAckedRequeued
      <4>1. UNCHANGED row
        BY <1>7, <2>3, <3>3
        DEF Worker, WorkerLoss, PassGate, TakeSlot, Claim, MarkLost, Start, Solve,
            Finish, MirrorLost
      <4> QED BY <4>1 DEF NoAckedRequeued
    <3> QED BY <1>0, <3>1, <3>2, <3>3
  <2> QED BY <2>1, <2>2, <2>3
<1>8. CASE Controls
  <2>1. UNCHANGED <<acked, todo, call, wjob, q, cancelled>>
    BY <1>8 DEF Controls, SweepStart, ClearMemory, ClearLoad, ClearTable, Pause,
                Resume, QuitDrain, QuitSnapshot, QuitWait, QueueOp, vars
  <2>2. NoAckedRequeued
    BY <1>8 DEF Controls, SweepStart, ClearMemory, ClearLoad, ClearTable, Pause,
                Resume, QuitDrain, QuitSnapshot, QuitWait, QueueOp, vars,
                NoAckedRequeued, TypeOK
  <2> QED BY <1>0, <2>1, <2>2
<1>9. CASE Die
  <2>1. /\ UNCHANGED <<acked, row>> /\ todo' = {} /\ q' = <<>>
        /\ wjob' = [w \in Workers |-> None]
        /\ call' = [j \in Jobs |-> IF call[j] \in {"insert", "commit", "publish"}
                                   THEN "cut" ELSE call[j]]
    BY <1>9 DEF Die
  <2>2. acked \subseteq Jobs /\ \A a \in 1 .. Len(q') : FALSE
    BY <2>1 DEF TypeOK
  <2>3. \A j \in acked : call'[j] \notin {"none", "insert", "commit", "publish"}
    BY <2>1, <2>2 DEF Acked
  <2> QED BY <2>1, <2>2, <2>3, NoneIsNoJob DEF Acked
<1>10. CASE Boot
  <2>1. UNCHANGED <<acked, call, wjob, q, cancelled>>
    BY <1>10 DEF Boot
  <2>2. NoAckedRequeued
    BY <1>10 DEF Boot, AfterDeath, NoAckedRequeued, TypeOK
  <2>3. \A j \in todo' : row'[j] = "queued"
    BY <1>10 DEF Boot
  <2> QED BY <2>1, <2>2, <2>3 DEF Acked, NoAckedRequeued
<1>11. CASE BootDone
  BY <1>11 DEF BootDone, Acked
<1>12. ASSUME NEW j \in Jobs, BootJob(j) PROVE Acked'
  <2>1. j \notin acked /\ todo' \subseteq todo
        /\ UNCHANGED <<acked, call, wjob, cancelled>>
    BY <1>12 DEF BootJob, First, Acked
  <2>2. \A i \in acked : row'[i] = row[i]
    <3>1. row' = row \/ row' = [row EXCEPT ![j] = "failed"]
      BY <1>12 DEF BootJob
    <3>2. acked \subseteq Jobs
      BY DEF TypeOK
    <3> QED BY <2>1, <3>1, <3>2 DEF TypeOK
  <2>3. \A a \in 1 .. Len(q') : q'[a] = j \/ (a \in 1 .. Len(q) /\ q'[a] = q[a])
    <3>1. q' = q \/ q' = Append(q, j)
      BY <1>12 DEF BootJob
    <3> QED BY <3>1 DEF TypeOK
  <2> QED BY <2>1, <2>2, <2>3 DEF Acked
<1> QED
  BY <1>1, <1>2, <1>3, <1>4, <1>5, <1>6, <1>7, <1>8, <1>9, <1>10, <1>11, <1>12,
     AllSteps

-----------------------------------------------------------------------------
(* The theorems                                                            *)

\* The queue starts with all of it.
LEMMA ControlInit == Init => CInv
<1> SUFFICES ASSUME Init PROVE CInv
  OBVIOUS
<1>1. Slots
  BY FS_EmptySet, BoundsAssumption DEF Init, Slots, SlotSteps
<1>2. Stops /\ Mirrors /\ Quits /\ Acked
  BY DEF Init, Stops, Mirrors, Quits, Acked
<1> QED
  BY <1>1, <1>2 DEF CInv

\* Every step keeps all of it.
LEMMA ControlStepInv == IInv /\ CInv /\ [Next]_vars => CInv'
BY SlotsStep, StopsStep, MirrorsStep, QuitsStep, AckedStep DEF IInv, CInv

\* The invariant of the controls holds of every reachable state.
THEOREM ControlInvariance == Spec => []CInv
BY Invariance, ControlInit, ControlStepInv, PTL DEF Spec

\* No more than MAX_CONCURRENT_SOLVES threads are past the slot, for any number
\* of threads: lowering the cap below them is safe.
THEOREM Capped == Spec => []WithinCap
<1>1. IInv /\ CInv => WithinCap
  BY SlotsCap DEF IInv, CInv
<1> QED
  BY Invariance, ControlInvariance, <1>1, PTL

\* R29: no interleaving of a bulk cancel with the claims stops a solve that
\* nobody asked to abort.
THEOREM BulkCancelSafe == Spec => []BulkCancelSparesRunning
<1>1. CInv => BulkCancelSparesRunning
  BY DEF CInv, Stops, BulkCancelSparesRunning
<1> QED
  BY ControlInvariance, <1>1, PTL

\* Once the quit waits, every job still running was told to stop, however many
\* claims and aborts raced its snapshot.
THEOREM QuitStopsAll == Spec => []QuitReachesEveryRun
<1>1. CInv => QuitReachesEveryRun
  BY DEF CInv, Quits, QuitReachesEveryRun
<1> QED
  BY ControlInvariance, <1>1, PTL

\* A cancel that reached the table is final in this process and in every later
\* one, for any number of crashes and lost writes.
THEOREM CancelFinal == Spec => []AckedCancelIsFinal
<1>1. IInv /\ CInv => AckedCancelIsFinal
  <2> SUFFICES ASSUME IInv, CInv, NEW w \in Workers, Solving(w), wjob[w] \in acked
               PROVE  FALSE
    BY DEF AckedCancelIsFinal
  <2>1. wjob[w] \in Jobs /\ st[wjob[w]] = "running"
    BY DEF IInv, TypeOK, Claims, Running, Solving
  <2>2. wjob[w] \in cancelled
    BY DEF CInv, Acked
  <2> QED BY <2>1, <2>2 DEF CInv, Mirrors, Terminal
<1> QED
  BY Invariance, ControlInvariance, <1>1, PTL
=============================================================================
