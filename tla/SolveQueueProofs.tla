-------------------------- MODULE SolveQueueProofs --------------------------
(***************************************************************************)
(* Proofs about the solve queue: its types, one active job per project,    *)
(* and one solve per project at a time (R35).                              *)
(*                                                                         *)
(* The argument for the last two: a job is in at most one place of the     *)
(* pipeline (an enqueue call, the rows boot has to restore, the queue, one *)
(* worker), so a claim never meets a job that already runs.                *)
(***************************************************************************)
EXTENDS SolveQueueProps, TLAPS

\* A worker has a job except while it waits for one.
Handed == \A w \in Workers : pc[w] = "get" <=> wjob[w] = None

\* Jobs that no worker may have seen yet.
Upstream(j) == j \in todo \/ call[j] \in {"none", "insert", "commit", "publish"}

\* A job is at most once in the queue and in the hands of a worker.
Pipeline ==
  /\ \A a, b \in 1 .. Len(q) : q[a] = q[b] => a = b
  /\ \A v, w \in Workers : wjob[v] = wjob[w] /\ wjob[v] # None => v = w
  /\ \A w \in Workers, a \in 1 .. Len(q) : q[a] # wjob[w]
  /\ \A j \in Jobs : Upstream(j) => /\ \A w \in Workers : wjob[w] # j
                                    /\ \A a \in 1 .. Len(q) : q[a] # j

\* How the enqueue calls, the table and the process go together.
Calls ==
  /\ \A j \in Jobs : j > next => call[j] = "none"
  /\ \A j \in Jobs : call[j] = "none" => j \notin resident
  /\ \A j \in Jobs : call[j] \in {"none", "insert", "commit"} => row[j] = "none"
  /\ phase # "up" =>
       \A j \in Jobs : call[j] \notin {"insert", "commit", "publish"}
  /\ phase # "booting" => todo = {}
  /\ \A j \in todo : call[j] # "none"
  /\ phase = "down" => resident = {} /\ q = <<>> /\ \A w \in Workers : wjob[w] = None

\* What a worker knows of its job at each step, and who works on a running job.
Running == {"mark", "markw", "solve"}
Claims ==
  /\ \A w \in Workers : pc[w] = "claim" =>
       wjob[w] \in cancelled \/ (wjob[w] \in resident /\ st[wjob[w]] = "queued")
  /\ \A w \in Workers : pc[w] \in Running =>
       wjob[w] \in resident /\ st[wjob[w]] = "running"
  /\ \A j \in resident : st[j] = "running" =>
       \E w \in Workers : wjob[w] = j /\ pc[w] \in Running \cup {"finish"}

\* The inductive invariant.
IInv == TypeOK /\ Handed /\ Pipeline /\ Calls /\ Claims /\ OneActivePerProject

-----------------------------------------------------------------------------
(* Type correctness                                                        *)

\* The initial state is well typed.
LEMMA TypeInit == Init => TypeOK
<1> SUFFICES ASSUME Init PROVE TypeOK
  OBVIOUS
<1>1. (CHOOSE p \in Projects : TRUE) \in Projects
  BY SetsAssumption
<1>2. None \in Jobs \cup {None} /\ 0 \in 0 .. MaxJobs
  BY BoundsAssumption
<1>3. q \in Seq(Jobs)
  BY DEF Init
<1> QED
  BY <1>1, <1>2, <1>3, SetsAssumption
  DEF Init, TypeOK, WorkerSteps, CallSteps, Status, Active, Terminal

\* Each action keeps every variable in its type.
LEMMA TypeStep == TypeOK /\ Handed /\ [Next]_vars => TypeOK'
<1> SUFFICES ASSUME TypeOK, Handed, [Next]_vars PROVE TypeOK'
  OBVIOUS
<1> USE DEF TypeOK, WorkerSteps, CallSteps, Status, Active, Terminal,
            jobVars, memVars, gateVars, workVars, enqVars, cliVars, opVars,
            procVars, histVars, tabVars, At, Goto, Lose, NoLoss
<1>1. ASSUME NEW p \in Projects, NEW k \in Kinds, Register(p, k)
      PROVE  TypeOK'
  <2>1. next + 1 \in Jobs /\ next' \in 0 .. MaxJobs
    BY <1>1, BoundsAssumption DEF Register, Jobs
  <2> QED BY <1>1, <2>1 DEF Register
<1>2. ASSUME NEW p \in Projects, NEW k \in Kinds, Enqueue(p, k) PROVE TypeOK'
  BY <1>1, <1>2 DEF Enqueue
<1>3. ASSUME NEW j \in Jobs, Requeue(j) PROVE TypeOK'
  BY <1>1, <1>3, SetsAssumption DEF Requeue
<1>4. ASSUME NEW j \in Jobs, InsertBuild(j) PROVE TypeOK'
  BY <1>4 DEF InsertBuild
<1>5. ASSUME NEW j \in Jobs, InsertCommit(j) PROVE TypeOK'
  BY <1>5 DEF InsertCommit
<1>6. ASSUME NEW j \in Jobs, InsertRaise(j) PROVE TypeOK'
  BY <1>6 DEF InsertRaise
<1>7. ASSUME NEW j \in Jobs, Publish(j) PROVE TypeOK'
  BY <1>7 DEF Publish
<1>8. ASSUME NEW w \in Workers, Get(w) PROVE TypeOK'
  <2>1. Head(q) \in Jobs /\ Tail(q) \in Seq(Jobs)
    BY <1>8 DEF Get
  <2> QED BY <1>8, <2>1 DEF Get
<1>9. ASSUME NEW w \in Workers, PassGate(w) PROVE TypeOK'
  BY <1>9 DEF PassGate
<1>10. ASSUME NEW w \in Workers, TakeSlot(w) PROVE TypeOK'
  BY <1>10 DEF TakeSlot, Dead
<1>11. ASSUME NEW w \in Workers, Claim(w) PROVE TypeOK'
  BY <1>11 DEF Claim
<1>12. ASSUME NEW w \in Workers, Mark(w) PROVE TypeOK'
  <2>1. wjob[w] \in Jobs
    BY <1>12 DEF Mark, Handed
  <2>2. row' \in [Jobs -> Status \cup {"none"}]
    BY <1>12, <2>1 DEF Mark, Store
  <2>3. pc' \in [Workers -> WorkerSteps]
    BY <1>12 DEF Mark, Start
  <2>4. begun' \in SUBSET Jobs
    BY <1>12, <2>1 DEF Mark, Start
  <2> QED BY <1>12, <2>2, <2>3, <2>4 DEF Mark, Start
<1>13. ASSUME NEW w \in Workers, MarkLost(w) PROVE TypeOK'
  BY <1>13 DEF MarkLost, Start, Handed
<1>14. ASSUME NEW w \in Workers, Solve(w) PROVE TypeOK'
  BY <1>14, SetsAssumption DEF Solve
<1>15. ASSUME NEW w \in Workers, Finish(w) PROVE TypeOK'
  BY <1>15 DEF Finish
<1>16. ASSUME NEW w \in Workers, Mirror(w) PROVE TypeOK'
  <2>1. row' \in [Jobs -> Status \cup {"none"}]
    BY <1>16 DEF Mirror, Store
  <2>2. pc' \in [Workers -> WorkerSteps]
    BY <1>16 DEF Mirror
  <2> QED BY <1>16, <2>1, <2>2 DEF Mirror
<1>17. ASSUME NEW w \in Workers, MirrorLost(w) PROVE TypeOK'
  BY <1>17 DEF MirrorLost, Handed
<1>18. ASSUME NEW w \in Workers, Release(w) PROVE TypeOK'
  BY <1>18 DEF Release
<1>19. ASSUME NEW j \in Jobs, Abort(j) PROVE TypeOK'
  BY <1>19 DEF Abort, Calling, AbortLocked, CancelQueued
<1>20. ASSUME NEW j \in Jobs, ClientLoad(j) PROVE TypeOK'
  BY <1>20 DEF ClientLoad, AfterMirror, Landed
<1>21. ASSUME NEW j \in Jobs, ClientCommit(j) PROVE TypeOK'
  BY <1>21 DEF ClientCommit, Store, AfterMirror, Landed
<1>22. ASSUME NEW j \in Jobs, ClientLost(j) PROVE TypeOK'
  BY <1>22 DEF ClientLost, AfterMirror
<1>23. ASSUME NEW j \in Jobs, Signal(j) PROVE TypeOK'
  BY <1>23 DEF Signal
<1>24. ASSUME NEW j \in Jobs, SweepJob(j) PROVE TypeOK'
  BY <1>24 DEF SweepJob, QueueOp, Calling, CancelQueued
<1>25. ASSUME NEW j \in Jobs, QuitJob(j) PROVE TypeOK'
  <2>1. CASE Calling(j) /\ AbortLocked(j) /\ UNCHANGED opVars
    BY <2>1 DEF Calling, AbortLocked, CancelQueued
  <2>2. CASE /\ QueueOp("quit") /\ j \notin resident
             /\ qlist' = qlist \ {j}
             /\ UNCHANGED <<memVars, gateVars, cliVars, sweep, quit, clearing,
                            doomed, tabVars>>
    BY <2>2 DEF QueueOp
  <2> QED BY <1>25, <2>1, <2>2 DEF QuitJob
<1>26. ASSUME SweepStart PROVE TypeOK'
  BY <1>26 DEF SweepStart, QueueOp
<1>27. ASSUME ClearMemory PROVE TypeOK'
  BY <1>27 DEF ClearMemory, QueueOp
<1>28. ASSUME ClearLoad PROVE TypeOK'
  BY <1>28 DEF ClearLoad, QueueOp
<1>29. ASSUME ClearTable PROVE TypeOK'
  BY <1>29 DEF ClearTable, QueueOp
<1>30. ASSUME Pause PROVE TypeOK'
  BY <1>30 DEF Pause, QueueOp
<1>31. ASSUME Resume PROVE TypeOK'
  BY <1>31 DEF Resume, QueueOp
<1>32. ASSUME QuitDrain PROVE TypeOK'
  BY <1>32 DEF QuitDrain, QueueOp
<1>33. ASSUME QuitSnapshot PROVE TypeOK'
  BY <1>33 DEF QuitSnapshot, QueueOp
<1>34. ASSUME QuitWait PROVE TypeOK'
  BY <1>34 DEF QuitWait, QueueOp
<1>35. ASSUME Die PROVE TypeOK'
  <2>1. q' \in Seq(Jobs)
    BY <1>35 DEF Die
  <2>2. call' \in [Jobs -> CallSteps]
    BY <1>35 DEF Die
  <2>3. /\ pc' \in [Workers -> WorkerSteps] /\ wjob' \in [Workers -> Jobs \cup {None}]
        /\ wend' \in [Workers -> Terminal]
    BY <1>35 DEF Die
  <2>4. /\ st' \in [Jobs -> Status] /\ built' \in [Jobs -> Status]
        /\ cval' \in [Jobs -> Status]
        /\ cpc' \in [Jobs -> {"idle", "load", "commit", "signal"}]
    BY <1>35 DEF Die
  <2>5. /\ resident' = {} /\ cancelled' = {} /\ stop' = {} /\ runningIds' = {}
        /\ csig' = {} /\ sweep' = {} /\ qlist' = {} /\ doomed' = {}
        /\ todo' = {} /\ asked' = {} /\ paused' = FALSE /\ draining' = FALSE
        /\ quit' = "no" /\ clearing' = "no" /\ phase' = "down"
    BY <1>35 DEF Die
  <2>6. /\ UNCHANGED <<jobVars, storage, known, begun, acked, tabVars>>
        /\ restarts' \in Nat
    BY <1>35 DEF Die
  <2> QED BY <2>1, <2>2, <2>3, <2>4, <2>5, <2>6
<1>36. ASSUME Boot PROVE TypeOK'
  BY <1>36 DEF Boot, AfterDeath
<1>37. ASSUME NEW j \in Jobs, BootJob(j) PROVE TypeOK'
  <2>1. Append(q, j) \in Seq(Jobs)
    OBVIOUS
  <2> QED BY <1>37, <2>1 DEF BootJob
<1>38. ASSUME BootDone PROVE TypeOK'
  BY <1>38 DEF BootDone
<1>39. CASE UNCHANGED vars
  BY <1>39 DEF vars
<1> QED
  BY <1>2, <1>3, <1>4, <1>5, <1>6, <1>7, <1>8, <1>9, <1>10, <1>11, <1>12,
     <1>13, <1>14, <1>15, <1>16, <1>17, <1>18, <1>19, <1>20, <1>21, <1>22,
     <1>23, <1>24, <1>25, <1>26, <1>27, <1>28, <1>29, <1>30, <1>31, <1>32,
     <1>33, <1>34, <1>35, <1>36, <1>37, <1>38, <1>39
  DEF Next, Enqueuing, Worker, WorkerLoss, Client, Booting

-----------------------------------------------------------------------------
(* The steps, by what they may change of the invariant's variables         *)

pipeVars == <<jobVars, q, runningIds, workVars, call, phase, todo>>

NoNewRow == \A j \in Jobs : row[j] = "none" => row'[j] = "none"

\* A step of a client call on job j: at most it cancels the queued job.
ClientStep(j) ==
  /\ UNCHANGED <<pipeVars, resident>> /\ NoNewRow
  /\ \/ UNCHANGED <<st, cancelled>>
     \/ /\ j \in resident /\ st[j] = "queued"
        /\ cancelled' = cancelled \cup {j}
        /\ st' = [st EXCEPT ![j] = "aborted"]

\* A control of the whole queue, or a stutter: at most it drops finished jobs.
ControlStep ==
  /\ UNCHANGED <<pipeVars, st, cancelled>> /\ NoNewRow
  /\ resident' = resident \/ resident' = {j \in resident : st[j] \notin Terminal}

\* Every step of a client call is a `ClientStep`.
LEMMA ClientSteps ==
  ASSUME TypeOK, NEW j \in Jobs,
         Abort(j) \/ Client(j) \/ ClientLost(j) \/ SweepJob(j) \/ QuitJob(j)
  PROVE  ClientStep(j)
<1> USE DEF ClientStep, NoNewRow, pipeVars, memVars, gateVars, enqVars, procVars,
            tabVars, opVars
<1>1. CASE Abort(j)
  BY <1>1 DEF Abort, Calling, AbortLocked, CancelQueued
<1>2. CASE ClientLoad(j)
  BY <1>2 DEF ClientLoad
<1>3. CASE ClientCommit(j)
  BY <1>3 DEF ClientCommit, Store, TypeOK
<1>4. CASE Signal(j)
  BY <1>4 DEF Signal
<1>5. CASE ClientLost(j)
  BY <1>5 DEF ClientLost
<1>6. CASE SweepJob(j)
  BY <1>6 DEF SweepJob, QueueOp, Calling, CancelQueued
<1>7. CASE QuitJob(j)
  BY <1>7 DEF QuitJob, QueueOp, Calling, AbortLocked, CancelQueued
<1> QED
  BY <1>1, <1>2, <1>3, <1>4, <1>5, <1>6, <1>7 DEF Client

\* Every control of the whole queue is a `ControlStep`.
LEMMA ControlSteps ==
  ASSUME TypeOK,
         \/ SweepStart \/ ClearMemory \/ ClearLoad \/ ClearTable \/ Pause \/ Resume
         \/ QuitDrain \/ QuitSnapshot \/ QuitWait \/ UNCHANGED vars
  PROVE  ControlStep
<1> USE DEF ControlStep, NoNewRow, pipeVars, memVars, gateVars, enqVars,
            procVars, tabVars, QueueOp
<1>1. CASE SweepStart \/ Pause \/ Resume \/ QuitDrain \/ QuitSnapshot \/ QuitWait
  BY <1>1 DEF SweepStart, Pause, Resume, QuitDrain, QuitSnapshot, QuitWait
<1>2. CASE ClearMemory
  BY <1>2 DEF ClearMemory
<1>3. CASE ClearLoad
  BY <1>3 DEF ClearLoad
<1>4. CASE ClearTable
  BY <1>4 DEF ClearTable
<1>5. CASE UNCHANGED vars
  BY <1>5 DEF vars
<1> QED
  BY <1>1, <1>2, <1>3, <1>4, <1>5

\* Every step, as one of the groups the lemmas below treat.
LEMMA Steps ==
  ASSUME TypeOK, [Next]_vars
  PROVE  \/ \E p \in Projects, k \in Kinds : Register(p, k)
         \/ \E j \in Jobs : \/ InsertBuild(j) \/ InsertCommit(j) \/ InsertRaise(j)
                            \/ Publish(j) \/ ClientStep(j) \/ BootJob(j)
         \/ \E w \in Workers : Worker(w) \/ WorkerLoss(w)
         \/ ControlStep \/ Die \/ Boot \/ BootDone
<1>1. ASSUME NEW p \in Projects, NEW k \in Kinds, Enqueue(p, k)
      PROVE  Register(p, k)
  BY <1>1 DEF Enqueue
<1>2. ASSUME NEW j \in Jobs, Requeue(j)
      PROVE  Register(proj[j], "solve") /\ proj[j] \in Projects /\ "solve" \in Kinds
  BY <1>2, SetsAssumption DEF Requeue, TypeOK
<1> QED
  BY <1>1, <1>2, ClientSteps, ControlSteps DEF Next, Enqueuing, Booting

\* A worker's step on the job it has: neither a pop nor a release.
Busy(w) ==
  /\ UNCHANGED <<jobVars, resident, q, wjob, call, phase, todo>> /\ NoNewRow
  /\ pc[w] # "get"
  /\ \E t \in WorkerSteps \ {"get"} : pc' = [pc EXCEPT ![w] = t]

\* A dispatcher's step pops a job, releases one, or works on the one it has.
LEMMA BusySteps ==
  ASSUME TypeOK, NEW w \in Workers, Worker(w) \/ WorkerLoss(w)
  PROVE  Get(w) \/ Release(w) \/ Busy(w)
<1> USE DEF Busy, NoNewRow, At, Goto, WorkerSteps, memVars, gateVars, enqVars,
            procVars, tabVars
<1>1. CASE PassGate(w)
  BY <1>1 DEF PassGate
<1>2. CASE TakeSlot(w)
  BY <1>2 DEF TakeSlot
<1>3. CASE Claim(w)
  BY <1>3 DEF Claim
<1>4. CASE Mark(w)
  BY <1>4 DEF Mark, Start, Store, TypeOK
<1>5. CASE MarkLost(w)
  BY <1>5 DEF MarkLost, Start
<1>6. CASE Solve(w)
  BY <1>6 DEF Solve
<1>7. CASE Finish(w)
  BY <1>7 DEF Finish
<1>8. CASE Mirror(w)
  BY <1>8 DEF Mirror, Store, TypeOK
<1>9. CASE MirrorLost(w)
  BY <1>9 DEF MirrorLost
<1> QED
  BY <1>1, <1>2, <1>3, <1>4, <1>5, <1>6, <1>7, <1>8, <1>9 DEF Worker, WorkerLoss

\* Jobs are numbered from 1, so `None` is none of them.
LEMMA NoneIsNoJob == \A j \in Jobs : j # None
BY DEF Jobs, None

-----------------------------------------------------------------------------
(* One place in the pipeline                                               *)

\* A thread takes a job with its pop and gives it back with its release.
LEMMA HandedStep ==
  ASSUME TypeOK, Handed, [Next]_vars
  PROVE  Handed'
<1> USE DEF Handed, workVars, gateVars, jobVars, enqVars, memVars
<1>1. ASSUME NEW p \in Projects, NEW k \in Kinds, Register(p, k)
      PROVE  Handed'
  BY <1>1 DEF Register
<1>2. ASSUME NEW j \in Jobs,
             \/ InsertBuild(j) \/ InsertCommit(j) \/ InsertRaise(j) \/ Publish(j)
             \/ ClientStep(j) \/ BootJob(j)
      PROVE  Handed'
  BY <1>2 DEF InsertBuild, InsertCommit, InsertRaise, Publish, ClientStep, BootJob,
              pipeVars
<1>3. ASSUME NEW w \in Workers, Get(w) PROVE Handed'
  <2>1. Head(q) \in Jobs
    BY <1>3 DEF Get, TypeOK
  <2> QED BY <1>3, <2>1, NoneIsNoJob DEF Get, At, Goto, TypeOK
<1>4. ASSUME NEW w \in Workers, Release(w) PROVE Handed'
  BY <1>4 DEF Release, At, TypeOK
<1>5. ASSUME NEW w \in Workers, Busy(w) PROVE Handed'
  BY <1>5 DEF Busy, TypeOK
<1>6. CASE ControlStep \/ Boot \/ BootDone
  BY <1>6 DEF ControlStep, Boot, BootDone, pipeVars
<1>7. CASE Die
  BY <1>7 DEF Die
<1> QED
  BY <1>1, <1>2, <1>3, <1>4, <1>5, <1>6, <1>7, Steps, BusySteps

\* Calls, rows and the process stay together, also over a death and a boot.
LEMMA CallsStep ==
  ASSUME TypeOK, Calls, [Next]_vars
  PROVE  Calls'
<1> USE DEF Calls, workVars, gateVars, jobVars, enqVars, memVars, tabVars, procVars
<1>1. ASSUME NEW p \in Projects, NEW k \in Kinds, Register(p, k)
      PROVE  Calls'
  <2>1. next + 1 \in Jobs
    BY <1>1, BoundsAssumption DEF Register, Jobs, TypeOK
  <2> QED BY <1>1, <2>1 DEF Register, TypeOK, Jobs
<1>2. ASSUME NEW j \in Jobs, InsertBuild(j) PROVE Calls'
  BY <1>2 DEF InsertBuild, TypeOK
<1>3. ASSUME NEW j \in Jobs, InsertCommit(j) PROVE Calls'
  BY <1>3 DEF InsertCommit, TypeOK
<1>4. ASSUME NEW j \in Jobs, InsertRaise(j) PROVE Calls'
  BY <1>4 DEF InsertRaise, TypeOK
<1>5. ASSUME NEW j \in Jobs, Publish(j) PROVE Calls'
  BY <1>5 DEF Publish, TypeOK
<1>6. ASSUME NEW j \in Jobs, ClientStep(j) PROVE Calls'
  BY <1>6 DEF ClientStep, NoNewRow, pipeVars, TypeOK
<1>7. ASSUME NEW j \in Jobs, BootJob(j) PROVE Calls'
  BY <1>7 DEF BootJob, First, TypeOK
<1>8. ASSUME NEW w \in Workers, Get(w) PROVE Calls'
  BY <1>8 DEF Get, TypeOK
<1>9. ASSUME NEW w \in Workers, Release(w) PROVE Calls'
  BY <1>9 DEF Release, TypeOK
<1>10. ASSUME NEW w \in Workers, Busy(w) PROVE Calls'
  BY <1>10 DEF Busy, NoNewRow, TypeOK
<1>11. CASE ControlStep
  BY <1>11 DEF ControlStep, NoNewRow, pipeVars, TypeOK
<1>12. CASE Die
  BY <1>12 DEF Die, TypeOK
<1>13. CASE Boot
  BY <1>13 DEF Boot, AfterDeath, TypeOK
<1>14. CASE BootDone
  BY <1>14 DEF BootDone, TypeOK
<1> QED
  BY <1>1, <1>2, <1>3, <1>4, <1>5, <1>6, <1>7, <1>8, <1>9, <1>10, <1>11, <1>12,
     <1>13, <1>14, Steps, BusySteps

\* A job moves from one place of the pipeline to the next, and is never copied.
LEMMA PipelineStep ==
  ASSUME TypeOK, Handed, Calls, Pipeline, [Next]_vars
  PROVE  Pipeline'
<1> USE DEF Pipeline, Upstream, workVars, gateVars, jobVars, enqVars, memVars,
            tabVars, procVars
<1>1. ASSUME NEW p \in Projects, NEW k \in Kinds, Register(p, k)
      PROVE  Pipeline'
  <2>1. next + 1 \in Jobs /\ call[next + 1] = "none"
    BY <1>1, BoundsAssumption DEF Register, Jobs, TypeOK, Calls
  <2> QED BY <1>1, <2>1 DEF Register, TypeOK
<1>2. ASSUME NEW j \in Jobs, InsertBuild(j) \/ InsertCommit(j) \/ InsertRaise(j)
      PROVE  Pipeline'
  BY <1>2 DEF InsertBuild, InsertCommit, InsertRaise, TypeOK
<1>3. ASSUME NEW j \in Jobs, Publish(j) PROVE Pipeline'
  <2>1. phase = "up" /\ todo = {}
    BY <1>3 DEF Publish, Calls
  <2>2. /\ Len(q') = Len(q) + 1
        /\ \A a \in 1 .. Len(q) : q'[a] = q[a]
        /\ q'[Len(q) + 1] = j
    BY <1>3 DEF Publish, TypeOK
  <2>3. call[j] = "publish" /\ call' = [call EXCEPT ![j] = "done"] /\ UNCHANGED <<wjob, todo>>
    BY <1>3 DEF Publish
  <2>4. (\A w \in Workers : wjob[w] # j) /\ (\A a \in 1 .. Len(q) : q[a] # j)
    BY <2>3
  <2>5. Len(q) \in Nat /\ \A i \in Jobs : Upstream(i)' => Upstream(i) /\ i # j
    BY <2>1, <2>3 DEF TypeOK
  <2>6. \A a \in 1 .. Len(q') : a \in 1 .. Len(q) \/ a = Len(q) + 1
    BY <2>2, <2>5
  <2> HIDE DEF Upstream
  <2> QED BY <2>2, <2>3, <2>4, <2>5, <2>6
<1>4. ASSUME NEW j \in Jobs, BootJob(j) PROVE Pipeline'
  <2>1. j \in todo /\ todo' = todo \ {j} /\ UNCHANGED <<wjob, call>>
    BY <1>4 DEF BootJob, First
  <2>2. call[j] \notin {"none", "insert", "commit", "publish"}
    BY <1>4, <2>1 DEF BootJob, Calls
  <2>3. CASE UNCHANGED q
    BY <2>1, <2>3
  <2>4. CASE q' = Append(q, j)
    <3>1. /\ Len(q') = Len(q) + 1
          /\ \A a \in 1 .. Len(q) : q'[a] = q[a]
          /\ q'[Len(q) + 1] = j
      BY <2>4 DEF TypeOK
    <3>2. (\A w \in Workers : wjob[w] # j) /\ (\A a \in 1 .. Len(q) : q[a] # j)
      BY <2>1
    <3>3. Len(q) \in Nat /\ \A i \in Jobs : Upstream(i)' => Upstream(i) /\ i # j
      BY <2>1, <2>2 DEF TypeOK
    <3>4. \A a \in 1 .. Len(q') : a \in 1 .. Len(q) \/ a = Len(q) + 1
      BY <3>1, <3>3
    <3> HIDE DEF Upstream
    <3> QED BY <2>1, <3>1, <3>2, <3>3, <3>4
  <2> QED BY <1>4, <2>3, <2>4 DEF BootJob
<1>5. ASSUME NEW w \in Workers, Get(w) PROVE Pipeline'
  <2>1. /\ Len(q) \in Nat /\ Len(q) > 0 /\ Len(q') = Len(q) - 1
        /\ \A a \in 1 .. Len(q') : q'[a] = q[a + 1]
        /\ wjob' = [wjob EXCEPT ![w] = q[1]]
    BY <1>5 DEF Get, TypeOK
  <2>2. \A a \in 1 .. Len(q') : a + 1 \in 1 .. Len(q) /\ 1 \in 1 .. Len(q)
    BY <2>1
  <2>3. UNCHANGED <<call, todo>>
    BY <1>5 DEF Get
  <2> QED BY <2>1, <2>2, <2>3 DEF TypeOK
<1>6. ASSUME NEW w \in Workers, Release(w) PROVE Pipeline'
  <2>1. \A a \in 1 .. Len(q) : q[a] \in Jobs
    BY DEF TypeOK
  <2> QED BY <1>6, <2>1, NoneIsNoJob DEF Release, TypeOK
<1>7. ASSUME NEW w \in Workers, Busy(w) PROVE Pipeline'
  BY <1>7 DEF Busy
<1>8. ASSUME NEW j \in Jobs, ClientStep(j) \/ ControlStep PROVE Pipeline'
  BY <1>8 DEF ClientStep, ControlStep, pipeVars
<1>9. CASE ControlStep
  BY <1>9 DEF ControlStep, pipeVars
<1>10. CASE Die
  BY <1>10, NoneIsNoJob DEF Die
<1>11. CASE Boot
  <2>1. q = <<>> /\ (\A w \in Workers : wjob[w] = None) /\ UNCHANGED <<q, wjob>>
    BY <1>11 DEF Boot, Calls
  <2> QED BY <2>1, NoneIsNoJob
<1>12. CASE BootDone
  BY <1>12 DEF BootDone
<1> QED
  BY <1>1, <1>2, <1>3, <1>4, <1>5, <1>6, <1>7, <1>8, <1>9, <1>10, <1>11, <1>12,
     Steps, BusySteps

-----------------------------------------------------------------------------
(* What the workers know of their jobs                                     *)

\* No step of anyone else disturbs what a thread knows of its job.
LEMMA ClaimsStep ==
  ASSUME TypeOK, Handed, Calls, Pipeline, Claims, [Next]_vars
  PROVE  Claims'
<1> USE DEF Claims, Running, workVars, gateVars, jobVars, enqVars, memVars,
            tabVars, procVars, At, Goto
<1>1. ASSUME NEW p \in Projects, NEW k \in Kinds, Register(p, k)
      PROVE  Claims'
  <2>1. /\ next + 1 \in Jobs /\ call[next + 1] = "none"
        /\ \A w \in Workers : wjob[w] # next + 1
    BY <1>1, BoundsAssumption DEF Register, Jobs, TypeOK, Calls, Pipeline, Upstream
  <2> QED BY <1>1, <2>1 DEF Register, TypeOK
<1>2. ASSUME NEW j \in Jobs, InsertBuild(j) \/ InsertCommit(j) \/ Publish(j)
      PROVE  Claims'
  BY <1>2 DEF InsertBuild, InsertCommit, Publish
<1>3. ASSUME NEW j \in Jobs, InsertRaise(j) PROVE Claims'
  <2>1. \A w \in Workers : wjob[w] # j
    BY <1>3 DEF InsertRaise, Pipeline, Upstream
  <2> QED BY <1>3, <2>1 DEF InsertRaise
<1>4. ASSUME NEW j \in Jobs, BootJob(j) PROVE Claims'
  <2>1. \A w \in Workers : wjob[w] # j
    BY <1>4 DEF BootJob, First, Pipeline, Upstream
  <2> QED BY <1>4, <2>1 DEF BootJob, TypeOK
<1>5. ASSUME NEW j \in Jobs, ClientStep(j) PROVE Claims'
  <2>1. UNCHANGED <<pc, wjob, resident>>
    BY <1>5 DEF ClientStep, pipeVars
  <2>2. CASE UNCHANGED <<st, cancelled>>
    BY <2>1, <2>2
  <2>3. CASE /\ st[j] = "queued" /\ cancelled' = cancelled \cup {j}
             /\ st' = [st EXCEPT ![j] = "aborted"]
    <3>1. st'[j] = "aborted" /\ \A i \in Jobs : i # j => st'[i] = st[i]
      BY <2>3 DEF TypeOK
    <3>2. resident \subseteq Jobs
      BY DEF TypeOK
    <3> QED BY <2>1, <2>3, <3>1, <3>2
  <2> QED BY <1>5, <2>2, <2>3 DEF ClientStep
<1>6. CASE ControlStep
  BY <1>6 DEF ControlStep, pipeVars, TypeOK, Terminal
<1>7. CASE Die
  BY <1>7 DEF Die
<1>8. CASE Boot \/ BootDone
  BY <1>8 DEF Boot, BootDone
<1>9. ASSUME NEW w \in Workers, Worker(w) \/ WorkerLoss(w) PROVE Claims'
  <2> USE DEF TypeOK
  <2>1. CASE Get(w)
    <3>1. /\ \A v \in Workers : v # w => pc'[v] = pc[v] /\ wjob'[v] = wjob[v]
          /\ pc[w] = "get" /\ pc'[w] = "gate"
      BY <2>1 DEF Get
    <3>2. UNCHANGED <<resident, st, cancelled>>
      BY <2>1 DEF Get
    <3> HIDE DEF TypeOK
    <3> QED BY <3>1, <3>2
  <2>2. CASE PassGate(w)
    BY <2>2 DEF PassGate
  <2>3. CASE TakeSlot(w)
    \* The job is not running: its only worker is w, at the slot.
    <3>1. wjob[w] \in resident => st[wjob[w]] # "running"
      BY <2>3, NoneIsNoJob DEF TakeSlot, Pipeline
    <3> QED BY <2>3, <3>1 DEF TakeSlot, Dead, Status, Active
  <2>4. CASE Claim(w)
    \* No other worker has the job, so no other worker's knowledge is disturbed.
    <3>1. \A v \in Workers : v # w => wjob[v] # wjob[w]
      BY <2>4 DEF Claim, Pipeline, Handed
    <3>2. wjob[w] \in Jobs
      BY <2>4 DEF Claim, Handed
    <3>3. CASE st' = st
      <4>1. /\ \A v \in Workers : v # w => pc'[v] = pc[v]
            /\ pc[w] = "claim" /\ pc'[w] \in {"finish", "release", "mark"}
            /\ UNCHANGED <<resident, cancelled, wjob>>
        BY <2>4 DEF Claim
      <4>2. pc'[w] = "mark" => wjob[w] \in resident /\ st[wjob[w]] = "running"
        BY <2>4, <3>2, <3>3 DEF Claim, Verdict
      <4> HIDE DEF TypeOK
      <4> QED BY <3>3, <4>1, <4>2
    <3>4. CASE Verdict(wjob[w]) = "claimed"
      <4>1. wjob[w] \notin cancelled
        BY <3>4 DEF Verdict
      <4>2. wjob[w] \in resident
        BY <2>4, <4>1 DEF Claim
      <4>3. st' = [st EXCEPT ![wjob[w]] = "running"] /\ pc' = [pc EXCEPT ![w] = "mark"]
        BY <2>4, <3>4 DEF Claim
      <4> QED BY <2>4, <3>1, <3>2, <4>2, <4>3 DEF Claim
    <3> QED BY <2>4, <3>3, <3>4 DEF Claim
  <2>5. CASE Mark(w) \/ MarkLost(w)
    BY <2>5 DEF Mark, MarkLost, Start
  <2>6. CASE Solve(w)
    BY <2>6 DEF Solve
  <2>7. CASE Finish(w)
    <3>1. \A v \in Workers : v # w => wjob[v] # wjob[w]
      BY <2>7 DEF Finish, Pipeline, Handed
    <3>2. st' = [st EXCEPT ![wjob[w]] = wend[w]] /\ wend[w] \in Terminal
      BY <2>7 DEF Finish
    <3>3. wjob[w] \in Jobs
      BY <2>7 DEF Finish, Handed
    <3> QED BY <2>7, <3>1, <3>2, <3>3 DEF Finish, Terminal
  <2>8. CASE Mirror(w) \/ MirrorLost(w)
    BY <2>8 DEF Mirror, MirrorLost
  <2>9. CASE Release(w)
    <3>1. /\ pc[w] = "release" /\ pc'[w] = "get" /\ wjob'[w] = None
          /\ \A v \in Workers : v # w => /\ wjob'[v] = wjob[v]
                                         /\ pc'[v] \in {pc[v], "slot"}
                                         /\ pc'[v] # pc[v] => pc[v] = "wait"
      BY <2>9 DEF Release
    <3>2. UNCHANGED <<resident, cancelled, st>>
      BY <2>9 DEF Release
    <3> HIDE DEF TypeOK
    <3> QED BY <3>1, <3>2
  <2> QED
    BY <1>9, <2>1, <2>2, <2>3, <2>4, <2>5, <2>6, <2>7, <2>8, <2>9
    DEF Worker, WorkerLoss
<1> QED
  BY <1>1, <1>2, <1>3, <1>4, <1>5, <1>6, <1>7, <1>8, <1>9, Steps

-----------------------------------------------------------------------------
(* One active job per project, one solve per project                       *)

\* A step that adds no active job and moves none to another project keeps the
\* invariant.
LEMMA FewerActive ==
  ASSUME OneActivePerProject,
         \A i \in resident' :
           st'[i] \in Active => i \in resident /\ st[i] \in Active /\ proj'[i] = proj[i]
  PROVE  OneActivePerProject'
BY DEF OneActivePerProject

\* A job becomes active only where no other job of its project is.
LEMMA OneActiveStep ==
  ASSUME TypeOK, Handed, Calls, Pipeline, Claims, OneActivePerProject, [Next]_vars
  PROVE  OneActivePerProject'
<1> USE DEF workVars, gateVars, jobVars, enqVars, memVars, tabVars, procVars
<1>1. ASSUME NEW p \in Projects, NEW k \in Kinds, Register(p, k)
      PROVE  OneActivePerProject'
  <2>1. next + 1 \in Jobs /\ next + 1 \notin resident
    BY <1>1, BoundsAssumption DEF Register, Jobs, TypeOK, Calls
  <2>2. /\ resident' = resident \cup {next + 1} /\ proj'[next + 1] = p
        /\ \A i \in resident : proj'[i] = proj[i] /\ st'[i] = st[i]
    BY <1>1, <2>1 DEF Register, TypeOK
  <2>3. \A i \in resident : st[i] \in Active => proj[i] # p
    BY <1>1 DEF Register, ActiveJob
  <2> QED BY <2>1, <2>2, <2>3 DEF OneActivePerProject
<1>2. ASSUME NEW j \in Jobs,
             InsertBuild(j) \/ InsertCommit(j) \/ InsertRaise(j) \/ Publish(j)
      PROVE  OneActivePerProject'
  BY <1>2, FewerActive DEF InsertBuild, InsertCommit, InsertRaise, Publish
<1>3. ASSUME NEW j \in Jobs, ClientStep(j) PROVE OneActivePerProject'
  <2>1. \A i \in resident : st'[i] \in Active => st[i] \in Active
    BY <1>3 DEF ClientStep, Active, TypeOK
  <2> QED BY <1>3, <2>1, FewerActive DEF ClientStep, pipeVars
<1>4. ASSUME NEW j \in Jobs, BootJob(j) PROVE OneActivePerProject'
  <2>1. CASE UNCHANGED <<resident, st>>
    BY <1>4, <2>1, FewerActive DEF BootJob
  <2>2. CASE /\ ~ActiveJob(proj[j])
             /\ resident' = resident \cup {j} /\ st' = [st EXCEPT ![j] = "queued"]
    <3>1. \A i \in resident : proj[i] = proj[j] => st[i] \notin Active
      BY <2>2 DEF ActiveJob
    <3>2. /\ UNCHANGED proj
          /\ \A i \in resident : i # j => st'[i] = st[i]
      BY <1>4, <2>2 DEF BootJob, TypeOK
    <3> QED BY <2>2, <3>1, <3>2 DEF OneActivePerProject
  <2> QED BY <1>4, <2>1, <2>2 DEF BootJob
<1>5. CASE ControlStep
  BY <1>5, FewerActive DEF ControlStep, pipeVars
<1>6. CASE Die
  BY <1>6, FewerActive DEF Die
<1>7. CASE Boot \/ BootDone
  BY <1>7, FewerActive DEF Boot, BootDone
<1>8. ASSUME NEW w \in Workers, Worker(w) \/ WorkerLoss(w)
      PROVE  OneActivePerProject'
  <2>1. CASE Claim(w)
    \* The claim turns a job that was queued, so active, into a running one.
    <3>1. CASE st' = st
      BY <2>1, <3>1, FewerActive DEF Claim
    <3>2. CASE Verdict(wjob[w]) = "claimed"
      <4>1. wjob[w] \in resident /\ st[wjob[w]] \in Active
        BY <2>1, <3>2 DEF Claim, Claims, Verdict, At, Active
      <4>2. /\ UNCHANGED <<proj, resident>>
            /\ \A i \in resident : i # wjob[w] => st'[i] = st[i]
        BY <2>1, <3>2 DEF Claim, TypeOK
      <4> QED BY <4>1, <4>2, FewerActive
    <3> QED BY <2>1, <3>1, <3>2 DEF Claim
  <2>2. CASE Finish(w)
    <3>1. \A i \in resident : st'[i] \in Active => st[i] \in Active
      BY <2>2 DEF Finish, TypeOK, Terminal, Active
    <3> QED BY <2>2, <3>1, FewerActive DEF Finish
  <2>3. CASE ~Claim(w) /\ ~Finish(w)
    <3>1. UNCHANGED <<proj, resident, st>>
      BY <1>8, <2>3 DEF Worker, WorkerLoss, Get, PassGate, TakeSlot, Mark, MarkLost,
                        Start, Solve, Mirror, MirrorLost, Release
    <3> QED BY <3>1, FewerActive
  <2> QED BY <2>1, <2>2, <2>3
<1> QED
  BY <1>1, <1>2, <1>3, <1>4, <1>5, <1>6, <1>7, <1>8, Steps

\* The initial state satisfies the invariant.
LEMMA InvInit == Init => IInv
<1> SUFFICES ASSUME Init PROVE IInv
  OBVIOUS
<1>1. TypeOK
  BY TypeInit
<1>2. Handed
  BY DEF Init, Handed
<1>3. Pipeline
  BY NoneIsNoJob DEF Init, Pipeline
<1>4. Calls
  BY DEF Init, Calls
<1>5. Claims /\ OneActivePerProject
  BY DEF Init, Claims, Running, OneActivePerProject
<1> QED
  BY <1>1, <1>2, <1>3, <1>4, <1>5 DEF IInv

\* Every step keeps the invariant.
LEMMA InvStep == IInv /\ [Next]_vars => IInv'
BY TypeStep, HandedStep, CallsStep, PipelineStep, ClaimsStep, OneActiveStep
DEF IInv

\* The inductive invariant holds of every reachable state.
THEOREM Invariance == Spec => []IInv
BY InvInit, InvStep, PTL DEF Spec

\* Every variable of the queue keeps its type, for any number of projects,
\* kinds, threads, jobs, restarts and faults.
THEOREM TypeCorrect == Spec => []TypeOK
<1>1. IInv => TypeOK
  BY DEF IInv
<1> QED
  BY Invariance, <1>1, PTL

\* However enqueues, requeues, cancels, clears, crashes and boots interleave, a
\* project never has two jobs that are queued or running.
THEOREM OneActive == Spec => []OneActivePerProject
<1>1. IInv => OneActivePerProject
  BY DEF IInv
<1> QED
  BY Invariance, <1>1, PTL

\* R35: no two dispatcher threads ever solve one project at the same time.
THEOREM Exclusive == Spec => []ExclusiveSolve
<1>1. IInv => ExclusiveSolve
  <2> SUFFICES ASSUME IInv, NEW v \in Workers, NEW w \in Workers,
                      Solving(v), Solving(w), proj[wjob[v]] = proj[wjob[w]]
               PROVE  v = w
    BY DEF ExclusiveSolve
  <2>1. /\ wjob[v] \in resident /\ st[wjob[v]] = "running"
        /\ wjob[w] \in resident /\ st[wjob[w]] = "running"
    BY DEF IInv, Claims, Running, Solving
  <2>2. wjob[v] = wjob[w]
    BY <2>1 DEF IInv, OneActivePerProject, Active
  <2>3. wjob[v] # None
    BY <2>1, NoneIsNoJob DEF IInv, TypeOK
  <2> QED BY <2>2, <2>3 DEF IInv, Pipeline
<1> QED
  BY Invariance, <1>1, PTL
=============================================================================
