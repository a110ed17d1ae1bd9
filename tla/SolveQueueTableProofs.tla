------------------------ MODULE SolveQueueTableProofs ------------------------
(***************************************************************************)
(* Proofs about the solve queue and its table: the backlog survives quits  *)
(* and boots, only runnable jobs run, table and memory agree, no job is    *)
(* solved twice, and a queue whose table loses nothing implements          *)
(* SolveOnce.  They build on the invariants of SolveQueueProofs and        *)
(* SolveQueueControlProofs.                                                *)
(***************************************************************************)
EXTENDS SolveQueueControlProofs

\* What this process holds in memory it can run.
Runnable ==
  /\ "solve" \in known
  /\ \A j \in resident : proj[j] \in storage /\ kind[j] \in known

\* A thread behind its runner ends a running or a cancelled job, and mirrors the
\* status it has set; a client call never works on a job that waits.
Endings ==
  /\ \A w \in Workers : pc[w] = "finish" => st[wjob[w]] = "running" \/ wjob[w] \in cancelled
  /\ \A w \in Workers : pc[w] \in {"mirror", "mirrorw"} => st[wjob[w]] = wend[w]
  /\ \A j \in Jobs : cpc[j] # "idle" => st[j] # "queued"

\* A clear deletes no row of a job that waits.
Clears ==
  /\ phase # "up" => doomed = {} /\ ~draining
  /\ \A j \in doomed :
       /\ call[j] # "none"
       /\ j \in resident => /\ call[j] \notin {"insert", "commit"}
                            /\ st[j] # "queued" \/ row[j] # "queued"

\* A job that waits is inserted as `queued`, and boot restores queued rows only.
Durable ==
  /\ \A j \in Jobs : call[j] = "commit" /\ st[j] = "queued" => built[j] = "queued"
  /\ \A j \in todo : row[j] = "queued"
  /\ WaitingIsDurable

\* Once a job nobody tried to stop has ended, its enqueue call is over, and the
\* row says so or the thread that ended it has still to mirror it.
Untouched == resident \ (lossy \cup cancelled \cup asked)
Mirrored ==
  \A j \in Untouched :
    /\ st[j] \in Terminal =>
         /\ call[j] \notin {"insert", "commit", "publish"}
         /\ \/ row[j] \in {st[j], "none"}
            \/ \E w \in Workers : wjob[w] = j /\ pc[w] \in {"mirror", "mirrorw"}
    /\ cpc[j] = "commit" => cval[j] = st[j]

\* While a boot is under way, a queued row is still to come, or its project has
\* a job; a row still to come has none in memory.
Restoring ==
  /\ \A j \in todo : j \notin resident
  /\ phase = "booting" =>
       \A j \in Jobs \ lossy : row[j] = "queued" =>
         j \in todo \/ \E i \in resident : proj[i] = proj[j]

\* A job that was ever solved, with every write landed, is nowhere on the way to
\* a runner, in this process or in the table.
Before == {"gate", "slot", "wait", "claim", "mark", "markw"}
Spent ==
  \A j \in begun \ lossy :
    /\ row[j] # "queued" /\ j \notin todo
    /\ call[j] \notin {"none", "insert", "commit", "publish"}
    /\ \A a \in 1 .. Len(q) : q[a] # j
    /\ \A w \in Workers : wjob[w] = j => pc[w] \notin Before

\* But for a job asked to stop while it ran: the row of one that waits or runs has
\* not ended, and no call is about to write a live status.
Lively ==
  /\ \A j \in resident \ asked : st[j] \in Active => row[j] \notin Terminal
  /\ \A j \in Jobs \ asked : cpc[j] = "commit" => cval[j] \in Terminal

TInv == /\ Runnable /\ Endings /\ Clears /\ Durable
        /\ Mirrored /\ Restoring /\ Spent /\ Lively

-----------------------------------------------------------------------------
(* What a step may do to a row                                             *)

\* Every cause for which the row of job j may change.
RowChange(j) ==
  \/ row'[j] = row[j]
  \/ call[j] = "commit" /\ call'[j] = "publish" /\ row'[j] = built[j]
  \/ \E w \in Workers : pc[w] = "markw" /\ wjob[w] = j /\ row'[j] \in {"running", "none"}
  \/ \E w \in Workers : pc[w] = "mirrorw" /\ wjob[w] = j /\ row'[j] \in {wend[w], "none"}
  \/ cpc[j] = "commit" /\ row'[j] \in {cval[j], "none"}
  \/ phase = "up" /\ j \in doomed /\ row'[j] = "none"
  \/ phase = "down" /\ row[j] = "running" /\ row'[j] = "interrupted"
  \/ phase = "booting" /\ j \in todo /\ j \notin todo' /\ row'[j] = "failed"

\* There are no others.
LEMMA RowChanges ==
  ASSUME TypeOK, Handed, [Next]_vars
  PROVE  \A j \in Jobs : RowChange(j)
<1> USE DEF RowChange, jobVars, memVars, gateVars, workVars, enqVars, cliVars,
            opVars, procVars, histVars, tabVars
<1> SUFFICES ASSUME NEW i \in Jobs PROVE RowChange(i)
  OBVIOUS
<1>1. CASE UNCHANGED row
  BY <1>1
<1>2. ASSUME NEW j \in Jobs, InsertCommit(j) PROVE RowChange(i)
  BY <1>2 DEF InsertCommit, TypeOK
<1>3. ASSUME NEW w \in Workers, Mark(w) PROVE RowChange(i)
  BY <1>1, <1>3 DEF Mark, At, Store, TypeOK
<1>4. ASSUME NEW w \in Workers, Mirror(w) PROVE RowChange(i)
  BY <1>1, <1>4 DEF Mirror, At, Store, TypeOK
<1>5. ASSUME NEW j \in Jobs, ClientCommit(j) PROVE RowChange(i)
  BY <1>5 DEF ClientCommit, Store, TypeOK
<1>6. CASE ClearTable
  BY <1>6 DEF ClearTable, QueueOp, TypeOK
<1>7. CASE Boot
  BY <1>7 DEF Boot, AfterDeath, TypeOK
<1>8. ASSUME NEW j \in Jobs, BootJob(j) PROVE RowChange(i)
  BY <1>8 DEF BootJob, First, TypeOK
<1>9. CASE /\ ~\E j \in Jobs : InsertCommit(j) \/ ClientCommit(j) \/ BootJob(j)
           /\ ~\E w \in Workers : Mark(w) \/ Mirror(w)
           /\ ~ClearTable /\ ~Boot
  <2>1. UNCHANGED row
    <3>1. ASSUME NEW p \in Projects, NEW k \in Kinds, Register(p, k)
          PROVE  UNCHANGED row
      BY <3>1 DEF Register
    <3>2. ASSUME NEW j \in Jobs, InsertBuild(j) \/ InsertRaise(j) \/ Publish(j)
          PROVE  UNCHANGED row
      BY <3>2 DEF InsertBuild, InsertRaise, Publish
    <3>3. ASSUME NEW j \in Jobs, Abort(j) \/ SweepJob(j) \/ QuitJob(j)
          PROVE  UNCHANGED row
      BY <3>3 DEF Abort, SweepJob, QuitJob, Calling, QueueOp
    <3>4. ASSUME NEW j \in Jobs, ClientLoad(j) \/ ClientLost(j) \/ Signal(j)
          PROVE  UNCHANGED row
      BY <3>4 DEF ClientLoad, ClientLost, Signal
    <3>5. ASSUME NEW w \in Workers, Worker(w) \/ WorkerLoss(w), ~Mark(w), ~Mirror(w)
          PROVE  UNCHANGED row
      BY <3>5 DEF Worker, WorkerLoss, Get, PassGate, TakeSlot, Claim, MarkLost, Solve,
                  Finish, MirrorLost, Release
    <3>6. CASE Controls
      BY <1>9, <3>6 DEF Controls, SweepStart, ClearMemory, ClearLoad, Pause, Resume,
                        QuitDrain, QuitSnapshot, QuitWait, vars
    <3>7. CASE Die \/ BootDone
      BY <3>7 DEF Die, BootDone
    <3> QED BY <1>9, <3>1, <3>2, <3>3, <3>4, <3>5, <3>6, <3>7, AllSteps
  <2> QED BY <1>1, <2>1
<1> QED BY <1>2, <1>3, <1>4, <1>5, <1>6, <1>7, <1>8, <1>9

-----------------------------------------------------------------------------
(* What a step may do to a status                                          *)

\* Every cause for which the status of job j may change.
StChange(j) ==
  \/ st'[j] = st[j]
  \/ call[j] = "none" /\ call'[j] = "insert" /\ phase = "up" /\ st'[j] = "queued"
  \/ phase = "booting" /\ j \in todo /\ st'[j] = "queued"
  \/ Die
  \/ \E w \in Workers : /\ pc[w] = "claim" /\ wjob[w] = j
                        /\ j \notin cancelled /\ ~draining /\ st'[j] = "running"
  \/ \E w \in Workers : /\ pc[w] = "finish" /\ wjob[w] = j
                        /\ pc'[w] = "mirror" /\ UNCHANGED <<wjob, wend, call>>
                        /\ st'[j] = wend[w]
  \/ st[j] = "queued" /\ j \in cancelled' /\ cpc'[j] = "load" /\ st'[j] = "aborted"

\* There are no others.
LEMMA StChanges ==
  ASSUME TypeOK, Handed, Calls, [Next]_vars
  PROVE  \A j \in Jobs : StChange(j)
<1> USE DEF StChange, jobVars, memVars, gateVars, workVars, enqVars, cliVars,
            opVars, procVars, histVars, tabVars
<1> SUFFICES ASSUME NEW i \in Jobs PROVE StChange(i)
  OBVIOUS
<1>1. ASSUME NEW p \in Projects, NEW k \in Kinds, Register(p, k) PROVE StChange(i)
  <2>1. next + 1 \in Jobs /\ call[next + 1] = "none"
    BY <1>1, BoundsAssumption DEF Register, Jobs, TypeOK, Calls
  <2> QED BY <1>1, <2>1 DEF Register, TypeOK
<1>2. ASSUME NEW j \in Jobs,
             InsertBuild(j) \/ InsertCommit(j) \/ InsertRaise(j) \/ Publish(j)
      PROVE  StChange(i)
  BY <1>2 DEF InsertBuild, InsertCommit, InsertRaise, Publish
<1>3. ASSUME NEW j \in Jobs, Abort(j) \/ SweepJob(j) \/ QuitJob(j) PROVE StChange(i)
  <2>1. CASE UNCHANGED st
    BY <2>1
  <2>2. CASE Calling(j) /\ CancelQueued(j)
    BY <2>2 DEF Calling, CancelQueued, TypeOK
  <2> QED BY <1>3, <2>1, <2>2 DEF Abort, SweepJob, QuitJob, AbortLocked
<1>4. ASSUME NEW j \in Jobs, ClientLoad(j) \/ ClientCommit(j) \/ ClientLost(j) \/ Signal(j)
      PROVE  StChange(i)
  BY <1>4 DEF ClientLoad, ClientCommit, ClientLost, Signal
<1>5. ASSUME NEW j \in Jobs, BootJob(j) PROVE StChange(i)
  BY <1>5 DEF BootJob, First, TypeOK
<1>6. ASSUME NEW w \in Workers, Claim(w) PROVE StChange(i)
  <2>1. CASE UNCHANGED st
    BY <2>1
  <2>2. CASE Verdict(wjob[w]) = "claimed" /\ st' = [st EXCEPT ![wjob[w]] = "running"]
    BY <1>6, <2>2 DEF Claim, At, Verdict, TypeOK
  <2> QED BY <1>6, <2>1, <2>2 DEF Claim
<1>7. ASSUME NEW w \in Workers, Finish(w) PROVE StChange(i)
  BY <1>7 DEF Finish, At, Goto, TypeOK
<1>8. ASSUME NEW w \in Workers, Worker(w) \/ WorkerLoss(w), ~Claim(w), ~Finish(w)
      PROVE  StChange(i)
  BY <1>8 DEF Worker, WorkerLoss, Get, PassGate, TakeSlot, Mark, MarkLost, Start,
              Solve, Mirror, MirrorLost, Release
<1>9. CASE Controls
  BY <1>9 DEF Controls, SweepStart, ClearMemory, ClearLoad, ClearTable, Pause,
              Resume, QuitDrain, QuitSnapshot, QuitWait, QueueOp, vars
<1>10. CASE Die \/ Boot \/ BootDone
  BY <1>10 DEF Boot, BootDone
<1> QED
  BY <1>1, <1>2, <1>3, <1>4, <1>5, <1>6, <1>7, <1>8, <1>9, <1>10, AllSteps

-----------------------------------------------------------------------------
(* What the process can run                                                *)

\* Memory takes only jobs it can run, and forgets all before a boot may find
\* less to run them with.
LEMMA RunnableStep ==
  ASSUME TypeOK, Calls, Runnable, [Next]_vars
  PROVE  Runnable'
<1> USE DEF Runnable, jobVars, memVars, gateVars, workVars, enqVars, cliVars,
            opVars, procVars, histVars, tabVars
<1>1. ASSUME UNCHANGED <<known, storage, proj, kind>>, resident' \subseteq resident
      PROVE  Runnable'
  BY <1>1
<1>2. ASSUME NEW p \in Projects, NEW k \in Kinds, Register(p, k), k \in known
      PROVE  Runnable'
  <2>1. next + 1 \in Jobs /\ next + 1 \notin resident
    BY <1>2, BoundsAssumption DEF Register, Jobs, TypeOK, Calls
  <2> QED BY <1>2, <2>1 DEF Register, TypeOK
<1>3. ASSUME NEW p \in Projects, NEW k \in Kinds, Enqueue(p, k) PROVE Runnable'
  BY <1>2, <1>3 DEF Enqueue
<1>4. ASSUME NEW j \in Jobs, Requeue(j) PROVE Runnable'
  BY <1>2, <1>4, SetsAssumption DEF Requeue, TypeOK
<1>5. ASSUME NEW j \in Jobs, Enqueuing(j) \/ InsertRaise(j) PROVE Runnable'
  BY <1>1, <1>5 DEF Enqueuing, InsertBuild, InsertCommit, InsertRaise, Publish
<1>6. ASSUME NEW j \in Jobs, Abort(j) \/ SweepJob(j) \/ QuitJob(j) PROVE Runnable'
  BY <1>1, <1>6 DEF Abort, SweepJob, QuitJob, Calling, QueueOp
<1>7. ASSUME NEW j \in Jobs, Client(j) \/ ClientLost(j) PROVE Runnable'
  BY <1>1, <1>7 DEF Client, ClientLoad, ClientCommit, ClientLost, Signal
<1>8. ASSUME NEW w \in Workers, Worker(w) \/ WorkerLoss(w) PROVE Runnable'
  BY <1>1, <1>8 DEF Worker, WorkerLoss, Get, PassGate, TakeSlot, Claim, Mark, MarkLost,
                    Start, Solve, Finish, Mirror, MirrorLost, Release
<1>9. CASE Controls
  BY <1>1, <1>9 DEF Controls, SweepStart, ClearMemory, ClearLoad, ClearTable, Pause,
                    Resume, QuitDrain, QuitSnapshot, QuitWait, QueueOp, vars
<1>10. CASE Die \/ BootDone
  BY <1>1, <1>10 DEF Die, BootDone
<1>11. CASE Boot
  BY <1>11 DEF Boot, Calls
<1>12. ASSUME NEW j \in Jobs, BootJob(j) PROVE Runnable'
  BY <1>12 DEF BootJob, Unrunnable
<1> QED
  BY <1>3, <1>4, <1>5, <1>6, <1>7, <1>8, <1>9, <1>10, <1>11, <1>12
  DEF Next, Booting, Controls

-----------------------------------------------------------------------------
(* Threads that end a job, calls under way                                 *)

\* A thread alone has its job, so what it has set stays until it is mirrored.
LEMMA EndingsStep ==
  ASSUME TypeOK, Handed, Pipeline, Calls, Claims, Mirrors, Endings, [Next]_vars
  PROVE  Endings'
<1> USE DEF jobVars, memVars, gateVars, workVars, enqVars, cliVars, opVars,
            procVars, histVars, tabVars
\* Most steps leave the threads, the flags and the calls alone and change no
\* status, but that of a job no thread has and no call works on.
<1>1. ASSUME UNCHANGED <<pc, wjob, wend, cancelled, cpc>>, NEW j \in Jobs,
             \A i \in Jobs : i # j => st'[i] = st[i],
             st'[j] = st[j] \/ (cpc[j] = "idle" /\ \A w \in Workers : wjob[w] # j)
      PROVE  Endings'
  <2>1. \A w \in Workers : pc[w] # "get" => wjob[w] \in Jobs
    BY DEF Handed, TypeOK
  <2> QED BY <1>1, <2>1 DEF Endings
<1>2. ASSUME NEW p \in Projects, NEW k \in Kinds, Register(p, k) PROVE Endings'
  <2>1. next + 1 \in Jobs /\ call[next + 1] = "none"
    BY <1>2, BoundsAssumption DEF Register, Jobs, TypeOK, Calls
  <2>2. cpc[next + 1] = "idle" /\ \A w \in Workers : wjob[w] # next + 1
    BY <2>1 DEF Mirrors, Pipeline, Upstream
  <2> QED BY <1>1, <1>2, <2>1, <2>2 DEF Register, TypeOK
<1>3. ASSUME NEW j \in Jobs,
             InsertBuild(j) \/ InsertCommit(j) \/ InsertRaise(j) \/ Publish(j)
      PROVE  Endings'
  BY <1>1, <1>3 DEF InsertBuild, InsertCommit, InsertRaise, Publish
<1>4. ASSUME NEW j \in Jobs, Abort(j) \/ SweepJob(j) \/ QuitJob(j) PROVE Endings'
  <2>1. CASE UNCHANGED <<memVars, workVars, cliVars>>
    BY <1>1, <1>4, <2>1
  <2>2. CASE Calling(j) /\ (AbortLocked(j) \/ CancelQueued(j))
    <3>1. UNCHANGED <<pc, wjob, wend>> /\ cpc' = [cpc EXCEPT ![j] = "load"]
      BY <2>2 DEF Calling
    <3>2. CASE CancelQueued(j)
      <4>1. /\ st[j] = "queued" /\ st' = [st EXCEPT ![j] = "aborted"]
            /\ cancelled' = cancelled \cup {j}
        BY <3>2 DEF CancelQueued
      <4>2. \A w \in Workers : pc[w] \in {"mirror", "mirrorw"} => wjob[w] # j
        BY <4>1 DEF Endings, TypeOK, Terminal
      <4> QED BY <3>1, <4>1, <4>2 DEF Endings, TypeOK
    <3>3. CASE UNCHANGED <<cancelled, st>> /\ st[j] # "queued"
      BY <3>1, <3>3 DEF Endings, TypeOK
    <3> QED BY <2>2, <3>2, <3>3 DEF AbortLocked, Terminal
  <2> QED BY <1>4, <2>1, <2>2 DEF Abort, SweepJob, QuitJob, QueueOp
<1>5. ASSUME NEW j \in Jobs,
             ClientLoad(j) \/ ClientCommit(j) \/ ClientLost(j) \/ Signal(j)
      PROVE  Endings'
  <2>1. /\ UNCHANGED <<pc, wjob, wend, cancelled, st>>
        /\ cpc[j] # "idle" /\ \A i \in Jobs : i # j => cpc'[i] = cpc[i]
    BY <1>5 DEF ClientLoad, ClientCommit, ClientLost, Signal, AfterMirror, TypeOK
  <2> QED BY <2>1 DEF Endings
<1>6. ASSUME NEW j \in Jobs, BootJob(j) PROVE Endings'
  <2>1. cpc[j] = "idle" /\ \A w \in Workers : wjob[w] # j
    BY <1>6 DEF BootJob, First, Mirrors, Pipeline, Upstream
  <2> QED BY <1>1, <1>6, <2>1 DEF BootJob, TypeOK
<1>7. ASSUME NEW w \in Workers, Worker(w) \/ WorkerLoss(w) PROVE Endings'
  <2>1. UNCHANGED <<cancelled, cpc>>
    BY <1>7 DEF Worker, WorkerLoss, Get, PassGate, TakeSlot, Claim, Mark, MarkLost,
                Start, Solve, Finish, Mirror, MirrorLost, Release
  <2>2. \A v \in Workers : v # w /\ pc[v] # "get" => wjob[v] \in Jobs /\ wjob[v] # wjob[w]
    BY DEF Handed, Pipeline, TypeOK
  <2>3. CASE Get(w) \/ PassGate(w) \/ TakeSlot(w) \/ Mark(w) \/ MarkLost(w)
    BY <2>1, <2>3 DEF Get, PassGate, TakeSlot, Mark, MarkLost, Start, At, Goto, Endings,
                      TypeOK
  <2>4. CASE Claim(w)
    <3>1. CASE Verdict(wjob[w]) = "claimed"
      <4>1. /\ st' = [st EXCEPT ![wjob[w]] = "running"] /\ UNCHANGED <<wjob, wend>>
            /\ pc' = [pc EXCEPT ![w] = "mark"]
        BY <2>4, <3>1 DEF Claim, Goto
      <4> QED BY <2>1, <2>2, <4>1 DEF Endings, TypeOK
    <3>2. CASE Verdict(wjob[w]) # "claimed"
      <4>1. /\ UNCHANGED <<st, wjob>> /\ pc' \in {[pc EXCEPT ![w] = "finish"], [pc EXCEPT ![w] = "release"]}
            /\ pc'[w] = "finish" => wjob[w] \in cancelled
            /\ \A v \in Workers : v # w => wend'[v] = wend[v]
        BY <2>4, <3>2 DEF Claim, Goto, Verdict, TypeOK
      <4> QED BY <2>1, <2>2, <4>1 DEF Endings, TypeOK
    <3> QED BY <3>1, <3>2
  <2>5. CASE Solve(w)
    <3>1. st[wjob[w]] = "running"
      BY <2>5 DEF Solve, At, Claims, Running
    <3> QED BY <2>1, <2>5, <3>1 DEF Solve, At, Goto, Endings, TypeOK
  <2>6. CASE Finish(w)
    <3>1. /\ st' = [st EXCEPT ![wjob[w]] = wend[w]] /\ UNCHANGED <<wjob, wend>>
          /\ pc[w] = "finish" /\ pc' = [pc EXCEPT ![w] = "mirror"]
      BY <2>6 DEF Finish, At, Goto
    <3>2. wjob[w] \in Jobs /\ wend[w] \in Terminal
      BY <3>1 DEF Handed, TypeOK
    <3> QED BY <2>1, <2>2, <3>1, <3>2 DEF Endings, TypeOK, Terminal
  <2>7. CASE Mirror(w) \/ MirrorLost(w)
    <3>1. /\ UNCHANGED <<st, wjob, wend>> /\ pc[w] \in {"mirror", "mirrorw"}
          /\ pc' \in {[pc EXCEPT ![w] = "mirrorw"], [pc EXCEPT ![w] = "release"]}
      BY <2>7 DEF Mirror, MirrorLost, At, Goto
    <3> QED BY <2>1, <3>1 DEF Endings, TypeOK
  <2>8. CASE Release(w)
    <3>1. /\ UNCHANGED st /\ pc'[w] = "get"
          /\ \A v \in Workers : v # w => /\ wjob'[v] = wjob[v] /\ wend'[v] = wend[v]
                                         /\ pc'[v] \in {pc[v], "slot"}
      BY <2>8 DEF Release, TypeOK
    <3> QED BY <2>1, <3>1 DEF Endings
  <2> QED
    BY <1>7, <2>3, <2>4, <2>5, <2>6, <2>7, <2>8 DEF Worker, WorkerLoss
<1>8. CASE Controls
  BY <1>8 DEF Controls, SweepStart, ClearMemory, ClearLoad, ClearTable, Pause,
              Resume, QuitDrain, QuitSnapshot, QuitWait, QueueOp, vars, Endings
<1>9. CASE Die
  BY <1>9 DEF Die, Endings
<1>10. CASE Boot \/ BootDone
  BY <1>10 DEF Boot, BootDone, Endings
<1> QED
  BY <1>2, <1>3, <1>4, <1>5, <1>6, <1>7, <1>8, <1>9, <1>10, AllSteps

-----------------------------------------------------------------------------
(* Clears                                                                  *)

\* A clear dooms finished jobs only, and they stay finished while it runs.
LEMMA ClearsStep ==
  ASSUME TypeOK, Handed, Calls, Mirrors, Endings, Clears, [Next]_vars
  PROVE  Clears'
<1> USE DEF jobVars, memVars, gateVars, workVars, enqVars, cliVars, opVars,
            procVars, histVars, tabVars
\* Rows turn `queued` only by the INSERT, statuses only by a registration or a
\* boot.
<1>1. \A j \in Jobs : row'[j] = "queued" => row[j] = "queued" \/ call[j] = "commit"
  <2> SUFFICES ASSUME NEW j \in Jobs, row'[j] = "queued"
               PROVE  row[j] = "queued" \/ call[j] = "commit"
    OBVIOUS
  <2>1. RowChange(j) /\ \A w \in Workers : wend[w] # "queued"
    BY RowChanges DEF TypeOK, Terminal
  <2> QED BY <2>1 DEF RowChange, Mirrors
<1>2. \A j \in Jobs : st'[j] = "queued" =>
        st[j] = "queued" \/ call[j] = "none" \/ phase # "up" \/ Die
  <2> SUFFICES ASSUME NEW j \in Jobs, st'[j] = "queued"
               PROVE  st[j] = "queued" \/ call[j] = "none" \/ phase # "up" \/ Die
    OBVIOUS
  <2>1. StChange(j) /\ \A w \in Workers : wend[w] # "queued"
    BY StChanges DEF TypeOK, Terminal
  <2> QED BY <2>1 DEF StChange
<1>3. CASE Die
  BY <1>3 DEF Die, Clears
<1>4. CASE Boot
  BY <1>4 DEF Boot, Clears
<1>5. ASSUME ~Die, ~Boot,
             phase' # "up" => phase # "up",
             doomed' \subseteq doomed, draining' => draining \/ phase = "up",
             phase = "up" => resident' \subseteq resident \cup {j \in Jobs : call[j] = "none"},
             \A j \in doomed : /\ call[j] # "none" => call'[j] # "none"
                               /\ call'[j] = "insert" => call[j] \in {"none", "insert"}
                               /\ call'[j] = "commit" => call[j] \in {"insert", "commit"}
      PROVE  Clears'
  <2>1. CASE phase # "up"
    BY <1>5, <2>1 DEF Clears
  <2>2. CASE phase = "up"
    <3>1. phase' = "up"
      BY <1>5, <2>2 DEF TypeOK
    <3>2. ASSUME NEW j \in doomed'
          PROVE  /\ call'[j] # "none"
                 /\ j \in resident' => /\ call'[j] \notin {"insert", "commit"}
                                       /\ st'[j] # "queued" \/ row'[j] # "queued"
      <4>1. j \in doomed /\ j \in Jobs
        BY <1>5, <3>2 DEF TypeOK
      <4> QED BY <1>1, <1>2, <1>5, <2>2, <4>1 DEF Clears
    <3> QED BY <3>1, <3>2 DEF Clears
  <2> QED BY <2>1, <2>2
<1>6. CASE ClearMemory
  <2>1. /\ phase = "up" /\ UNCHANGED <<phase, call>>
        /\ doomed' \subseteq resident /\ resident' = resident \ doomed'
    BY <1>6 DEF ClearMemory, QueueOp
  <2>2. \A j \in resident : call[j] # "none"
    BY DEF Calls, TypeOK
  <2> QED BY <2>1, <2>2 DEF Clears
<1>7. CASE ClearLoad
  <2>1. /\ phase = "up" /\ UNCHANGED <<phase, call, resident, st, row>>
        /\ doomed' \subseteq doomed \cup {j \in Jobs : row[j] \in Terminal}
    BY <1>7 DEF ClearLoad, QueueOp, FinishedRow
  <2>2. \A j \in Jobs : row[j] \in Terminal =>
          row[j] # "queued" /\ call[j] \notin {"none", "insert", "commit"}
    BY DEF Calls, Terminal
  <2> QED BY <2>1, <2>2 DEF Clears
<1>8. ASSUME NEW p \in Projects, NEW k \in Kinds, Register(p, k) PROVE Clears'
  <2>1. next + 1 \in Jobs /\ call[next + 1] = "none"
    BY <1>8, BoundsAssumption DEF Register, Jobs, TypeOK, Calls
  <2>2. /\ UNCHANGED <<phase, doomed, draining>> /\ phase = "up"
        /\ resident' = resident \cup {next + 1} /\ call' = [call EXCEPT ![next + 1] = "insert"]
    BY <1>8 DEF Register
  <2>3. \A j \in doomed : call[j] # "none" => call'[j] = call[j]
    BY <2>1, <2>2 DEF TypeOK
  <2>4. \A j \in doomed : call[j] # "none"
    BY DEF Clears
  <2> QED BY <1>5, <2>1, <2>2, <2>3, <2>4 DEF Die, Boot
<1>9. ASSUME NEW j \in Jobs,
             InsertBuild(j) \/ InsertCommit(j) \/ InsertRaise(j) \/ Publish(j)
      PROVE  Clears'
  <2>1. /\ UNCHANGED <<phase, doomed, draining>> /\ resident' \subseteq resident
        /\ \A i \in Jobs : \/ call'[i] = call[i] \/ call'[i] \in {"publish", "done", "refused"}
                           \/ call'[i] = "commit" /\ call[i] = "insert"
    BY <1>9 DEF InsertBuild, InsertCommit, InsertRaise, Publish, TypeOK
  <2>2. phase = "up"
    BY <1>9 DEF InsertBuild, InsertCommit, InsertRaise, Publish, Calls
  <2>3. \A i \in doomed : i \in Jobs
    BY DEF TypeOK
  <2> QED BY <1>5, <2>1, <2>2, <2>3 DEF Die, Boot
<1>10. ASSUME UNCHANGED <<phase, doomed, draining, resident, call>> PROVE Clears'
  <2>1. CASE Die \/ Boot
    BY <1>3, <1>4, <2>1
  <2> QED BY <1>5, <1>10, <2>1
<1>11. ASSUME NEW j \in Jobs, Abort(j) \/ SweepJob(j) \/ QuitJob(j) PROVE Clears'
  BY <1>10, <1>11 DEF Abort, SweepJob, QuitJob, Calling, QueueOp
<1>12. ASSUME NEW j \in Jobs,
              ClientLoad(j) \/ ClientCommit(j) \/ ClientLost(j) \/ Signal(j)
       PROVE  Clears'
  BY <1>10, <1>12 DEF ClientLoad, ClientCommit, ClientLost, Signal, AfterMirror
<1>13. ASSUME NEW w \in Workers, Worker(w) \/ WorkerLoss(w) PROVE Clears'
  BY <1>10, <1>13 DEF Worker, WorkerLoss, Get, PassGate, TakeSlot, Claim, Mark, MarkLost,
                      Start, Solve, Finish, Mirror, MirrorLost, Release
<1>14. CASE SweepStart \/ Pause \/ Resume \/ QuitSnapshot \/ QuitWait \/ UNCHANGED vars
  BY <1>10, <1>14 DEF SweepStart, Pause, Resume, QuitSnapshot, QuitWait, QueueOp, vars
<1>15. CASE QuitDrain
  BY <1>5, <1>15 DEF QuitDrain, QueueOp, Die, Boot
<1>16. CASE ClearTable
  BY <1>5, <1>16 DEF ClearTable, QueueOp, Die, Boot
<1>17. CASE BootDone
  BY <1>5, <1>17 DEF BootDone, Die, Boot
<1>18. ASSUME NEW j \in Jobs, BootJob(j) PROVE Clears'
  <2>1. phase = "booting" /\ UNCHANGED <<phase, doomed, draining, call>>
    BY <1>18 DEF BootJob
  <2> QED BY <1>5, <2>1 DEF Die, Boot
<1> QED
  BY <1>3, <1>4, <1>6, <1>7, <1>8, <1>9, <1>11, <1>12, <1>13, <1>14, <1>15, <1>16,
     <1>17, <1>18, AllSteps DEF Controls

-----------------------------------------------------------------------------
(* What a step may do to an enqueue call, to memory and to the losses      *)

\* Every cause for which the enqueue call of job j may go on.
CallChange(j) ==
  \/ UNCHANGED <<call[j], built[j]>>
  \/ call[j] = "none" /\ call'[j] = "insert"
  \/ call[j] = "insert" /\ call'[j] = "commit" /\ built'[j] = st[j] /\ UNCHANGED st
  \/ call[j] = "commit" /\ call'[j] = "publish" /\ (row'[j] = built[j] \/ j \in lossy')
  \/ call[j] = "insert" /\ call'[j] = "refused" /\ j \in lossy'
  \/ call[j] = "publish" /\ call'[j] = "done"
  \/ Die

\* Every cause for which job j may come into memory.
Arrives(j) ==
  \/ call[j] = "none" /\ call'[j] = "insert" /\ st'[j] = "queued" /\ UNCHANGED cpc
  \/ /\ phase = "booting" /\ j \in todo /\ j \notin todo'
     /\ st'[j] = "queued" /\ UNCHANGED <<row, call, cpc>>

JobChange(j) == CallChange(j) /\ (j \in resident' => j \in resident \/ Arrives(j))

\* There are no others, and a lost operation stays on record.
LEMMA JobChanges ==
  ASSUME TypeOK, Calls, [Next]_vars
  PROVE  lossy \subseteq lossy' /\ \A j \in Jobs : JobChange(j)
<1> USE DEF JobChange, CallChange, jobVars, memVars, gateVars, workVars, enqVars,
            cliVars, opVars, procVars, histVars, tabVars
<1>1. ASSUME UNCHANGED <<call, built>>, resident' \subseteq resident
      PROVE  \A j \in Jobs : JobChange(j)
  BY <1>1
<1>2. ASSUME NEW p \in Projects, NEW k \in Kinds, Register(p, k)
      PROVE  lossy \subseteq lossy' /\ \A j \in Jobs : JobChange(j)
  <2>1. next + 1 \in Jobs /\ call[next + 1] = "none"
    BY <1>2, BoundsAssumption DEF Register, Jobs, TypeOK, Calls
  <2> QED BY <1>2, <2>1 DEF Register, Arrives, TypeOK
<1>3. ASSUME NEW j \in Jobs, InsertBuild(j)
      PROVE  lossy \subseteq lossy' /\ \A i \in Jobs : JobChange(i)
  BY <1>3 DEF InsertBuild, TypeOK
<1>4. ASSUME NEW j \in Jobs, InsertCommit(j)
      PROVE  lossy \subseteq lossy' /\ \A i \in Jobs : JobChange(i)
  BY <1>4 DEF InsertCommit, NoLoss, Lose, TypeOK
<1>5. ASSUME NEW j \in Jobs, InsertRaise(j)
      PROVE  lossy \subseteq lossy' /\ \A i \in Jobs : JobChange(i)
  BY <1>5 DEF InsertRaise, Lose, TypeOK
<1>6. ASSUME NEW j \in Jobs, Publish(j)
      PROVE  lossy \subseteq lossy' /\ \A i \in Jobs : JobChange(i)
  BY <1>6 DEF Publish, TypeOK
<1>7. ASSUME NEW j \in Jobs, Abort(j) \/ SweepJob(j) \/ QuitJob(j)
      PROVE  lossy \subseteq lossy' /\ \A i \in Jobs : JobChange(i)
  BY <1>1, <1>7 DEF Abort, SweepJob, QuitJob, Calling, QueueOp
<1>8. ASSUME NEW j \in Jobs,
             ClientLoad(j) \/ ClientCommit(j) \/ ClientLost(j) \/ Signal(j)
      PROVE  lossy \subseteq lossy' /\ \A i \in Jobs : JobChange(i)
  BY <1>1, <1>8 DEF ClientLoad, ClientCommit, ClientLost, Signal, NoLoss, Lose
<1>9. ASSUME NEW w \in Workers, Worker(w) \/ WorkerLoss(w)
      PROVE  lossy \subseteq lossy' /\ \A i \in Jobs : JobChange(i)
  <2>1. UNCHANGED <<call, built, resident>>
    BY <1>9 DEF Worker, WorkerLoss, Get, PassGate, TakeSlot, Claim, Mark, MarkLost,
                Start, Solve, Finish, Mirror, MirrorLost, Release
  <2>2. lossy \subseteq lossy'
    BY <1>9 DEF Worker, WorkerLoss, Get, PassGate, TakeSlot, Claim, Mark, MarkLost,
                Solve, Finish, Mirror, MirrorLost, Release, NoLoss, Lose
  <2> QED BY <1>1, <2>1, <2>2
<1>10. CASE Controls
  BY <1>1, <1>10 DEF Controls, SweepStart, ClearMemory, ClearLoad, ClearTable, Pause,
                     Resume, QuitDrain, QuitSnapshot, QuitWait, QueueOp, vars
<1>11. CASE Die
  BY <1>11 DEF Die
<1>12. CASE Boot \/ BootDone
  BY <1>1, <1>12 DEF Boot, BootDone
<1>13. ASSUME NEW j \in Jobs, BootJob(j)
       PROVE  lossy \subseteq lossy' /\ \A i \in Jobs : JobChange(i)
  BY <1>13 DEF BootJob, First, Arrives, TypeOK
<1> QED
  BY <1>2, <1>3, <1>4, <1>5, <1>6, <1>7, <1>8, <1>9, <1>10, <1>11, <1>12, <1>13, AllSteps

-----------------------------------------------------------------------------
(* The backlog                                                             *)

\* Only the start of a boot adds rows to be restored.
LEMMA TodoShrinks ==
  ASSUME TypeOK, [Next]_vars, ~Boot
  PROVE  todo' \subseteq todo
<1>1. CASE Die \/ BootDone
  BY <1>1 DEF Die, BootDone
<1>2. ASSUME NEW j \in Jobs, BootJob(j) PROVE todo' \subseteq todo
  BY <1>2 DEF BootJob
<1>3. ASSUME NEW p \in Projects, NEW k \in Kinds, Register(p, k)
      PROVE  todo' \subseteq todo
  BY <1>3 DEF Register, procVars
<1>4. ASSUME NEW j \in Jobs,
             InsertBuild(j) \/ InsertCommit(j) \/ InsertRaise(j) \/ Publish(j)
      PROVE  todo' \subseteq todo
  BY <1>4 DEF InsertBuild, InsertCommit, InsertRaise, Publish, procVars
<1>5. ASSUME NEW j \in Jobs, ClientStep(j) PROVE todo' \subseteq todo
  BY <1>5 DEF ClientStep, pipeVars
<1>6. ASSUME NEW w \in Workers, Worker(w) \/ WorkerLoss(w) PROVE todo' \subseteq todo
  BY <1>6 DEF Worker, WorkerLoss, Get, PassGate, TakeSlot, Claim, Mark, MarkLost,
              Start, Solve, Finish, Mirror, MirrorLost, Release, procVars
<1>7. CASE ControlStep
  BY <1>7 DEF ControlStep, pipeVars
<1> QED BY <1>1, <1>2, <1>3, <1>4, <1>5, <1>6, <1>7, Steps

\* The rows that boot has still to restore change only by its own step, and new
\* ones are read as `queued`.
LEMMA TodoStep ==
  ASSUME TypeOK, Handed, Pipeline, Calls, Mirrors, Durable, [Next]_vars
  PROVE  \A j \in todo' : row'[j] = "queued"
<1>1. CASE Boot
  BY <1>1 DEF Boot
<1>2. CASE ~Boot
  <2>1. todo' \subseteq todo
    BY <1>2, TodoShrinks
  <2> SUFFICES ASSUME NEW j \in todo' PROVE row'[j] = "queued"
    OBVIOUS
  <2>2. j \in todo /\ j \in Jobs /\ row[j] = "queued" /\ phase = "booting"
    BY <2>1 DEF Durable, Calls, TypeOK
  <2>3. /\ \A w \in Workers : wjob[w] # j
        /\ cpc[j] = "idle" /\ call[j] # "commit"
    BY <2>2 DEF Pipeline, Upstream, Mirrors, Calls
  <2> QED BY <2>2, <2>3, RowChanges DEF RowChange
<1> QED BY <1>1, <1>2

\* Nobody takes the row of a waiting job away, and each job that starts to wait
\* has one.
LEMMA DurableStep ==
  ASSUME TypeOK, Handed, Pipeline, Calls, Claims, Mirrors, Endings, Clears, Restoring,
         Durable, [Next]_vars
  PROVE  Durable'
<1> USE DEF Terminal
<1>1. \A w \in Workers : wend[w] # "queued"
  BY DEF TypeOK
<1>2. CASE Die
  BY <1>2, TodoStep DEF Die, Durable, WaitingIsDurable
<1>3. ASSUME ~Die, NEW j \in Jobs, call'[j] = "commit", st'[j] = "queued"
      PROVE  built'[j] = "queued"
  <2>1. CallChange(j) /\ StChange(j)
    BY JobChanges, StChanges DEF JobChange
  <2>2. call[j] = "commit" => phase = "up"
    BY DEF Calls
  <2> QED BY <1>1, <1>3, <2>1, <2>2 DEF CallChange, StChange, Durable
<1>4. ASSUME ~Die, NEW j \in resident', st'[j] = "queued",
             call'[j] \notin {"insert", "commit"}, j \notin lossy'
      PROVE  row'[j] = "queued"
  <2>1. /\ j \in Jobs /\ RowChange(j) /\ StChange(j) /\ CallChange(j)
        /\ j \in resident \/ Arrives(j)
        /\ j \notin lossy
    BY <1>4, TypeStep, RowChanges, StChanges, JobChanges DEF JobChange, TypeOK
  <2>2. CASE j \notin resident
    BY <1>4, <2>1, <2>2 DEF Arrives, Durable
  <2>3. CASE j \in resident
    <3>1. j \notin todo /\ call[j] # "none"
      BY <2>1, <2>3 DEF Restoring, Calls
    <3>2. st[j] = "queued"
      BY <1>1, <1>4, <2>1, <3>1 DEF StChange
    <3>3. CASE call[j] \in {"insert", "commit"}
      BY <1>4, <2>1, <3>2, <3>3 DEF CallChange, Durable
    <3>4. CASE call[j] \notin {"insert", "commit"}
      <4>1. row[j] = "queued"
        BY <2>1, <2>3, <3>2, <3>4 DEF Durable, WaitingIsDurable
      <4>2. /\ \A w \in Workers : wjob[w] = j => pc[w] \notin {"markw", "mirrorw"}
            /\ cpc[j] # "commit" /\ j \notin doomed
        BY <1>1, <2>1, <2>3, <3>2, <4>1 DEF Claims, Running, Endings, Clears
      <4> QED BY <2>1, <3>1, <3>4, <4>1, <4>2 DEF RowChange
    <3> QED BY <3>3, <3>4
  <2> QED BY <2>2, <2>3
<1> QED
  BY <1>2, <1>3, <1>4, TodoStep DEF Durable, WaitingIsDurable

\* A boot that is under way only adds to memory, and takes its rows one by one.
LEMMA BootSteps ==
  ASSUME TypeOK, Calls, [Next]_vars, phase = "booting", phase' = "booting"
  PROVE  /\ UNCHANGED proj /\ resident \subseteq resident'
         /\ todo' = todo \/ \E j \in Jobs : BootJob(j)
<1> USE DEF jobVars, memVars, procVars
<1>1. ASSUME UNCHANGED <<proj, resident, todo>>
      PROVE  UNCHANGED proj /\ resident \subseteq resident' /\ todo' = todo
  BY <1>1
<1>2. ASSUME NEW j \in Jobs, BootJob(j)
      PROVE  UNCHANGED proj /\ resident \subseteq resident'
  BY <1>2 DEF BootJob
<1>3. ASSUME NEW j \in Jobs, ClientStep(j) PROVE UNCHANGED <<proj, resident, todo>>
  BY <1>3 DEF ClientStep, pipeVars
<1>4. ASSUME NEW w \in Workers, Worker(w) \/ WorkerLoss(w)
      PROVE  UNCHANGED <<proj, resident, todo>>
  BY <1>4 DEF Worker, WorkerLoss, Get, PassGate, TakeSlot, Claim, Mark, MarkLost,
              Start, Solve, Finish, Mirror, MirrorLost, Release
<1>5. CASE Controls
  BY <1>5 DEF Controls, SweepStart, ClearMemory, ClearLoad, ClearTable, Pause, Resume,
              QuitDrain, QuitSnapshot, QuitWait, QueueOp, vars
<1>6. ~\E p \in Projects, k \in Kinds : Register(p, k)
  BY DEF Register
<1>7. ~\E j \in Jobs : InsertBuild(j) \/ InsertCommit(j) \/ InsertRaise(j) \/ Publish(j)
  BY DEF InsertBuild, InsertCommit, InsertRaise, Publish, Calls
<1>8. ~Die /\ ~Boot /\ ~BootDone
  BY DEF Die, Boot, BootDone
<1>9. ASSUME NEW j \in Jobs,
             \/ Abort(j) \/ SweepJob(j) \/ QuitJob(j)
             \/ ClientLoad(j) \/ ClientCommit(j) \/ ClientLost(j) \/ Signal(j)
      PROVE  ClientStep(j)
  BY <1>9, ClientSteps DEF Client
<1> QED BY <1>1, <1>2, <1>3, <1>4, <1>5, <1>6, <1>7, <1>8, <1>9, AllSteps

\* What a boot has read is restored, failed, or left to a job of its project.
LEMMA RestoringStep ==
  ASSUME TypeOK, Handed, Calls, Mirrors, Restoring, [Next]_vars
  PROVE  Restoring'
<1>1. CASE Boot
  BY <1>1 DEF Boot, Calls, Restoring, memVars
<1>2. CASE ~Boot
  <2>1. \A j \in todo' : j \notin resident'
    <3> SUFFICES ASSUME NEW j \in todo', j \in resident' PROVE FALSE
      OBVIOUS
    <3>1. j \in todo /\ j \in Jobs
      BY <1>2, TodoShrinks DEF TypeOK
    <3>2. j \notin resident /\ call[j] # "none"
      BY <3>1 DEF Restoring, Calls
    <3>3. Arrives(j)
      BY <3>1, <3>2, JobChanges DEF JobChange
    <3> QED BY <3>2, <3>3 DEF Arrives
  <2>2. ASSUME phase' = "booting", NEW j \in Jobs, j \notin lossy', row'[j] = "queued"
        PROVE  j \in todo' \/ \E i \in resident' : proj'[i] = proj'[j]
    <3>1. phase = "booting"
      <4>1. CASE phase' = phase
        BY <2>2, <4>1
      <4>2. CASE phase' # phase
        <5>1. Die \/ BootDone
          BY <1>2, <4>2, Steps, BusySteps
          DEF Register, InsertBuild, InsertCommit, InsertRaise, Publish, ClientStep,
              ControlStep, pipeVars, procVars, BootJob, Busy, Get, Release
        <5> QED BY <2>2, <5>1 DEF Die, BootDone
      <4> QED BY <4>1, <4>2
    <3>2. /\ UNCHANGED proj /\ resident \subseteq resident'
          /\ todo' = todo \/ \E i \in Jobs : BootJob(i)
      BY <2>2, <3>1, BootSteps
    <3>3. row[j] = "queued" /\ j \notin lossy
      <4>1. RowChange(j) /\ \A w \in Workers : wend[w] # "queued"
        BY RowChanges DEF TypeOK, Terminal
      <4>2. call[j] # "commit" /\ cpc[j] = "idle"
        BY <3>1 DEF Calls, Mirrors
      <4> QED BY <2>2, <4>1, <4>2, JobChanges DEF RowChange
    <3>4. CASE \E i \in resident : proj[i] = proj[j]
      BY <3>2, <3>4
    <3>5. CASE j \in todo /\ j \notin todo'
      <4>1. PICK i \in Jobs : BootJob(i)
        BY <3>2, <3>5
      <4>2. i = j
        BY <3>5, <4>1 DEF BootJob
      <4>3. \/ row' = [row EXCEPT ![j] = "failed"]
            \/ ActiveJob(proj[j])
            \/ resident' = resident \cup {j}
        BY <4>1, <4>2 DEF BootJob
      <4> QED BY <2>2, <3>2, <4>3 DEF ActiveJob, TypeOK
    <3> QED BY <3>1, <3>3, <3>4, <3>5 DEF Restoring
  <2> QED BY <2>1, <2>2 DEF Restoring
<1> QED BY <1>1, <1>2

-----------------------------------------------------------------------------
(* The table and memory                                                    *)

\* A thread leaves the mirror of its job with the row written, gone, or lost.
LEMMA MirrorMoves ==
  ASSUME TypeOK, Handed, [Next]_vars, ~Die,
         NEW w \in Workers, pc[w] \in {"mirror", "mirrorw"}
  PROVE  \/ pc'[w] \in {"mirror", "mirrorw"} /\ wjob'[w] = wjob[w]
         \/ row'[wjob[w]] \in {wend[w], "none"}
         \/ wjob[w] \in lossy'
<1> USE DEF jobVars, memVars, gateVars, workVars, enqVars, procVars
<1>1. ASSUME UNCHANGED <<pc, wjob>>
      PROVE  pc'[w] \in {"mirror", "mirrorw"} /\ wjob'[w] = wjob[w]
  BY <1>1
<1>2. CASE Mirror(w)
  <2>1. wjob[w] \in Jobs /\ wend[w] \in Terminal
    BY DEF Handed, TypeOK
  <2> QED BY <1>2, <2>1 DEF Mirror, At, Goto, Writes, Store, Status, Active, Terminal, TypeOK
<1>3. CASE MirrorLost(w)
  BY <1>3 DEF MirrorLost, Lose
<1>4. ASSUME Worker(w) \/ WorkerLoss(w), ~Mirror(w), ~MirrorLost(w) PROVE FALSE
  BY <1>4 DEF Worker, WorkerLoss, Get, PassGate, TakeSlot, Claim, Mark, MarkLost, Solve,
              Finish, Release, At
<1>5. ASSUME NEW v \in Workers, v # w, Worker(v) \/ WorkerLoss(v)
      PROVE  pc'[w] \in {"mirror", "mirrorw"} /\ wjob'[w] = wjob[w]
  <2>1. CASE Busy(v) \/ Get(v)
    BY <1>5, <2>1 DEF Busy, Get, Goto, TypeOK
  <2>2. CASE Release(v)
    BY <1>5, <2>2 DEF Release, At, TypeOK
  <2> QED BY <1>5, <2>1, <2>2, BusySteps
<1>6. UNCHANGED <<pc, wjob>> \/ \E v \in Workers : Worker(v) \/ WorkerLoss(v)
  BY Steps DEF Register, InsertBuild, InsertCommit, InsertRaise, Publish, ClientStep,
               ControlStep, pipeVars, Boot, BootJob, BootDone
<1> QED BY <1>1, <1>2, <1>3, <1>4, <1>5, <1>6

\* A call comes to write the status that memory has as it reads it.
LEMMA ClientReads ==
  ASSUME TypeOK, [Next]_vars, NEW j \in Jobs, cpc'[j] = "commit"
  PROVE  \/ cpc[j] = "commit" /\ cval'[j] = cval[j]
         \/ cpc[j] = "load" /\ cval'[j] = st[j] /\ UNCHANGED st
<1> USE DEF jobVars, memVars, gateVars, workVars, enqVars, cliVars, procVars
<1>1. ASSUME UNCHANGED <<cpc, cval>> PROVE cpc[j] = "commit" /\ cval'[j] = cval[j]
  BY <1>1
<1>2. ASSUME NEW p \in Projects, NEW k \in Kinds, Register(p, k)
      PROVE  UNCHANGED <<cpc, cval>>
  BY <1>2 DEF Register
<1>3. ASSUME NEW i \in Jobs,
             InsertBuild(i) \/ InsertCommit(i) \/ InsertRaise(i) \/ Publish(i) \/ BootJob(i)
      PROVE  UNCHANGED <<cpc, cval>>
  BY <1>3 DEF InsertBuild, InsertCommit, InsertRaise, Publish, BootJob
<1>4. ASSUME NEW i \in Jobs, Abort(i) \/ SweepJob(i) \/ QuitJob(i)
      PROVE  cpc[j] = "commit" /\ cval'[j] = cval[j]
  BY <1>4 DEF Abort, SweepJob, QuitJob, Calling, QueueOp, TypeOK
<1>5. ASSUME NEW i \in Jobs, ClientLoad(i) \/ ClientCommit(i) \/ ClientLost(i) \/ Signal(i)
      PROVE  \/ cpc[j] = "commit" /\ cval'[j] = cval[j]
             \/ cpc[j] = "load" /\ cval'[j] = st[j] /\ UNCHANGED st
  <2>1. CASE i = j
    BY <1>5, <2>1 DEF ClientLoad, ClientCommit, ClientLost, Signal, AfterMirror, TypeOK
  <2>2. CASE i # j
    BY <1>5, <2>2 DEF ClientLoad, ClientCommit, ClientLost, Signal, AfterMirror, TypeOK
  <2> QED BY <2>1, <2>2
<1>6. ASSUME NEW w \in Workers, Worker(w) \/ WorkerLoss(w) PROVE UNCHANGED <<cpc, cval>>
  BY <1>6 DEF Worker, WorkerLoss, Get, PassGate, TakeSlot, Claim, Mark, MarkLost,
              Start, Solve, Finish, Mirror, MirrorLost, Release
<1>7. CASE Controls
  BY <1>7 DEF Controls, SweepStart, ClearMemory, ClearLoad, ClearTable, Pause, Resume,
              QuitDrain, QuitSnapshot, QuitWait, QueueOp, vars
<1>8. CASE Die
  BY <1>8 DEF Die
<1>9. CASE Boot \/ BootDone
  BY <1>9 DEF Boot, BootDone
<1> QED BY <1>1, <1>2, <1>3, <1>4, <1>5, <1>6, <1>7, <1>8, <1>9, AllSteps

\* Nobody forgets that a job was cancelled or asked to stop, but a death.
LEMMA TouchedStays ==
  ASSUME TypeOK, [Next]_vars, ~Die
  PROVE  cancelled \subseteq cancelled' /\ asked \subseteq asked'
<1> USE DEF jobVars, memVars, gateVars, workVars, enqVars, procVars, histVars
<1>1. ASSUME NEW p \in Projects, NEW k \in Kinds, Register(p, k)
      PROVE  UNCHANGED <<cancelled, asked>>
  BY <1>1 DEF Register
<1>2. ASSUME NEW j \in Jobs,
             InsertBuild(j) \/ InsertCommit(j) \/ InsertRaise(j) \/ Publish(j) \/ BootJob(j)
      PROVE  UNCHANGED <<cancelled, asked>>
  BY <1>2 DEF InsertBuild, InsertCommit, InsertRaise, Publish, BootJob
<1>3. ASSUME NEW j \in Jobs, Abort(j) \/ SweepJob(j) \/ QuitJob(j)
      PROVE  cancelled \subseteq cancelled' /\ asked \subseteq asked'
  BY <1>3 DEF Abort, SweepJob, QuitJob, Calling, AbortLocked, CancelQueued, QueueOp
<1>4. ASSUME NEW j \in Jobs, ClientLoad(j) \/ ClientCommit(j) \/ ClientLost(j) \/ Signal(j)
      PROVE  UNCHANGED <<cancelled, asked>>
  BY <1>4 DEF ClientLoad, ClientCommit, ClientLost, Signal, Landed
<1>5. ASSUME NEW w \in Workers, Worker(w) \/ WorkerLoss(w)
      PROVE  UNCHANGED <<cancelled, asked>>
  BY <1>5 DEF Worker, WorkerLoss, Get, PassGate, TakeSlot, Claim, Mark, MarkLost,
              Start, Solve, Finish, Mirror, MirrorLost, Release
<1>6. CASE Controls
  BY <1>6 DEF Controls, SweepStart, ClearMemory, ClearLoad, ClearTable, Pause, Resume,
              QuitDrain, QuitSnapshot, QuitWait, QueueOp, vars
<1>7. CASE Boot \/ BootDone
  BY <1>7 DEF Boot, BootDone
<1> QED BY <1>1, <1>2, <1>3, <1>4, <1>5, <1>6, <1>7, AllSteps

\* A finished job keeps its status, and its row is only written with it.
LEMMA MirroredStep ==
  ASSUME TypeOK, Handed, Pipeline, Calls, Claims, Stops, Mirrors, Endings, Restoring,
         Mirrored, [Next]_vars
  PROVE  Mirrored'
<1>1. CASE Die
  BY <1>1 DEF Die, Mirrored, Untouched
<1>2. CASE ~Die
  <2> SUFFICES ASSUME NEW j \in Untouched'
               PROVE  /\ st'[j] \in Terminal =>
                           /\ call'[j] \notin {"insert", "commit", "publish"}
                           /\ \/ row'[j] \in {st'[j], "none"}
                              \/ \E w \in Workers :
                                   wjob'[w] = j /\ pc'[w] \in {"mirror", "mirrorw"}
                      /\ cpc'[j] = "commit" => cval'[j] = st'[j]
    BY DEF Mirrored
  <2>1. /\ j \in Jobs /\ j \notin cancelled' /\ j \notin lossy'
        /\ j \notin lossy \cup cancelled \cup asked
        /\ j \in resident \/ Arrives(j)
        /\ StChange(j) /\ RowChange(j) /\ CallChange(j)
    BY <1>2, TypeStep, TouchedStays, StChanges, RowChanges, JobChanges
    DEF Untouched, JobChange, TypeOK
  <2>2. CASE j \notin resident
    <3>1. st'[j] = "queued" /\ cpc'[j] = "idle"
      BY <2>1, <2>2 DEF Arrives, Calls, Mirrors
    <3> QED BY <3>1 DEF Terminal
  <2>3. CASE j \in resident
    <3>1. /\ j \in Untouched /\ j \notin todo /\ call[j] # "none" /\ phase # "down"
          /\ j \notin csig
      BY <2>1, <2>3 DEF Untouched, Restoring, Calls, Stops
    \* Threads and calls leave the status of a finished job alone.
    <3>2. CASE st[j] \in Terminal
      <4>1. st'[j] = st[j]
        BY <1>2, <2>1, <3>1, <3>2 DEF StChange, Claims, Endings, Terminal
      <4>2. /\ call[j] \notin {"insert", "commit", "publish"}
            /\ cpc[j] = "commit" => cval[j] = st[j]
        BY <3>1, <3>2 DEF Mirrored
      <4>3. call'[j] \notin {"insert", "commit", "publish"}
        BY <1>2, <2>1, <3>1, <4>2 DEF CallChange
      <4>4. cpc'[j] = "commit" => cval'[j] = st'[j]
        BY <2>1, <4>1, <4>2, ClientReads
      <4>5. CASE row[j] \in {st[j], "none"}
        <5>1. \A w \in Workers : wjob[w] = j =>
                pc[w] # "markw" /\ (pc[w] = "mirrorw" => wend[w] = st[j])
          BY <3>2 DEF Claims, Running, Endings, Terminal
        <5>2. row'[j] \in {st[j], "none"}
          BY <2>1, <3>1, <4>2, <4>5, <5>1 DEF RowChange
        <5> QED BY <4>1, <4>3, <4>4, <5>2
      <4>6. CASE row[j] \notin {st[j], "none"}
        <5>1. PICK w \in Workers : wjob[w] = j /\ pc[w] \in {"mirror", "mirrorw"}
          BY <3>1, <3>2, <4>6 DEF Mirrored
        <5>2. wend[w] = st[j]
          BY <5>1 DEF Endings
        <5> QED BY <1>2, <2>1, <4>1, <4>3, <4>4, <5>1, <5>2, MirrorMoves
      <4> QED BY <4>5, <4>6
    \* Of the others, a thread ends one, and then has it still to mirror.
    <3>3. CASE st[j] \notin Terminal
      <4>1. cpc[j] = "idle"
        BY <2>1, <3>1, <3>3 DEF Mirrors
      <4>2. cpc'[j] # "commit"
        BY <2>1, <4>1, ClientReads
      <4>3. CASE st'[j] \in Terminal
        <5>1. PICK w \in Workers : /\ pc[w] = "finish" /\ wjob[w] = j
                                   /\ pc'[w] = "mirror" /\ UNCHANGED <<wjob, wend, call>>
          BY <1>2, <2>1, <3>1, <3>3, <4>3 DEF StChange, Terminal
        <5>2. call[j] \notin {"insert", "commit", "publish"}
          BY <2>1, <5>1 DEF Pipeline, Upstream
        <5> QED BY <4>2, <5>1, <5>2
      <4> QED BY <4>2, <4>3
    <3> QED BY <3>2, <3>3
  <2> QED BY <2>2, <2>3
<1> QED BY <1>1, <1>2

-----------------------------------------------------------------------------
(* No job is solved twice                                                  *)

\* A job begins only as the thread that has marked it calls the runner.
Begins(w) ==
  /\ pc[w] \in {"mark", "markw"} /\ pc' = [pc EXCEPT ![w] = "solve"]
  /\ begun' = begun \cup {wjob[w]}
  /\ UNCHANGED <<proj, todo, q, wjob, call>>
  /\ row'[wjob[w]] # "queued" \/ wjob[w] \in lossy'

\* What a step may do to the solves: begin one, end one, cut them all short, or
\* leave them alone; and a job gets its project as it is registered.
LEMMA SolveSteps ==
  ASSUME TypeOK, Handed, [Next]_vars
  PROVE  \/ \E w \in Workers : Begins(w)
         \/ \E w \in Workers : /\ Solving(w) /\ pc' = [pc EXCEPT ![w] = "finish"]
                               /\ UNCHANGED <<proj, begun, wjob>>
         \/ \E p \in Projects, k \in Kinds : Register(p, k)
         \/ Die
         \/ /\ UNCHANGED <<proj, begun>>
            /\ \A w \in Workers : /\ Solving(w)' <=> Solving(w)
                                  /\ Solving(w) => wjob'[w] = wjob[w]
<1> USE DEF jobVars, memVars, gateVars, workVars, enqVars, procVars, histVars, Solving
<1>1. ASSUME UNCHANGED <<proj, begun, pc, wjob>>
      PROVE  /\ UNCHANGED <<proj, begun>>
             /\ \A w \in Workers : /\ Solving(w)' <=> Solving(w)
                                   /\ Solving(w) => wjob'[w] = wjob[w]
  BY <1>1
<1>2. ASSUME NEW j \in Jobs,
             InsertBuild(j) \/ InsertCommit(j) \/ InsertRaise(j) \/ Publish(j) \/ BootJob(j)
      PROVE  UNCHANGED <<proj, begun, pc, wjob>>
  BY <1>2 DEF InsertBuild, InsertCommit, InsertRaise, Publish, BootJob
<1>3. ASSUME NEW j \in Jobs, Abort(j) \/ SweepJob(j) \/ QuitJob(j)
      PROVE  UNCHANGED <<proj, begun, pc, wjob>>
  BY <1>3 DEF Abort, SweepJob, QuitJob, Calling, QueueOp
<1>4. ASSUME NEW j \in Jobs, ClientLoad(j) \/ ClientCommit(j) \/ ClientLost(j) \/ Signal(j)
      PROVE  UNCHANGED <<proj, begun, pc, wjob>>
  BY <1>4 DEF ClientLoad, ClientCommit, ClientLost, Signal, Landed
<1>5. ASSUME NEW w \in Workers, Start(w), Mark(w) \/ MarkLost(w) PROVE Begins(w)
  <2>1. pc[w] \in {"mark", "markw"} /\ wjob[w] \in Jobs
    BY <1>5 DEF Mark, MarkLost, At, Handed, TypeOK
  <2>2. row'[wjob[w]] # "queued" \/ wjob[w] \in lossy'
    BY <1>5, <2>1 DEF Mark, MarkLost, At, Start, Goto, Writes, Active, Terminal, Store,
                      Lose, tabVars, TypeOK
  <2> QED BY <1>5, <2>1, <2>2 DEF Start, Goto, Begins
<1>6. ASSUME NEW w \in Workers, Worker(w) \/ WorkerLoss(w), ~Start(w), ~Solve(w)
      PROVE  /\ UNCHANGED <<proj, begun>>
             /\ \A v \in Workers : /\ Solving(v)' <=> Solving(v)
                                   /\ Solving(v) => wjob'[v] = wjob[v]
  <2>1. CASE Get(w)
    BY <2>1 DEF Get, At, Goto, TypeOK
  <2>2. CASE Release(w)
    BY <2>2 DEF Release, At, TypeOK
  <2>3. CASE ~Get(w) /\ ~Release(w)
    <3>1. /\ UNCHANGED <<proj, begun, wjob>> /\ pc[w] # "solve"
          /\ \E t \in WorkerSteps \ {"solve"} : pc' = [pc EXCEPT ![w] = t]
      BY <1>6, <2>3 DEF Worker, WorkerLoss, PassGate, TakeSlot, Claim, Mark, MarkLost,
                        Finish, Mirror, MirrorLost, At, Goto, WorkerSteps
    <3> QED BY <3>1 DEF TypeOK
  <2> QED BY <2>1, <2>2, <2>3
<1>7. ASSUME NEW w \in Workers, Solve(w)
      PROVE  /\ Solving(w) /\ pc' = [pc EXCEPT ![w] = "finish"]
             /\ UNCHANGED <<proj, begun, wjob>>
  BY <1>7 DEF Solve, At, Goto
<1>8. CASE Controls
  BY <1>8 DEF Controls, SweepStart, ClearMemory, ClearLoad, ClearTable, Pause, Resume,
              QuitDrain, QuitSnapshot, QuitWait, QueueOp, vars
<1>9. CASE Boot \/ BootDone
  BY <1>9 DEF Boot, BootDone
<1>10. ASSUME NEW w \in Workers, Worker(w) \/ WorkerLoss(w), Start(w)
       PROVE  Mark(w) \/ MarkLost(w)
  BY <1>10 DEF Worker, WorkerLoss, Get, PassGate, TakeSlot, Claim, Solve, Finish, Mirror,
               MirrorLost, Release, Start, At, Goto, TypeOK
<1> QED BY <1>1, <1>2, <1>3, <1>4, <1>5, <1>6, <1>7, <1>8, <1>9, <1>10, AllSteps

\* Jobs come into the queue from an enqueue call or a boot, to a thread from the
\* queue, and no thread goes back to a step before its runner with the same job.
LEMMA PipeMoves ==
  ASSUME TypeOK, Handed, [Next]_vars, NEW j \in Jobs, call[j] # "publish", j \notin todo,
         \A a \in 1 .. Len(q) : q[a] # j
  PROVE  /\ \A a \in 1 .. Len(q') : q'[a] # j
         /\ \A w \in Workers : wjob'[w] = j =>
              wjob[w] = j /\ (pc'[w] \in Before => pc[w] \in Before)
<1> USE DEF jobVars, memVars, gateVars, workVars, enqVars, procVars
<1>1. ASSUME UNCHANGED workVars,
             \/ UNCHANGED q \/ q' = <<>>
             \/ \E i \in Jobs : i # j /\ q' = Append(q, i)
      PROVE  /\ \A a \in 1 .. Len(q') : q'[a] # j
             /\ \A w \in Workers : wjob'[w] = j =>
                  wjob[w] = j /\ (pc'[w] \in Before => pc[w] \in Before)
  <2>1. CASE UNCHANGED q \/ q' = <<>>
    BY <1>1, <2>1
  <2>2. ASSUME NEW i \in Jobs, i # j, q' = Append(q, i)
        PROVE  \A a \in 1 .. Len(q') : q'[a] # j
    BY <2>2 DEF TypeOK
  <2> QED BY <1>1, <2>1, <2>2
<1>2. ASSUME NEW p \in Projects, NEW k \in Kinds, Register(p, k) PROVE UNCHANGED <<workVars, q>>
  BY <1>2 DEF Register
<1>3. ASSUME NEW i \in Jobs, InsertBuild(i) \/ InsertCommit(i) \/ InsertRaise(i) \/ ClientStep(i)
      PROVE  UNCHANGED <<workVars, q>>
  BY <1>3 DEF InsertBuild, InsertCommit, InsertRaise, ClientStep, pipeVars
<1>4. ASSUME NEW i \in Jobs, Publish(i) \/ BootJob(i)
      PROVE  UNCHANGED workVars /\ (UNCHANGED q \/ (i # j /\ q' = Append(q, i)))
  BY <1>4 DEF Publish, BootJob, First
<1>5. CASE ControlStep \/ Boot \/ BootDone
  BY <1>1, <1>5 DEF ControlStep, Boot, BootDone, pipeVars
<1>6. CASE Die
  BY <1>6, NoneIsNoJob DEF Die
<1>7. ASSUME NEW w \in Workers, Worker(w) \/ WorkerLoss(w)
      PROVE  /\ \A a \in 1 .. Len(q') : q'[a] # j
             /\ \A v \in Workers : wjob'[v] = j =>
                  wjob[v] = j /\ (pc'[v] \in Before => pc[v] \in Before)
  <2>1. CASE Get(w)
    <3>1. /\ wjob' = [wjob EXCEPT ![w] = q[1]] /\ pc' = [pc EXCEPT ![w] = "gate"]
          /\ Len(q) \in Nat /\ Len(q) > 0 /\ Len(q') = Len(q) - 1
          /\ \A a \in 1 .. Len(q') : q'[a] = q[a + 1]
      BY <2>1 DEF Get, Goto, TypeOK
    <3>2. 1 \in 1 .. Len(q) /\ \A a \in 1 .. Len(q') : a + 1 \in 1 .. Len(q)
      BY <3>1
    <3> QED BY <3>1, <3>2 DEF TypeOK
  <2>2. CASE Release(w)
    BY <2>2, NoneIsNoJob DEF Release, At, Before, TypeOK
  <2>3. CASE Busy(w)
    <3>1. UNCHANGED <<q, wjob>> /\ \A v \in Workers : v # w => pc'[v] = pc[v]
      BY <2>3 DEF Busy, TypeOK
    <3>2. pc'[w] \in Before => pc[w] \in Before
      BY <1>7, <2>3 DEF Worker, WorkerLoss, PassGate, TakeSlot, Claim, Mark, MarkLost,
                 Start, Solve, Finish, Mirror, MirrorLost, At, Goto, Before, Busy,
                 Get, Release, TypeOK
    <3> QED BY <3>1, <3>2
  <2> QED BY <1>7, <2>1, <2>2, <2>3, BusySteps
<1> QED BY <1>1, <1>2, <1>3, <1>4, <1>5, <1>6, <1>7, Steps

\* Nothing brings a job that was solved back to a runner: its row is `running`
\* or ended, and boot restores queued rows only.
LEMMA SpentStep ==
  ASSUME TypeOK, Handed, Pipeline, Calls, Claims, Mirrors, Durable, Spent, [Next]_vars
  PROVE  Spent'
<1> SUFFICES ASSUME NEW j \in begun' \ lossy'
             PROVE  /\ row'[j] # "queued" /\ j \notin todo'
                    /\ call'[j] \notin {"none", "insert", "commit", "publish"}
                    /\ \A a \in 1 .. Len(q') : q'[a] # j
                    /\ \A w \in Workers : wjob'[w] = j => pc'[w] \notin Before
  BY DEF Spent
<1>1. j \in Jobs /\ j \notin lossy
  BY TypeStep, JobChanges DEF TypeOK
<1>2. RowChange(j) /\ CallChange(j) /\ (j \in todo' => row'[j] = "queued")
  BY <1>1, RowChanges, JobChanges, TodoStep DEF JobChange
<1>3. CASE j \in begun
  <2>1. /\ row[j] # "queued" /\ j \notin todo
        /\ call[j] \notin {"none", "insert", "commit", "publish"}
        /\ \A a \in 1 .. Len(q) : q[a] # j
        /\ \A w \in Workers : wjob[w] = j => pc[w] \notin Before
    BY <1>1, <1>3 DEF Spent
  <2>2. row'[j] # "queued"
    <3>1. \A w \in Workers : wend[w] # "queued"
      BY DEF TypeOK, Terminal
    <3> QED BY <1>1, <1>2, <2>1, <3>1 DEF RowChange, Mirrors
  <2>3. call'[j] \notin {"none", "insert", "commit", "publish"}
    <3>1. CASE Die
      BY <1>1, <2>1, <3>1 DEF Die
    <3> QED BY <1>2, <2>1, <3>1 DEF CallChange
  <2> QED BY <1>1, <1>2, <2>1, <2>2, <2>3, PipeMoves
<1>4. CASE j \notin begun
  <2>1. PICK w \in Workers : Begins(w) /\ wjob[w] = j
    <3>1. \E w \in Workers : Begins(w)
      BY <1>4, SolveSteps DEF Register, Die, histVars
    <3> QED BY <1>4, <3>1 DEF Begins
  <2>2. /\ ~Upstream(j) /\ \A a \in 1 .. Len(q) : q[a] # j
        /\ \A v \in Workers : wjob[v] = j => v = w
    BY <1>1, <2>1, NoneIsNoJob DEF Pipeline
  <2>3. pc'[w] = "solve" /\ UNCHANGED <<todo, q, wjob, call>>
    BY <2>1 DEF Begins, TypeOK
  <2> QED BY <1>1, <2>1, <2>2, <2>3 DEF Upstream, Before, Begins
<1> QED BY <1>3, <1>4

-----------------------------------------------------------------------------
(* Rows that have ended                                                    *)

\* A job is registered without a row and claimed with a queued one; a call reads
\* a status that has ended, unless it fetched an event and so asked for a stop.
LEMMA LivelyStep ==
  ASSUME TypeOK, Handed, Pipeline, Calls, Claims, Stops, Mirrors, Endings, Durable,
         Restoring, Lively, [Next]_vars
  PROVE  Lively'
<1> USE DEF Active, Terminal
<1>1. CASE Die
  BY <1>1 DEF Die, Lively
<1>2. CASE ~Die
  <2>1. ASSUME NEW j \in Jobs \ asked', cpc'[j] = "commit" PROVE cval'[j] \in Terminal
    <3>1. j \notin asked /\ j \notin csig
      BY <1>2, TouchedStays DEF Stops
    <3>2. CASE cpc[j] = "commit" /\ cval'[j] = cval[j]
      BY <3>1, <3>2 DEF Lively
    <3>3. CASE cpc[j] = "load" /\ cval'[j] = st[j]
      BY <3>1, <3>3 DEF Mirrors
    <3> QED BY <2>1, <3>2, <3>3, ClientReads
  <2>2. ASSUME NEW j \in resident' \ asked', st'[j] \in Active PROVE row'[j] \notin Terminal
    <3>1. /\ j \in Jobs /\ j \notin asked /\ j \notin csig
          /\ RowChange(j) /\ StChange(j) /\ (j \in resident \/ Arrives(j))
      BY <1>2, <2>2, TypeStep, TouchedStays, RowChanges, StChanges, JobChanges
      DEF JobChange, Stops, TypeOK
    <3>2. CASE j \notin resident
      <4>1. CASE call[j] = "none"
        <5>1. row[j] = "none" /\ j \notin todo /\ cpc[j] = "idle"
              /\ \A w \in Workers : wjob[w] # j
          BY <3>1, <4>1 DEF Calls, Mirrors, Pipeline, Upstream
        <5> QED BY <3>1, <4>1, <5>1 DEF RowChange
      <4>2. CASE j \in todo /\ UNCHANGED row
        BY <4>2 DEF Durable
      <4> QED BY <3>1, <3>2, <4>1, <4>2 DEF Arrives
    <3>3. CASE j \in resident
      <4>1. j \notin todo /\ call[j] # "none" /\ phase # "down"
        BY <3>1, <3>3 DEF Restoring, Calls
      <4>2. st[j] \in Active
        <5>1. \A w \in Workers : wend[w] \in Terminal
          BY DEF TypeOK
        <5> QED BY <1>2, <2>2, <3>1, <4>1, <5>1 DEF StChange, Claims
      <4>3. row[j] \notin Terminal
        BY <3>1, <3>3, <4>2 DEF Lively
      <4>4. cpc[j] = "idle" /\ \A w \in Workers : wjob[w] = j => pc[w] # "mirrorw"
        <5>1. \A w \in Workers : wend[w] \in Terminal
          BY DEF TypeOK
        <5> QED BY <3>1, <4>2, <5>1 DEF Mirrors, Endings
      <4>5. call[j] = "commit" => built[j] = "queued"
        <5>1. call[j] = "commit" => st[j] # "running"
          BY <3>1, <3>3 DEF Claims, Pipeline, Upstream
        <5> QED BY <3>1, <4>2, <5>1 DEF Durable
      <4> QED BY <3>1, <4>1, <4>3, <4>4, <4>5 DEF RowChange
    <3> QED BY <3>2, <3>3
  <2> QED BY <2>1, <2>2 DEF Lively
<1> QED BY <1>1, <1>2

-----------------------------------------------------------------------------
(* The theorems                                                            *)

\* The queue starts with all of it.
LEMMA TableInit == Init => TInv
<1> SUFFICES ASSUME Init PROVE TInv
  OBVIOUS
<1>1. Runnable /\ Endings /\ Clears
  BY SetsAssumption DEF Init, Runnable, Endings, Clears
<1>2. Durable /\ Mirrored /\ Restoring /\ Spent /\ Lively
  BY DEF Init, Durable, WaitingIsDurable, Mirrored, Untouched, Restoring, Spent, Lively
<1> QED BY <1>1, <1>2 DEF TInv

\* Every step keeps all of it.
LEMMA TableStepInv == IInv /\ CInv /\ TInv /\ [Next]_vars => TInv'
BY RunnableStep, EndingsStep, ClearsStep, DurableStep, MirroredStep, RestoringStep,
   SpentStep, LivelyStep
DEF IInv, CInv, TInv

\* The invariant of the table holds of every reachable state.
THEOREM TableInvariance == Spec => []TInv
BY Invariance, ControlInvariance, TableInit, TableStepInv, PTL DEF Spec

\* No sweep of study forks and no downgrade between two processes ever brings a
\* job to a runner that cannot run it.
THEOREM RunnableOnly == Spec => []RunsOnlyRunnable
<1>1. IInv /\ TInv => RunsOnlyRunnable
  BY DEF IInv, TInv, Claims, Running, Runnable, RunsOnlyRunnable, Solving
<1> QED
  BY Invariance, TableInvariance, <1>1, PTL

\* The walk-away promise: whatever process dies whenever, a published job that
\* waits is queued in the table, if none of its writes was lost.
THEOREM WalkAway == Spec => []WaitingIsDurable
<1>1. TInv => WaitingIsDurable
  BY DEF TInv, Durable
<1> QED
  BY TableInvariance, <1>1, PTL

\* Once nobody works on a finished job any more, the table says how it ended,
\* whatever clears, crashes and other jobs' aborts interleave.
THEOREM TableTrue == Spec => []TableAgrees
<1>1. TInv => TableAgrees
  BY DEF TInv, Mirrored, Untouched, TableAgrees, AtRest
<1> QED
  BY TableInvariance, <1>1, PTL

\* A boot, also one whose reads fail half-way, leaves no queued row that it read
\* behind.
THEOREM BootComplete == Spec => BootRestoresTheQueue
<1> DEFINE Kept ==
      phase = "booting" /\ phase' = "up" =>
        \A j \in Jobs \ lossy' : row[j] = "queued" =>
          \E i \in resident : proj[i] = proj[j]
<1>1. IInv /\ CInv /\ TInv /\ [Next]_vars => [Kept]_vars
  <2> SUFFICES ASSUME IInv, TInv, [Next]_vars, phase = "booting", phase' = "up",
                      NEW j \in Jobs \ lossy', row[j] = "queued"
               PROVE  \E i \in resident : proj[i] = proj[j]
    OBVIOUS
  <2>1. BootDone
    BY Steps, BusySteps
    DEF IInv, Register, InsertBuild, InsertCommit, InsertRaise, Publish, ClientStep,
        ControlStep, pipeVars, procVars, Boot, BootJob, Busy, Get, Release, Die
  <2>2. j \in todo => j \in lossy'
    BY <2>1 DEF BootDone
  <2>3. j \notin lossy
    BY <2>1 DEF BootDone
  <2> QED BY <2>2, <2>3 DEF TInv, Restoring
<1> QED
  BY Invariance, ControlInvariance, TableInvariance, <1>1, PTL
  DEF Spec, BootRestoresTheQueue

\* R28: from the moment the queue drains until the process is gone, no claim, no
\* clear and no late mirror takes a waiting job off the backlog.
THEOREM BacklogKept == Spec => QuitKeepsTheBacklog
<1> DEFINE Kept ==
      \A j \in resident : draining /\ st[j] = "queued" /\ row[j] = "queued" =>
        \/ j \in cancelled'
        \/ row'[j] = "queued" /\ (phase' = "down" \/ st'[j] = "queued")
<1>1. IInv /\ CInv /\ TInv /\ [Next]_vars => [Kept]_vars
  <2> SUFFICES ASSUME IInv, CInv, TInv, [Next]_vars,
                      NEW j \in resident, draining, st[j] = "queued", row[j] = "queued"
               PROVE  \/ j \in cancelled'
                      \/ row'[j] = "queued" /\ (phase' = "down" \/ st'[j] = "queued")
    OBVIOUS
  <2>1. j \in Jobs /\ phase = "up" /\ todo = {}
    BY DEF IInv, TypeOK, Calls, TInv, Clears
  <2>2. call[j] \notin {"none", "insert", "commit"}
    BY <2>1 DEF IInv, Calls
  <2>3. /\ \A w \in Workers : wjob[w] = j => pc[w] \notin {"markw", "mirrorw", "finish"}
        /\ cpc[j] # "commit" /\ j \notin doomed
    BY <2>1 DEF IInv, TypeOK, Claims, Running, CInv, Mirrors, TInv, Endings, Clears, Terminal
  <2>4. RowChange(j) /\ StChange(j)
    BY <2>1, RowChanges, StChanges DEF IInv
  <2>5. row'[j] = "queued"
    BY <2>1, <2>2, <2>3, <2>4 DEF RowChange
  <2>6. CASE Die
    BY <2>5, <2>6 DEF Die
  <2>7. CASE ~Die
    BY <2>1, <2>2, <2>3, <2>4, <2>5, <2>7 DEF StChange
  <2> QED BY <2>6, <2>7
<1> QED
  BY Invariance, ControlInvariance, TableInvariance, <1>1, PTL
  DEF Spec, QuitKeepsTheBacklog

\* R25, the crash-loop rule: over any number of processes, a job whose writes
\* landed starts at most once.
THEOREM OneStart == Spec => NeverSolvedTwice
<1> DEFINE Fresh == \A w \in Workers :
                      Starts(w) /\ wjob[w] \notin lossy' => wjob[w] \notin begun
<1>1. IInv /\ CInv /\ TInv /\ [Next]_vars => [Fresh]_vars
  <2> SUFFICES ASSUME IInv, CInv, TInv, [Next]_vars,
                      NEW w \in Workers, Starts(w), wjob[w] \notin lossy', wjob[w] \in begun
               PROVE  FALSE
    OBVIOUS
  <2>1. Begins(w)
    BY SolveSteps DEF IInv, TypeOK, Starts, Begins, Register, Die, Solving, workVars
  <2>2. wjob[w] \notin lossy
    BY JobChanges DEF IInv
  <2> QED BY <2>1, <2>2 DEF Begins, TInv, Spent, Before
<1> QED
  BY Invariance, ControlInvariance, TableInvariance, <1>1, PTL DEF Spec, NeverSolvedTwice

\* The exact extent of the regression that TerminalRowStays shows: without an
\* abort that found the job running, a finished row stays finished.
THEOREM RowsRevivedByAbortsOnly == Spec => OnlyAbortsReviveRows
<1> DEFINE Stays == \A j \in Jobs :
                      row[j] \in Terminal /\ row'[j] \in Active => j \in asked
<1>1. IInv /\ CInv /\ TInv /\ [Next]_vars => [Stays]_vars
  <2> SUFFICES ASSUME IInv, TInv, [Next]_vars, NEW j \in Jobs, j \notin asked,
                      row[j] \in Terminal, row'[j] \in Active
               PROVE  FALSE
    OBVIOUS
  <2>1. RowChange(j) /\ \A w \in Workers : wend[w] \in Terminal
    BY RowChanges DEF IInv, TypeOK
  <2>2. call[j] # "commit" /\ (cpc[j] = "commit" => cval[j] \in Terminal)
    BY DEF IInv, Calls, TInv, Lively, Terminal
  <2>3. \A w \in Workers : wjob[w] = j => pc[w] # "markw"
    BY DEF IInv, Claims, Running, Active, TInv, Lively
  <2> QED BY <2>1, <2>2, <2>3 DEF RowChange, Active, Terminal
<1> QED
  BY Invariance, ControlInvariance, TableInvariance, <1>1, PTL
  DEF Spec, OnlyAbortsReviveRows

-----------------------------------------------------------------------------
(* The abstract promise                                                    *)

\* The jobs being solved, as SolveOnce sees them.
Solved == {wjob[w] : w \in {v \in Workers : Solving(v)}}

\* The queue starts as SolveOnce does.
LEMMA OnceInit == Init => Once!Init
<1> SUFFICES ASSUME Init PROVE Once!Init
  OBVIOUS
<1>1. (CHOOSE p \in Projects : TRUE) \in Projects
  BY SetsAssumption
<1>2. proj \in [Jobs -> Projects] /\ begun = {} /\ Solved = {}
  BY <1>1 DEF Init, Solved, Solving
<1> QED BY <1>2 DEF Once!Init, Solved

\* SolveOnce counts as the queue does: it has FiniteSets of its own.
LEMMA OnceCounts == \A S : Once!Cardinality(S) = Cardinality(S)
BY DEF Once!Cardinality, Cardinality

\* The slot a thread has taken leaves room for the solve it begins.
LEMMA RoomToBegin ==
  ASSUME TypeOK, Handed, Pipeline, Slots, NEW w \in Workers, pc[w] \in {"mark", "markw"}
  PROVE  Cardinality(Solved) < MaxConcurrent
<1>1. wjob[w] \in runningIds /\ IsFiniteSet(runningIds)
  BY JobsFinite, FS_Subset DEF Slots, SlotSteps, WorkerSteps, TypeOK
<1>2. Solved \subseteq runningIds \ {wjob[w]}
  <2> SUFFICES ASSUME NEW v \in Workers, Solving(v)
               PROVE  wjob[v] \in runningIds /\ wjob[v] # wjob[w]
    BY DEF Solved
  <2> QED BY DEF Solving, Slots, SlotSteps, WorkerSteps, Handed, Pipeline
<1>3. /\ IsFiniteSet(runningIds \ {wjob[w]})
      /\ Cardinality(runningIds \ {wjob[w]}) = Cardinality(runningIds) - 1
  BY <1>1, FS_RemoveElement
<1>4. IsFiniteSet(Solved) /\ Cardinality(Solved) <= Cardinality(runningIds \ {wjob[w]})
  BY <1>2, <1>3, FS_Subset
<1>5. Cardinality(Solved) \in Nat /\ Cardinality(runningIds) \in Nat
  BY <1>1, <1>4, FS_CardinalityType
<1> QED BY <1>3, <1>4, <1>5, BoundsAssumption DEF Slots

\* Each step of the queue, with every write landed, is a step of SolveOnce or
\* none: a begin, an end, a cut, or the admission of a job.
LEMMA OnceStep ==
  ASSUME TypeOK, Handed, Pipeline, Calls, Claims, OneActivePerProject, Slots, Spent,
         [Next]_vars, lossy = {}, lossy' = {}
  PROVE  [Once!Next]_(Once!vars)
<1>0. \A w \in Workers : pc[w] # "get" => wjob[w] \in Jobs
  BY DEF Handed, TypeOK
<1>1. ASSUME NEW w \in Workers, NEW j \in Jobs, wjob[w] = j, Begins(w) PROVE Once!Next
  <2>1. j \in resident /\ st[j] = "running"
    BY <1>1 DEF Begins, Claims, Running
  <2>2. j \notin begun
    BY <1>1 DEF Begins, Spent, Before
  <2>3. \A i \in Solved : proj[i] # proj[j]
    <3> SUFFICES ASSUME NEW v \in Workers, Solving(v), proj[wjob[v]] = proj[j]
                 PROVE  FALSE
      BY DEF Solved
    <3>1. wjob[v] \in resident /\ st[wjob[v]] = "running"
      BY DEF Solving, Claims, Running
    <3>2. wjob[v] = j
      BY <2>1, <3>1 DEF OneActivePerProject, Active
    <3>3. v = w
      BY <1>1, <3>2, NoneIsNoJob DEF Pipeline
    <3> QED BY <1>1, <3>3 DEF Begins, Solving
  <2>4. Cardinality(Solved) < MaxConcurrent
    BY <1>1, RoomToBegin DEF Begins
  <2>5. Solved' = Solved \cup {j}
    <3>1. /\ \A v \in Workers : pc'[v] = "solve" <=> pc[v] = "solve" \/ v = w
          /\ UNCHANGED wjob
      BY <1>1 DEF Begins, TypeOK
    <3>2. \A x : x \in Solved' <=> \E v \in Workers : pc'[v] = "solve" /\ x = wjob'[v]
      BY DEF Solved, Solving
    <3>3. \A x : x \in Solved <=> \E v \in Workers : pc[v] = "solve" /\ x = wjob[v]
      BY DEF Solved, Solving
    <3>4. \A x : x \in Solved' <=> x \in Solved \/ x = j
      BY <1>1, <3>1, <3>2, <3>3
    <3> QED BY <3>4
  <2>6. Once!Begin(j)
    <3>1. Once!Cardinality(Solved) < MaxConcurrent
      BY <2>4, OnceCounts
    <3>2. UNCHANGED proj /\ begun' = begun \cup {j}
      BY <1>1 DEF Begins
    <3> QED BY <2>2, <2>3, <2>5, <3>1, <3>2 DEF Once!Begin, Solved
  <2> QED BY <2>6 DEF Once!Next
<1>2. ASSUME NEW w \in Workers, NEW j \in Jobs, wjob[w] = j, Solving(w),
             pc' = [pc EXCEPT ![w] = "finish"], UNCHANGED <<proj, begun, wjob>>
      PROVE  Once!Next
  <2>1. j \in Solved
    BY <1>2 DEF Solved
  <2>2. Solved' = Solved \ {j}
    <3>1. \A v \in Workers : pc'[v] = "solve" <=> pc[v] = "solve" /\ v # w
      BY <1>2 DEF TypeOK
    <3>2. \A v \in Workers : wjob[v] = j <=> v = w
      BY <1>2, NoneIsNoJob DEF Pipeline
    <3>3. \A x : x \in Solved' <=> \E v \in Workers : pc'[v] = "solve" /\ x = wjob'[v]
      BY DEF Solved, Solving
    <3>4. \A x : x \in Solved <=> \E v \in Workers : pc[v] = "solve" /\ x = wjob[v]
      BY DEF Solved, Solving
    <3>5. \A x : x \in Solved' <=> x \in Solved /\ x # j
      BY <1>2, <3>1, <3>2, <3>3, <3>4
    <3> QED BY <3>5
  <2>3. Once!End(j)
    BY <1>2, <2>1, <2>2 DEF Once!End, Solved
  <2> QED BY <2>3 DEF Once!Next
<1>3. ASSUME NEW p \in Projects, NEW k \in Kinds, Register(p, k)
      PROVE  Once!Next
  <2>1. next + 1 \in Jobs /\ call[next + 1] = "none"
    BY <1>3, BoundsAssumption DEF Register, Jobs, TypeOK, Calls
  <2>2. next + 1 \notin begun
    BY <2>1 DEF Spent
  <2>3. UNCHANGED Solved
    BY <1>3 DEF Register, workVars, Solved, Solving
  <2>4. Once!Admit(next + 1, p)
    BY <1>3, <2>2, <2>3 DEF Once!Admit, Register, histVars, Solved
  <2> QED BY <2>1, <2>4 DEF Once!Next
<1>4. CASE Die
  <2>1. Solved' = {} /\ UNCHANGED <<proj, begun>>
    BY <1>4 DEF Die, jobVars, Solved, Solving
  <2>2. CASE Solved = {}
    BY <2>1, <2>2 DEF Once!vars, Solved
  <2>3. CASE Solved # {}
    BY <2>1, <2>3 DEF Once!Next, Once!Cut, Solved
  <2> QED BY <2>2, <2>3
<1>5. CASE /\ UNCHANGED <<proj, begun>>
           /\ \A w \in Workers : /\ Solving(w)' <=> Solving(w)
                                 /\ Solving(w) => wjob'[w] = wjob[w]
  <2>1. UNCHANGED Solved
    BY <1>5 DEF Solved
  <2> QED BY <1>5, <2>1 DEF Once!vars, Solved
<1> QED BY <1>0, <1>1, <1>2, <1>3, <1>4, <1>5, SolveSteps DEF Begins, Solving

\* While no job's write to the table is lost, the queue with its crashes, boots,
\* quits and clears implements SolveOnce.
THEOREM SolvesOnce == Spec /\ [](lossy = {}) => ImplementsSolveOnce
<1>1. IInv /\ CInv /\ TInv /\ [Next]_vars /\ lossy = {} /\ (lossy = {})'
        => [Once!Next]_(Once!vars)
  BY OnceStep DEF IInv, CInv, TInv
<1> QED
  BY Invariance, ControlInvariance, TableInvariance, OnceInit, <1>1, PTL
  DEF Spec, ImplementsSolveOnce, Once!Spec

\* The queue whose table operations all succeed loses no write.
LEMMA NoneLost == ASSUME MaxFaults = 0 PROVE Spec => [](lossy = {})
<1> DEFINE Safe == lossy = {}
<1>1. Init => Safe
  BY DEF Init
<1>2. TypeOK /\ Safe /\ [Next]_vars => Safe'
  <2> SUFFICES ASSUME TypeOK, Safe, [Next]_vars PROVE Safe'
    OBVIOUS
  <2> USE DEF tabVars
  <2>1. ~(faults < MaxFaults)
    BY DEF TypeOK
  <2>2. ASSUME NEW p \in Projects, NEW k \in Kinds, Register(p, k) PROVE Safe'
    BY <2>2 DEF Register
  <2>3. ASSUME NEW j \in Jobs,
               InsertBuild(j) \/ InsertCommit(j) \/ InsertRaise(j) \/ Publish(j) \/ BootJob(j)
        PROVE  Safe'
    BY <2>1, <2>3 DEF InsertBuild, InsertCommit, InsertRaise, Publish, BootJob, NoLoss, Lose
  <2>4. ASSUME NEW j \in Jobs, Abort(j) \/ SweepJob(j) \/ QuitJob(j) PROVE Safe'
    BY <2>4 DEF Abort, SweepJob, QuitJob, Calling, QueueOp
  <2>5. ASSUME NEW j \in Jobs, ClientLoad(j) \/ ClientCommit(j) \/ ClientLost(j) \/ Signal(j)
        PROVE  Safe'
    BY <2>1, <2>5 DEF ClientLoad, ClientCommit, ClientLost, Signal, NoLoss, Lose
  <2>6. ASSUME NEW w \in Workers, Worker(w) \/ WorkerLoss(w) PROVE Safe'
    BY <2>1, <2>6 DEF Worker, WorkerLoss, Get, PassGate, TakeSlot, Claim, Mark, MarkLost,
                      Solve, Finish, Mirror, MirrorLost, Release, NoLoss, Lose
  <2>7. CASE Controls
    BY <2>7 DEF Controls, SweepStart, ClearMemory, ClearLoad, ClearTable, Pause, Resume,
                QuitDrain, QuitSnapshot, QuitWait, QueueOp, vars
  <2>8. CASE Die \/ Boot \/ BootDone
    BY <2>1, <2>8 DEF Die, Boot, BootDone
  <2> QED BY <2>2, <2>3, <2>4, <2>5, <2>6, <2>7, <2>8, AllSteps
<1> QED BY TypeCorrect, <1>1, <1>2, PTL DEF Spec

\* So it implements SolveOnce, for any number of jobs, threads and deaths.
THEOREM Refinement == ASSUME MaxFaults = 0 PROVE Spec => ImplementsSolveOnce
BY NoneLost, SolvesOnce, PTL
=============================================================================
