----------------------------- MODULE SolveQueue -----------------------------
(***************************************************************************)
(* The solve queue of the desktop and web backend:                         *)
(* services/solve_queue.py (the in-memory queue and its dispatcher         *)
(* threads), services/solve_job_store.py (the `solve_jobs` table) and the  *)
(* routes and boot and quit sequences that drive them.                     *)
(*                                                                         *)
(* One step is one critical section of `SolveQueue._lock`, one SQL         *)
(* statement or commit, or one blocking call (queue get, pause gate,       *)
(* condition wait, solve).  A mirror of a status to the table is two steps *)
(* (the SELECT and the COMMIT), because `record_status` runs outside the   *)
(* lock and SQLite opens no transaction for a SELECT.                      *)
(*                                                                         *)
(* Jobs are numbered in registration order, so `_order` is the resident    *)
(* jobs in increasing order, and so is a table scan by `enqueued_at`.      *)
(* Bounds: MaxJobs enqueues, MaxRestarts process deaths, MaxFaults lost    *)
(* table operations, one abort or cancel call per job at a time, one bulk  *)
(* cancel and one clear at a time.                                         *)
(*                                                                         *)
(* An operator introduced as "a plausible bug" is not part of the model:   *)
(* it is a wrong form of the definition below it, kept to show that the    *)
(* properties tell the two apart.                                          *)
(***************************************************************************)
EXTENDS Naturals, Sequences, FiniteSets

CONSTANTS
  Projects,       \* project identities (`project_key`)
  Kinds,          \* job kinds of this installation, a set with "solve"
  Workers,        \* dispatcher threads
  MaxConcurrent,  \* MAX_CONCURRENT_SOLVES; below |Workers| once lowered
  Outcomes,       \* how a runner may end
  Ops,            \* the client operations this instance exercises
  MaxJobs, MaxRestarts, MaxFaults

Active   == {"queued", "running"}
Terminal == {"completed", "failed", "aborted", "interrupted"}
Status   == Active \cup Terminal
Jobs     == 1 .. MaxJobs
None     == 0                       \* no job; not an element of Jobs
AllOps   == {"abort", "bulk", "pause", "quit", "clear", "requeue",
             "forksweep", "downgrade"}

ASSUME BoundsAssumption ==
  /\ MaxJobs \in Nat /\ MaxRestarts \in Nat /\ MaxFaults \in Nat
  /\ MaxConcurrent \in Nat \ {0}
ASSUME SetsAssumption ==
  /\ "solve" \in Kinds
  /\ Outcomes \subseteq {"completed", "failed", "aborted"}
  /\ Ops \subseteq AllOps
  /\ Projects # {}
ASSUME WorkersAssumption == IsFiniteSet(Workers)

VARIABLES
  proj, kind,           \* a job's project and kind, once made
  next,                 \* how many jobs were ever registered
  resident,             \* the ids in `_jobs`
  st,                   \* `SolveJob.status`
  cancelled,            \* jobs whose `cancelled` flag is set
  stop,                 \* jobs whose stop event is set
  q,                    \* the `queue.Queue` of ids
  runningIds,           \* `_running_ids`
  paused, draining,     \* `_resumed` cleared; `_draining` set
  pc, wjob, wend,       \* a worker's step, job and final status
  call, built,          \* an enqueue call's step; the status its row carries
  cpc, cval, csig,      \* an abort/cancel call's step, read status, signal due
  sweep,                \* jobs a bulk cancel has still to visit
  quit, qlist,          \* the quit sequence and the jobs it has still to abort
  clearing, doomed,     \* a clear's step; the ids it is to delete
  row,                  \* `solve_jobs.status`, "none" when there is no row
  phase, todo,          \* the process; the rows boot has still to restore
  storage, known,       \* project directories on disk; kinds this build knows
  restarts, faults,     \* counters against the bounds
  begun, asked,         \* history: jobs ever solved; jobs somebody asked to stop
  acked, lossy          \* history: cancels that landed; jobs with a lost write

jobVars  == <<proj, kind, next>>
memVars  == <<resident, st, cancelled, stop>>
gateVars == <<q, runningIds, paused, draining>>
workVars == <<pc, wjob, wend>>
enqVars  == <<call, built>>
cliVars  == <<cpc, cval, csig>>
opVars   == <<sweep, quit, qlist, clearing, doomed>>
procVars == <<phase, todo, storage, known, restarts>>
histVars == <<begun, asked, acked>>
tabVars  == <<row, faults, lossy>>
vars == <<jobVars, memVars, gateVars, workVars, enqVars, cliVars, opVars,
          procVars, histVars, tabVars>>

\* j comes first in S: lists of jobs are in registration order.
First(j, S) == j \in S /\ \A i \in S : j <= i

Init ==
  /\ proj = [j \in Jobs |-> CHOOSE p \in Projects : TRUE]
  /\ kind = [j \in Jobs |-> "solve"]
  /\ next = 0
  /\ resident = {} /\ cancelled = {} /\ stop = {}
  /\ st = [j \in Jobs |-> "queued"]
  /\ q = <<>> /\ runningIds = {} /\ paused = FALSE /\ draining = FALSE
  /\ pc = [w \in Workers |-> "get"]
  /\ wjob = [w \in Workers |-> None]
  /\ wend = [w \in Workers |-> "failed"]
  /\ call = [j \in Jobs |-> "none"]
  /\ built = [j \in Jobs |-> "queued"]
  /\ cpc = [j \in Jobs |-> "idle"]
  /\ cval = [j \in Jobs |-> "queued"]
  /\ csig = {}
  /\ sweep = {} /\ quit = "no" /\ qlist = {} /\ clearing = "no" /\ doomed = {}
  /\ row = [j \in Jobs |-> "none"]
  /\ phase = "up" /\ todo = {} /\ storage = Projects /\ known = Kinds
  /\ restarts = 0 /\ faults = 0
  /\ begun = {} /\ asked = {} /\ acked = {} /\ lossy = {}

-----------------------------------------------------------------------------
(* The table: `record_status` in two steps, and its loss.                  *)

\* A plausible bug: the regression guard the wrong way round.
WritesLive(j, s) ==
  /\ row[j] # "none"
  /\ row[j] # s
  /\ ~(row[j] \in Active /\ s \in Terminal)
\* The SELECT half decides whether there is anything to write: the row must
\* exist, differ, and a terminal row takes no live status.
Writes(j, s) ==
  /\ row[j] # "none"
  /\ row[j] # s
  /\ ~(row[j] \in Terminal /\ s \notin Terminal)

\* The UPDATE by primary key; a row deleted meanwhile is not written.
Store(j, s) ==
  row' = IF row[j] = "none" THEN row ELSE [row EXCEPT ![j] = s]

\* One table operation of job j raises and is swallowed.
Lose(j) ==
  /\ faults < MaxFaults
  /\ faults' = faults + 1
  /\ lossy' = lossy \cup {j}

NoLoss == UNCHANGED <<faults, lossy>>

-----------------------------------------------------------------------------
(* Enqueue: register under the lock, INSERT outside it, then publish.      *)

\* Two plausible bugs: a running job does not count; a missing key matches
\* every job.
ActiveJobQueued(p) == \E i \in resident : proj[i] = p /\ st[i] = "queued"
ActiveJobUnkeyed(p) == \E i \in resident : p \in Projects /\ st[i] \in Active
\* `_active_job_locked`: some job of the project is queued or running.
ActiveJob(p) == \E i \in resident : proj[i] = p /\ st[i] \in Active

Register(p, k) ==
  LET j == next + 1 IN
  /\ phase = "up" /\ next < MaxJobs
  /\ p \in storage
  /\ ~ActiveJob(p)
  /\ next' = j
  /\ proj' = [proj EXCEPT ![j] = p]
  /\ kind' = [kind EXCEPT ![j] = k]
  /\ resident' = resident \cup {j}
  /\ st' = [st EXCEPT ![j] = "queued"]
  /\ call' = [call EXCEPT ![j] = "insert"]
  /\ UNCHANGED <<cancelled, stop, built, gateVars, workVars, cliVars, opVars,
                 procVars, histVars, tabVars>>

Enqueue(p, k) == k \in known /\ Register(p, k)

\* What a caller sees of a job: memory first, the table for the rest.
Seen(j) == IF j \in resident THEN st[j] ELSE row[j]

\* The route calls `enqueue_unique` without a kind, so a solve is queued.
Requeue(j) ==
  /\ "requeue" \in Ops
  /\ Seen(j) \in Terminal
  /\ Register(proj[j], "solve")

InsertBuild(j) ==
  /\ call[j] = "insert"
  /\ built' = [built EXCEPT ![j] = st[j]]
  /\ call' = [call EXCEPT ![j] = "commit"]
  /\ UNCHANGED <<jobVars, memVars, gateVars, workVars, cliVars, opVars,
                 procVars, histVars, tabVars>>

InsertCommit(j) ==
  /\ call[j] = "commit"
  /\ \/ row' = [row EXCEPT ![j] = built[j]] /\ NoLoss
     \/ Lose(j) /\ UNCHANGED row
  /\ call' = [call EXCEPT ![j] = "publish"]
  /\ built' = [built EXCEPT ![j] = "queued"]
  /\ UNCHANGED <<jobVars, memVars, gateVars, workVars, cliVars, opVars,
                 procVars, histVars>>

\* A programming error: the half-registered job is undone and the call fails.
InsertRaise(j) ==
  /\ call[j] = "insert"
  /\ Lose(j)
  /\ resident' = resident \ {j}
  /\ call' = [call EXCEPT ![j] = "refused"]
  /\ UNCHANGED <<jobVars, st, cancelled, stop, gateVars, workVars, built,
                 cliVars, opVars, procVars, histVars, row>>

Publish(j) ==
  /\ call[j] = "publish"
  /\ q' = Append(q, j)
  /\ call' = [call EXCEPT ![j] = "done"]
  /\ UNCHANGED <<jobVars, memVars, runningIds, paused, draining, workVars,
                 built, cliVars, opVars, procVars, histVars, tabVars>>

Enqueuing(j) == InsertBuild(j) \/ InsertCommit(j) \/ Publish(j)

-----------------------------------------------------------------------------
(* The dispatcher threads: `_dispatch_loop` and the runners.               *)

At(w, step) == pc[w] = step
Goto(w, step) == pc' = [pc EXCEPT ![w] = step]

\* `_q.get()`: blocks on an empty queue, takes its head.
Get(w) ==
  /\ At(w, "get") /\ q # <<>>
  /\ wjob' = [wjob EXCEPT ![w] = Head(q)]
  /\ q' = Tail(q)
  /\ Goto(w, "gate")
  /\ UNCHANGED <<jobVars, memVars, runningIds, paused, draining, wend, enqVars,
                 cliVars, opVars, procVars, histVars, tabVars>>

\* `_resumed.wait()`, after the pop and before the claim.
PassGate(w) ==
  /\ At(w, "gate") /\ ~paused
  /\ Goto(w, "slot")
  /\ UNCHANGED <<jobVars, memVars, gateVars, wjob, wend, enqVars, cliVars,
                 opVars, procVars, histVars, tabVars>>

\* A plausible bug: off by one at the cap.
RoomForOneMore == Cardinality(runningIds) <= MaxConcurrent
\* Under `_slot_free`: wait while the cap is met, skip a job that was dropped
\* or finished in the queue, otherwise take a slot.
Room == Cardinality(runningIds) < MaxConcurrent
Dead(j) == j \notin resident \/ j \in cancelled \/ st[j] \in Terminal
TakeSlot(w) ==
  LET j == wjob[w] IN
  /\ At(w, "slot")
  /\ \/ ~Room /\ Goto(w, "wait") /\ UNCHANGED runningIds
     \/ Room /\ Dead(j) /\ Goto(w, "release") /\ UNCHANGED runningIds
     \/ /\ Room /\ ~Dead(j)
        /\ Goto(w, "claim")
        /\ runningIds' = runningIds \cup {j}
  /\ UNCHANGED <<jobVars, memVars, q, paused, draining, wjob, wend, enqVars,
                 cliVars, opVars, procVars, histVars, tabVars>>

\* Three plausible bugs: the claim forgets the drain; it forgets the cancel;
\* a job refused by the drain is ended like a cancelled one.
VerdictUndrained(j) == IF j \in cancelled THEN "cancelled" ELSE "claimed"
VerdictUncancelled(j) == IF draining /\ j \in Jobs THEN "parked" ELSE "claimed"
VerdictUnparked(j) == IF j \in cancelled \/ draining THEN "cancelled" ELSE "claimed"
\* The claim's answer: a cancel that landed since the slot was taken ends the
\* job, a draining queue leaves it queued for the next boot.
Verdict(j) == IF j \in cancelled THEN "cancelled"
              ELSE IF draining THEN "parked" ELSE "claimed"

\* The claim: read the verdict and flip the status in one critical section.
Claim(w) ==
  LET j == wjob[w] IN
  /\ At(w, "claim")
  /\ \/ /\ Verdict(j) = "cancelled"
        /\ wend' = [wend EXCEPT ![w] = "aborted"]
        /\ Goto(w, "finish")
        /\ UNCHANGED st
     \/ /\ Verdict(j) = "parked"
        /\ Goto(w, "release")
        /\ UNCHANGED <<st, wend>>
     \/ /\ Verdict(j) = "claimed"
        /\ st' = [st EXCEPT ![j] = "running"]
        /\ Goto(w, "mark")
        /\ UNCHANGED wend
  /\ UNCHANGED <<jobVars, resident, cancelled, stop, gateVars, wjob, enqVars,
                 cliVars, opVars, procVars, histVars, tabVars>>

\* The runner proper starts.
Start(w) ==
  /\ Goto(w, "solve")
  /\ begun' = begun \cup {wjob[w]}
  /\ UNCHANGED <<jobVars, memVars, gateVars, wjob, wend, enqVars, cliVars,
                 opVars, procVars, asked, acked>>

\* The mirror of `running`, and the runner's start behind it.
Mark(w) ==
  LET j == wjob[w] IN
  \/ /\ At(w, "mark") /\ Writes(j, "running")
     /\ Goto(w, "markw")
     /\ UNCHANGED <<jobVars, memVars, gateVars, wjob, wend, enqVars, cliVars,
                    opVars, procVars, histVars, tabVars>>
  \/ /\ At(w, "mark") /\ ~Writes(j, "running")
     /\ Start(w) /\ UNCHANGED tabVars
  \/ /\ At(w, "markw")
     /\ Start(w) /\ Store(j, "running") /\ NoLoss
MarkLost(w) ==
  /\ pc[w] \in {"mark", "markw"}
  /\ Start(w) /\ Lose(wjob[w]) /\ UNCHANGED row

\* The runner ends: on its own, stopped, or superseded by a newer run.
Solve(w) ==
  /\ At(w, "solve")
  /\ \E o \in Outcomes : wend' = [wend EXCEPT ![w] = o]
  /\ Goto(w, "finish")
  /\ UNCHANGED <<jobVars, memVars, gateVars, wjob, enqVars, cliVars, opVars,
                 procVars, histVars, tabVars>>

\* The terminal status flip, then its mirror.
Finish(w) ==
  /\ At(w, "finish")
  /\ st' = [st EXCEPT ![wjob[w]] = wend[w]]
  /\ Goto(w, "mirror")
  /\ UNCHANGED <<jobVars, resident, cancelled, stop, gateVars, wjob, wend,
                 enqVars, cliVars, opVars, procVars, histVars, tabVars>>

Mirror(w) ==
  LET j == wjob[w] IN
  /\ \/ At(w, "mirror") /\ Writes(j, wend[w]) /\ Goto(w, "mirrorw")
        /\ UNCHANGED row
     \/ At(w, "mirror") /\ ~Writes(j, wend[w]) /\ Goto(w, "release")
        /\ UNCHANGED row
     \/ At(w, "mirrorw") /\ Store(j, wend[w]) /\ Goto(w, "release")
  /\ NoLoss
  /\ UNCHANGED <<jobVars, memVars, gateVars, wjob, wend, enqVars, cliVars,
                 opVars, procVars, histVars>>
MirrorLost(w) ==
  /\ pc[w] \in {"mirror", "mirrorw"}
  /\ Lose(wjob[w]) /\ Goto(w, "release")
  /\ UNCHANGED <<jobVars, memVars, gateVars, wjob, wend, enqVars, cliVars,
                 opVars, procVars, histVars, row>>

\* A plausible bug: the slot is given back without the notify.
ReleaseSilently(w) ==
  /\ At(w, "release")
  /\ runningIds' = runningIds \ {wjob[w]}
  /\ wjob' = [wjob EXCEPT ![w] = None]
  /\ wend' = [wend EXCEPT ![w] = "failed"]
  /\ Goto(w, "get")
  /\ UNCHANGED <<jobVars, memVars, q, paused, draining, enqVars, cliVars,
                 opVars, procVars, histVars, tabVars>>
\* The loop's `finally`: give the slot back and wake one waiting thread.
Release(w) ==
  LET waiting == {v \in Workers : At(v, "wait")} IN
  /\ At(w, "release")
  /\ runningIds' = runningIds \ {wjob[w]}
  /\ wjob' = [wjob EXCEPT ![w] = None]
  /\ wend' = [wend EXCEPT ![w] = "failed"]
  /\ \/ waiting = {} /\ pc' = [pc EXCEPT ![w] = "get"]
     \/ \E v \in waiting : pc' = [pc EXCEPT ![w] = "get", ![v] = "slot"]
  /\ UNCHANGED <<jobVars, memVars, q, paused, draining, enqVars, cliVars,
                 opVars, procVars, histVars, tabVars>>

Worker(w) ==
  \/ Get(w) \/ PassGate(w) \/ TakeSlot(w) \/ Claim(w) \/ Mark(w)
  \/ Solve(w) \/ Finish(w) \/ Mirror(w) \/ Release(w)
WorkerLoss(w) == MarkLost(w) \/ MirrorLost(w)

-----------------------------------------------------------------------------
(* Client calls on one job: abort, and the bulk cancel's conditional form. *)

\* Two plausible bugs: the bulk cancel is an abort, which also stops a running
\* job; the flag's name is written as the status.
CancelOrStop(j) ==
  \/ /\ st[j] = "queued"
     /\ cancelled' = cancelled \cup {j}
     /\ st' = [st EXCEPT ![j] = "aborted"]
     /\ UNCHANGED <<csig, asked>>
  \/ /\ st[j] = "running"
     /\ csig' = csig \cup {j}
     /\ UNCHANGED <<cancelled, st, asked>>
CancelMislabelled(j) ==
  /\ st[j] = "queued"
  /\ cancelled' = cancelled \cup {j}
  /\ st' = [st EXCEPT ![j] = "cancelled"]
  /\ UNCHANGED <<csig, asked>>
\* What `cancel_if_queued` and the queued branch of `abort` do under the lock.
CancelQueued(j) ==
  /\ st[j] = "queued"
  /\ cancelled' = cancelled \cup {j}
  /\ st' = [st EXCEPT ![j] = "aborted"]
  /\ UNCHANGED <<csig, asked>>

\* `abort` under the lock: a running job's event is fetched to be set later.
AbortLocked(j) ==
  \/ CancelQueued(j)
  \/ /\ st[j] = "running"
     /\ csig' = csig \cup {j} /\ asked' = asked \cup {j}
     /\ UNCHANGED <<cancelled, st>>
  \/ st[j] \in Terminal /\ UNCHANGED <<cancelled, st, csig, asked>>

Calling(j) ==
  /\ phase = "up" /\ cpc[j] = "idle" /\ j \in resident
  /\ cpc' = [cpc EXCEPT ![j] = "load"]
  /\ UNCHANGED <<jobVars, resident, stop, gateVars, workVars, enqVars, cval,
                 procVars, begun, acked, tabVars>>

Abort(j) ==
  /\ "abort" \in Ops
  /\ Calling(j) /\ AbortLocked(j) /\ UNCHANGED opVars

\* The call's mirror has ended: signal if an event was fetched, else return.
\* A sweep or a quit that visits job j goes on to its next job.
AfterMirror(j) ==
  /\ cpc' = [cpc EXCEPT ![j] = IF j \in csig THEN "signal" ELSE "idle"]
  /\ cval' = [cval EXCEPT ![j] = "queued"]
  /\ sweep' = sweep \ {j}
  /\ qlist' = IF j \in csig THEN qlist ELSE qlist \ {j}
  /\ UNCHANGED <<csig, quit, clearing, doomed>>

\* A cancel whose mirror landed is acknowledged.
Landed(j) ==
  /\ acked' = IF j \in cancelled THEN acked \cup {j} ELSE acked
  /\ UNCHANGED <<begun, asked>>

ClientLoad(j) ==
  /\ cpc[j] = "load"
  /\ \/ /\ Writes(j, st[j])
        /\ cpc' = [cpc EXCEPT ![j] = "commit"]
        /\ cval' = [cval EXCEPT ![j] = st[j]]
        /\ UNCHANGED <<csig, opVars, histVars>>
     \/ row[j] = st[j] /\ AfterMirror(j) /\ Landed(j)
     \/ row[j] # st[j] /\ ~Writes(j, st[j]) /\ AfterMirror(j)
        /\ UNCHANGED histVars
  /\ UNCHANGED <<jobVars, memVars, gateVars, workVars, enqVars, procVars,
                 tabVars>>

ClientCommit(j) ==
  /\ cpc[j] = "commit"
  /\ Store(j, cval[j]) /\ NoLoss
  /\ AfterMirror(j)
  /\ IF row[j] = "none" THEN UNCHANGED histVars ELSE Landed(j)
  /\ UNCHANGED <<jobVars, memVars, gateVars, workVars, enqVars, procVars>>

ClientLost(j) ==
  /\ cpc[j] \in {"load", "commit"}
  /\ Lose(j) /\ AfterMirror(j)
  /\ UNCHANGED <<jobVars, memVars, gateVars, workVars, enqVars, procVars,
                 histVars, row>>

\* `ev.set()`, after the mirror and outside the lock.
Signal(j) ==
  /\ cpc[j] = "signal"
  /\ cpc' = [cpc EXCEPT ![j] = "idle"]
  /\ stop' = stop \cup {j}
  /\ csig' = csig \ {j}
  /\ qlist' = qlist \ {j}
  /\ UNCHANGED <<jobVars, resident, st, cancelled, gateVars, workVars, enqVars,
                 cval, sweep, quit, clearing, doomed, procVars, histVars,
                 tabVars>>

Client(j) == ClientLoad(j) \/ ClientCommit(j) \/ Signal(j)

-----------------------------------------------------------------------------
(* Controls of the whole queue: bulk cancel, clear, pause, quit.           *)

QueueOp(op) ==
  /\ op \in Ops /\ phase = "up"
  /\ UNCHANGED <<jobVars, workVars, enqVars, procVars, histVars>>

\* `cancel_queued`: a snapshot of the queued jobs,
SweepStart ==
  /\ QueueOp("bulk") /\ sweep = {}
  /\ sweep' = {j \in resident : st[j] = "queued"}
  /\ UNCHANGED <<memVars, gateVars, cliVars, quit, qlist, clearing, doomed,
                 tabVars>>
\* then each in turn: passed over when the caller may not abort it or it is
\* no longer queued, cancelled otherwise.
SweepJob(j) ==
  /\ First(j, sweep) /\ cpc[j] = "idle"
  /\ \/ /\ sweep' = sweep \ {j}
        /\ QueueOp("bulk")
        /\ UNCHANGED <<memVars, gateVars, cliVars, quit, qlist, clearing,
                       doomed, tabVars>>
     \/ Calling(j) /\ CancelQueued(j) /\ UNCHANGED opVars

\* `clear_finished` pops the terminal jobs,
ClearMemory ==
  /\ QueueOp("clear") /\ clearing = "no"
  /\ clearing' = "load"
  /\ doomed' = {j \in resident : st[j] \in Terminal}
  /\ resident' = resident \ doomed'
  /\ UNCHANGED <<st, cancelled, stop, gateVars, cliVars, sweep, quit, qlist,
                 tabVars>>
\* A plausible bug: the rows of every status are read.
FinishedRowAny(j) == row[j] # "none"
FinishedRow(j) == row[j] \in Terminal
\* adds the ids of the terminal rows (of none, when the read fails),
ClearLoad ==
  /\ QueueOp("clear") /\ clearing = "load"
  /\ clearing' = "delete"
  /\ \/ doomed' = doomed \cup {j \in Jobs : FinishedRow(j)} /\ UNCHANGED faults
     \/ faults < MaxFaults /\ faults' = faults + 1 /\ UNCHANGED doomed
  /\ UNCHANGED <<memVars, gateVars, cliVars, sweep, quit, qlist, row, lossy>>
\* and deletes those rows.
ClearTable ==
  /\ QueueOp("clear") /\ clearing = "delete"
  /\ clearing' = "no" /\ doomed' = {}
  /\ \/ row' = [j \in Jobs |-> IF j \in doomed THEN "none" ELSE row[j]]
        /\ UNCHANGED faults
     \/ faults < MaxFaults /\ faults' = faults + 1 /\ UNCHANGED row
  /\ UNCHANGED <<memVars, gateVars, cliVars, sweep, quit, qlist, lossy>>

Pause ==
  /\ QueueOp("pause") /\ ~paused /\ paused' = TRUE
  /\ UNCHANGED <<memVars, q, runningIds, draining, cliVars, opVars, tabVars>>
Resume ==
  /\ QueueOp("pause") /\ paused /\ paused' = FALSE
  /\ UNCHANGED <<memVars, q, runningIds, draining, cliVars, opVars, tabVars>>

\* The desktop quit: stop dispatching, snapshot the running jobs, abort each,
\* wait for them to unwind.
QuitDrain ==
  /\ QueueOp("quit") /\ quit = "no"
  /\ quit' = "drain" /\ draining' = TRUE
  /\ UNCHANGED <<memVars, q, runningIds, paused, cliVars, sweep, qlist,
                 clearing, doomed, tabVars>>
QuitSnapshot ==
  /\ QueueOp("quit") /\ quit = "drain"
  /\ quit' = "signal"
  /\ qlist' = {j \in resident : st[j] = "running"}
  /\ UNCHANGED <<memVars, gateVars, cliVars, sweep, clearing, doomed, tabVars>>
QuitJob(j) ==
  /\ First(j, qlist) /\ cpc[j] = "idle"
  /\ \/ Calling(j) /\ AbortLocked(j) /\ UNCHANGED opVars
     \/ /\ QueueOp("quit") /\ j \notin resident
        /\ qlist' = qlist \ {j}
        /\ UNCHANGED <<memVars, gateVars, cliVars, sweep, quit, clearing,
                       doomed, tabVars>>
QuitWait ==
  /\ QueueOp("quit") /\ quit = "signal" /\ qlist = {}
  /\ quit' = "wait"
  /\ UNCHANGED <<memVars, gateVars, cliVars, sweep, qlist, clearing, doomed,
                 tabVars>>

-----------------------------------------------------------------------------
(* The process: death, and the boot that reconciles the table.             *)

\* A crash at any point, or the exit that ends a quit: memory is gone, the
\* table stays.
Die ==
  /\ phase # "down" /\ restarts < MaxRestarts
  /\ restarts' = restarts + 1
  /\ phase' = "down" /\ todo' = {}
  /\ resident' = {} /\ cancelled' = {} /\ stop' = {}
  /\ st' = [j \in Jobs |-> "queued"]
  /\ q' = <<>> /\ runningIds' = {} /\ paused' = FALSE /\ draining' = FALSE
  /\ pc' = [w \in Workers |-> "get"]
  /\ wjob' = [w \in Workers |-> None]
  /\ wend' = [w \in Workers |-> "failed"]
  /\ call' = [j \in Jobs |-> IF call[j] \in {"insert", "commit", "publish"}
                             THEN "cut" ELSE call[j]]
  /\ built' = [j \in Jobs |-> "queued"]
  /\ cpc' = [j \in Jobs |-> "idle"]
  /\ cval' = [j \in Jobs |-> "queued"]
  /\ csig' = {} /\ sweep' = {} /\ quit' = "no" /\ qlist' = {}
  /\ clearing' = "no" /\ doomed' = {}
  /\ asked' = {}
  /\ UNCHANGED <<jobVars, storage, known, begun, acked, tabVars>>

\* A plausible bug: a job cut short goes back into the queue.
RetryAfterDeath(s) == IF s = "running" THEN "queued" ELSE s
AfterDeath(s) == IF s = "running" THEN "interrupted" ELSE s
\* The start of the next process: study forks may be swept, the build may know
\* fewer kinds; then every `running` row becomes `interrupted` and the queued
\* rows are read.  When the first read fails the running rows stay, when their
\* commit raises reconciliation ends there, and when the second read fails no
\* queued row is seen.
Boot ==
  LET queued == {j \in Jobs : row'[j] = "queued"}
      missed == todo' = {} /\ lossy' = lossy \cup queued
      seen   == todo' = queued /\ UNCHANGED lossy
  IN
  /\ phase = "down"
  /\ phase' = "booting"
  /\ \/ storage' = storage
     \/ "forksweep" \in Ops /\ storage' \in SUBSET storage
  /\ \/ known' = known
     \/ "downgrade" \in Ops /\ known' \in {K \in SUBSET known : "solve" \in K}
  /\ \/ /\ row' = [j \in Jobs |-> AfterDeath(row[j])]
        /\ seen /\ UNCHANGED faults
     \/ /\ faults < MaxFaults /\ faults' = faults + 1
        /\ \/ UNCHANGED row /\ (seen \/ missed)
           \/ row' = [j \in Jobs |-> AfterDeath(row[j])] /\ missed
  /\ UNCHANGED <<jobVars, memVars, gateVars, workVars, enqVars, cliVars,
                 opVars, restarts, histVars>>

\* A plausible bug: only the kind of a restored row is checked.
UnknownKind(j) == kind[j] \notin known
Unrunnable(j) == kind[j] \notin known \/ proj[j] \notin storage
\* One queued row, oldest first: a row this process cannot run is failed, a
\* second row of an active project is left for the next boot, any other row is
\* restored under its own id.
BootJob(j) ==
  /\ phase = "booting" /\ First(j, todo)
  /\ todo' = todo \ {j}
  /\ \/ /\ Unrunnable(j)
        /\ row' = [row EXCEPT ![j] = "failed"]
        /\ UNCHANGED <<resident, st, q>>
     \/ /\ ~Unrunnable(j) /\ ActiveJob(proj[j])
        /\ UNCHANGED <<resident, st, q, row>>
     \/ /\ ~Unrunnable(j) /\ ~ActiveJob(proj[j])
        /\ resident' = resident \cup {j}
        /\ st' = [st EXCEPT ![j] = "queued"]
        /\ q' = Append(q, j)
        /\ UNCHANGED row
  /\ UNCHANGED <<jobVars, cancelled, stop, runningIds, paused, draining,
                 workVars, enqVars, cliVars, opVars, phase, storage, known,
                 restarts, histVars, faults, lossy>>

\* Requests are accepted once the rows are done, or once reconciliation raised.
BootDone ==
  /\ phase = "booting"
  /\ phase' = "up" /\ todo' = {}
  /\ \/ todo = {} /\ UNCHANGED <<faults, lossy>>
     \/ /\ todo # {} /\ faults < MaxFaults /\ faults' = faults + 1
        /\ lossy' = lossy \cup todo
  /\ UNCHANGED <<jobVars, memVars, gateVars, workVars, enqVars, cliVars,
                 opVars, storage, known, restarts, histVars, row>>

Booting == Boot \/ BootDone \/ \E j \in Jobs : BootJob(j)

-----------------------------------------------------------------------------
Next ==
  \/ \E p \in Projects, k \in Kinds : Enqueue(p, k)
  \/ \E j \in Jobs : Requeue(j) \/ Enqueuing(j) \/ InsertRaise(j)
  \/ \E w \in Workers : Worker(w) \/ WorkerLoss(w)
  \/ \E j \in Jobs : Abort(j) \/ Client(j) \/ ClientLost(j)
  \/ \E j \in Jobs : SweepJob(j) \/ QuitJob(j)
  \/ SweepStart \/ ClearMemory \/ ClearLoad \/ ClearTable \/ Pause \/ Resume
  \/ QuitDrain \/ QuitSnapshot \/ QuitWait
  \/ Die \/ Booting

Spec == Init /\ [][Next]_vars

\* Every thread that can run does: the dispatcher threads, the request threads
\* inside an enqueue or an abort, the boot.  A solve ends (it honours its stop
\* event and a solver time limit).  Nothing else is fair: nobody has to
\* enqueue, resume, or quit.
Fairness ==
  /\ \A w \in Workers : WF_vars(Worker(w))
  /\ \A j \in Jobs : WF_vars(Enqueuing(j)) /\ WF_vars(Client(j))
  /\ WF_vars(Booting)

FairSpec == Spec /\ Fairness
=============================================================================
