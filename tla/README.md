# Verification of the pypsa-gui backend

TLA+ models, TLC configurations and TLAPS proofs for the backend of pypsa-gui
(`src/pypsa-gui/backend`), the FastAPI application and desktop shell around the
PyPSA-Eur energy-system models. Paths below are relative to that directory.

Five parts are modelled, each a component whose failure costs a user work,
money or a restart, and each a place where threads or processes meet:

- the **solve queue**: a job is not lost, not solved twice, not solved after it
  was cancelled, and not solved beside another job of its project;
- the **solver state** of one project: who may solve, study or save its network;
- the **context registry**: one in-memory context per project, evicted over a cap;
- the **send ledger** of an unattended run: what it may spend on model calls;
- the **shutdown sequence** of the desktop application.

## 1. Inventory

| Component | State it keeps | Operations | Hard behaviour | Status |
|---|---|---|---|---|
| Solve queue and dispatchers (`services/solve_queue.py`) | `_jobs`, `_order`, `_q`, `_running_ids`, pause and drain events, each job's status, cancel flag and stop event | enqueue_unique, restore, the dispatch loop, claim, finish, abort, cancel_if_queued, pause, resume, stop_dispatching, clear_finished, dismiss | threads, a condition variable, work outside the lock, a quit racing claims | `SolveQueue`, except dismiss, captures, results |
| Job table (`services/solve_job_store.py`) | rows `solve_jobs` | record_enqueued, record_status, load_by_status, delete_jobs, reconcile_on_boot, record_dismissed | read and commit apart, best-effort writes, crash recovery | `SolveQueue`, except dismissal |
| Queue routes (`routers/solve_queue.py`) | none of their own | enqueue, abort, requeue, cancel_queued, clear_finished, pause, resume, dismiss, list, log stream | act on snapshots that go stale | state-changing routes in `SolveQueue`, except dismiss |
| Desktop quit and boot (`desktop/gui.py`, `main.py`) | none of their own | `_abort_everything`; fork sweep, then reconciliation | order of steps, dying at any of them | `SolveQueue`, `Shutdown` |
| Solver-state ownership, saves, study mesh (`routers/simulation.py`, `results.py`, `projects.py`, `services/solver_service.py`, `adequacy/sweep.py`) | per context: owner thread, status, stop event, study records, the mutation lock, transient rows on the network | run, run_ac_pf, abort, force_reset, a job's claim and end, save, study start and trials | check and claim under one lock, verdicts in two steps, exits that skip a `finally` | `SolverState`; what a solve computes is left out |
| Context registry (`services/pypsa_service.py`, `project_context.py`) | resident contexts, hydrate locks with waiter counts, active ids, study-owned marks | register, evict, hydrate_or_adopt, activate, load, drop | a lock object created and dropped by its waiters; read in one lock, act in another; save after unregistering | `Contexts`, except study-owned marks, drafts, deletion |
| Send reservations (`harness/send_reservation.py`) | per run: open holds, final charges, caps | admit, settle, settle_uncertain, close_open, reconcile | retries, crashes, a lease that lapses, check and hold under one file lock | `SendLedger`, except the research scope and the report job's own sender |
| Harness runner (`harness/runner.py`) | per run: lease, status, step | tick, lease, takeover, recovery, stop | two processes, wall-clock leases | its lease and agent rounds in `SendLedger` |
| Durable conversation and tasks | task files | read-modify-write under file locks, step claims | crash between steps | its ledger calls in `SendLedger` |
| Shutdown sequence (`services/shutdown.py`) | the re-entry latch, the mutation gate, a report | gate, confirm, hide, abort and wait, flush, release locks, stop executor, stop server | veto, second close, a deadline that abandons the sequence | `Shutdown`, steps 6 to 8 as one |
| Project locks (`services/project_locks.py`, `harness_locks.py`) | holder, heartbeat | acquire, renew, release, expire | expiry racing a holder | not modelled; next of the plan |
| Solve captures (`services/solve_capture.py`) | directories named by jobs | capture, verify, remove, boot sweep | a sweep racing a writer, an unreadable table | not modelled; in the plan |
| Run envelope, run gates | admission records | admit unattended work | lock order | not modelled: mostly data checks |
| Chat session, turn loop, event log, history | messages, an append-only log | turns, tool calls, replay | cancellation; mostly text | not modelled |
| Decision studies (`services/study/`) | study records, forked projects | fork, queue solves, collect | seen as enqueues and as the boot sweep | not modelled on their own |
| Run evidence, undo, live speech, atomic files, storage reconciliation | files | write, restore, stream | I/O | not modelled |
| Myopic planning, PyPSA-Eur workflow, gridspine | networks | build and solve | numerical | not modelled: a solve is one step with any outcome |
| Frontend | client state | autosave, polling | reaches the backend by the routes only | not modelled |

How they interact: routes and studies call the queue; the queue calls the job
table outside its lock; a dispatcher thread resolves a project's context from
the registry, claims its solver state and runs the solver; the registry reads
the queue to decide what it must not evict; the shutdown sequence drains the
queue, flushes the contexts and ends the process; the boot sweeps leftover
study forks, reconciles the job table into a fresh queue, and then starts the
harness runner, whose runs queue solves and charge model calls to the ledger.

`PROJECT.json` lists the hazards of this code at their lines, each with the
properties that would catch it going wrong.

## 2. Modules

| Module | Content |
|---|---|
| `SolveQueue` | queue, dispatcher threads, job table, client calls, quit, death and boot |
| `SolveOnce` | the abstract promise of the queue: a job is solved at most once, exclusively per project, within a cap, over any number of process deaths |
| `SolverState` | one project's solver state and network lock, with its runs, power flows, jobs, saves and studies |
| `Contexts` | the registry over several projects: lookup, cold path, registration, re-opening, eviction, write-back |
| `SendLedger` | one run's file: lease, status and ledger rows, with the runner processes and the requests they send |
| `SpendCap` | the abstract promise of the ledger: commitments within a cap, bills within the commitments |
| `Shutdown` | close handler, sequence and the app around them |
| `<M>Props` | type invariant where it is not in `<M>`, invariants, action properties, refinement, liveness |
| `<M>Proofs` (of the queue also `SolveQueueControlProofs` and `SolveQueueTableProofs`) | inductive invariants and theorems |
| `MC<M>` | the TLC instance and, for interchangeable threads and projects, the symmetry |

The models meet at the same code from both sides. What `SolveQueue` calls
`Solve` is the whole life of a job in `SolverState`; what `SolverState` takes as
given, that its parties share one context, is what `Contexts` is about; the job
of `Contexts` and the solve of `Shutdown` are cut down to what the registry and
the close see of them. The modules are not composed into one: their product is
out of TLC's reach, and each abstraction is stated in the module's head.

### The queue against the code

One step is one critical section of `SolveQueue._lock`, one SQL statement or
commit, or one blocking call. Python threads may be switched between any two.

| Model | Code |
|---|---|
| `resident`, `st`, `cancelled`, `stop` | `_jobs`, `SolveJob.status`, `.cancelled`, `.stop_event` |
| `q`, `runningIds`, `paused`, `draining` | `_q`, `_running_ids`, `_resumed` (inverted), `_draining` |
| `pc`, `wjob`, `wend` | where a dispatcher thread is, the job it holds, the final status it is to record |
| `call`, `built` | where an enqueue is; the status its row was built with |
| `cpc`, `cval`, `csig` | where an abort or cancel call is; the status its mirror read; whether a stop event is still to be set |
| `sweep`, `qlist`, `quit`, `clearing`, `doomed` | the bulk cancel's and the quit's remaining jobs and step, the clear's step and ids |
| `row` | `solve_jobs.status` |
| `phase`, `todo`, `storage`, `known` | the process, the rows boot has still to restore, directories on disk, the kinds this build knows |
| `begun`, `asked`, `acked`, `lossy` | history, read by properties only (`lossy`: a table operation of the job was lost) |

*Enqueue*: `Register` (check and registration in one critical section),
`InsertBuild` and `InsertCommit` (the row is built from the job's status and
committed later), `Publish`. An operational failure of the INSERT is swallowed
and the job published anyway; a programming error undoes the registration
(`InsertRaise`).

*Dispatch*: `Get`, `PassGate`, `TakeSlot` (three outcomes: park on the
condition, skip a dead job, take a slot), `Claim` (cancelled, parked by a
drain, or running), `Mark` (mirror `running`, then the runner starts), `Solve`,
`Finish`, `Mirror`, `Release` (give back the slot and notify one thread). The
four runners (network solve, campus, gridspine, profile generation) claim and
finish the same way and are one `Solve` step.

*Mirrors*: `record_status` is a SELECT and a COMMIT with nothing held between.
`Writes` is the SELECT's decision: a missing row is not written, a terminal row
takes no live status, and an unchanged status is not part of the UPDATE.
`Store` is the UPDATE by primary key. Every mirror may be lost (`Lose`).

*Clients*: `Abort`, and `SweepJob` for the bulk cancel's conditional form, act
under the lock; `ClientLoad`, `ClientCommit` mirror; `Signal` sets the stop
event after the mirror, as the code does. A job that the caller may not abort
is passed over nondeterministically. `ClearMemory`, `ClearLoad`, `ClearTable`
are the three steps of the clear.

*Quit*: `QuitDrain`, `QuitSnapshot`, one abort per running job, `QuitWait`.
*Death and boot*: `Die` at any step; `Boot` marks running rows interrupted and
reads the queued ones; `BootJob` fails, skips or restores one row; `BootDone`
opens the process to requests, also when reconciliation raised half-way.

### The solver state against the code

`owner`, `status`, `stopOf` are `thread`, `status` and `stop_event` of a
context's `solver_state`; `lock` is its `mutation_lock`; `edits` is whose
transient edits the network carries (slack and vintage rows, a dispatch fix, a
contingency). `pc` gives each party's step and `outcome` what a solve returned.
One hold of `solver_state_lock` is one step.

*Claims*: `Claim` (foreground solve and power flow: study check, live-owner
check and the multi-key update in one hold), `JobClaim` (asks about studies
only). *Solve*: `Enter` takes the lock; `GoBack` leaves before anything was
applied; `Transform`; `Raise` leaves after it and before the LP, and `Restore`
is the except handler, which runs after the lock is let go; `Solve` is the LP
with its inner `finally`, under the lock. *Verdicts*: `Answer` asks who owns the
state and `Report` writes, in two holds; `FlowReport` never asks; a job goes
`JobReport`, its save, `JobEnds`, or `JobRaises` (any exception), `JobCatch`,
`JobFails`, `JobEnds`; `Dies` is a `/run` thread whose pricing raises. *Stops*:
`AbortReads`, `AbortTells`, `AbortMarks`; `ResetTells`, `ResetDisowns`;
`StopJob`. *Saves*: `SaveAsk` is the gate, `SaveLock` the second look under the
lock, `Export`. *Studies*: `StudyAsk`, `StudyLock` or `StudyTimesOut`,
`StudyPublish`, then `Mutate`, `Trial`, `TrialEnds`, `StudyEnds`.

### The registry against the code

`registry` is `_contexts`, `hydrate` is `_hydrate_locks` with its waiter counts,
`session` the durable pointers, `disk` the saved projects, `context` each
context's project, edits and whether it is solved on. A network is the set of
edits it holds, so a lost edit can be seen.

`hydrate_or_adopt` is `Hit`, or `Miss`, `Join` (become a waiter, create the
lock), `Acquire` (take it, read the registry again), the caller's body, `Unlock`,
`Drop` (stop being a waiter; the last one drops the entry). The bodies are
`Build` and `Register`; `SetActive` for a switch to a resident project;
`ReplaceAllowed` and `Replace` for a re-opening, whose `Load` first saves a
resident context that is not the caller's own and reads the disk then, before
the block. Every registration ends in `Probe` (who is protected, read without
the registry lock), `Evict` (under it) and `SaveDetached` (after it). `Point`
moves the session, `EditNetwork` and `Save` are the requests that change a
network, `SolveStarts` and `SolveEnds` a job's.

### The ledger against the code

`task` is the run's file: status, waiting, lease owner and whether the lease is
ahead of the clock, restarts and the ledger rows; `tick` and `flight` are a
process's runner thread and its round thread; `wire` is the request under each
hold with its bound and its bill. `_locked` holds the cross-process file lock
and the task lock, so each ledger operation is one step.

*Tick*: `BootSweep`, `Heartbeat`, `TakeLease`, `Recover`, the outcomes of a step
(`StepNothing`, `StepWaits`, `StepStops`, `StartRound`), errors (`TickErrs`,
`AccessLost`). *Round*: `Admit`, `ReuseHold`, `RefusedLease`, `RefusedBudget`
with its later `StopRefused`, `Send`, then `FailsSilent` (before any byte: the
hold is kept for the retry), `Breaks` (after one: settled at its bound),
`Settle`, `SettleFails`, and at the end `CloseOpen`. *Around*: `Crash`, `Lapse`,
`Answer` (the provider bills, even for a sender that is gone), `Pause`, `Resume`.

### The close against the code

`window`, `handler` (the worker thread and whether the deadline passed), `steps`
(the inner thread), `gated`, `latch`, `drained`, `report`, `filed`; around them
`solve`, `dirty`, `writing` (requests that passed the gate) and the history
`behind`. `Closing`, `Joined`, `Expire`, `Destroy` are the handler; `Gate`,
`Detect`, `Answer`, `Veto`, `Hide`, `Drain`, `Signal`, `Waited`, `Flush`, `Finish`
the sequence; `Admit`, `Write`, `Save`, `Submit`, `Dispatch`, `SolveEnds` the app.

Operators commented as *a plausible bug* are wrong forms of the definition
below them. They are not reachable from `Next`; each is substituted for its
definition to confirm that a property notices.

## 3. Properties

Every module has one `TypeOK`. Beyond it:

| Module | Property | Says |
|---|---|---|
| queue | `OneActivePerProject` | no two queued or running jobs of one project |
| | `ExclusiveSolve` | no two threads solve one project at a time |
| | `WithinCap` | the cap bounds the threads between taking a slot and giving it back, also when more threads are alive |
| | `AckedCancelIsFinal` | a queued job whose cancel reached the table is never solved, by this process or the next |
| | `WaitingIsDurable` | a published job that waits is `queued` in the table |
| | `QuitReachesEveryRun` | when the quit waits, every running job has been told to stop |
| | `QuitKeepsTheBacklog` | the quit parks waiting jobs, it does not end them |
| | `BulkCancelSparesRunning` | only an abort of the job itself stops a solve |
| | `RunsOnlyRunnable` | no runner gets a job without directory or of an unknown kind |
| | `TableAgrees` | when nobody works on a finished job that nobody tried to stop, table and memory agree |
| | `OnlyAbortsReviveRows` | a finished row turns live again only if somebody tried to stop its job: the extent of disagreement 1 |
| | `NeverSolvedTwice`, `BootRestoresTheQueue` | the crash-loop rule; what a boot restores |
| | `ImplementsSolveOnce` | the refinement |
| | `EveryJobEnds` | liveness |
| solver state | `StudyMesh` | a live study is alone: no owner of the state lives, no second study |
| | `SaveNotUnderStudy` | no save exports while a study works on the network |
| | `SavedEditsUnwind` | the only edits a save can export are those of a solve turned back before its LP: the extent of disagreement 4 |
| | `NetworkComesBack` | transient edits leave the network again |
| | `GateReopens` | a context stops reading as in flight |
| registry | `OneBuilder` | two cold paths never build a context of one project at once |
| | `LockEntryInUse` | the lock entry lives exactly as long as it has users, and all use the same |
| | `NeverForked` | a built context never displaces one that was published meanwhile |
| ledger | `WithinCap` | settled charges plus open holds stay within the cap |
| | `EveryBillCounts` | each bill has a row at least as large |
| | `ChargeIsFinal` | a settled row never changes |
| | `DriverKeepsItsHolds` | nobody else settles a hold of the live lease's owner |
| | `ImplementsSpendCap` | the refinement |
| | `DeadLeaseTakenOver` | a run never waits on a dead process |
| close | `VetoRestoresTheApp` | between closes nothing of a vetoed quit is left |
| | `ClosedUnansweredOnlyLate` | only the deadline closes over an unanswered question |
| | `QuietQuitIsClean` | a quit without a report file lost no edit and left no solve, but for a request behind the flush |
| | `HiddenWindowGoes` | a hidden window goes |

The properties over the job table except those of jobs that lost a table
operation: the code treats durability as best-effort, and says so.

## 4. Runs

| Run | Instance | Shows |
|---|---|---|
| `Restart` | 2 jobs, 2 threads, cap 2, aborts, requeues, 1 death, 1 lost operation | `ExclusiveSolve`, `AckedCancelIsFinal`, `TableAgrees`, `NeverSolvedTwice`, `OnlyAbortsReviveRows` |
| `Boot` | 2 jobs, 1 thread, 2 kinds, failing jobs, clears, fork sweep, a build that knows fewer kinds, 1 death, 1 lost operation | `RunsOnlyRunnable`, `WaitingIsDurable`, `BootRestoresTheQueue` |
| `Quit` | 2 jobs, 2 threads, cap 2, quit, clear, 1 death | `OneActivePerProject`, `QuitReachesEveryRun`, `QuitKeepsTheBacklog`, `ImplementsSolveOnce` |
| `Liveness` | 2 jobs, 2 threads, cap 1, aborts, bulk cancels, pauses, `FairSpec` | queue `TypeOK`, `WithinCap`, `BulkCancelSparesRunning`, `EveryJobEnds` |
| `Solver` | one foreground solve, one power flow, one job with its save, one study, `FairSpec` | solver state: all |
| `Registry` | 2 threads, 2 projects, 1 session, cap 1, 2 builds, 1 edit | registry: all |
| `Ledger` | 2 processes, 2 sends of 1 or 2 units, cap 2, 2 restarts, crashes, failing ticks and locks, `FairSpec` | ledger: all |
| `Close` | 2 contexts, `FairSpec` | close: all |
| `TerminalRow`, `CancelRow` | queue, 2 jobs, no death, no loss | disagreements 1 and 2 of section 7 |
| `SolveEvicted` | as `Registry` | disagreement 3 |
| `SavedTransients` | as `Solver`, with a user's save | disagreement 4 |

The passing runs explore 0.06 to 2.2 million distinct states; the longest,
`Solver`, takes about three minutes on two cores.

**Bounds of the queue.** `MaxJobs`, `MaxRestarts`, `MaxFaults` bound the
enqueues, the process deaths and the lost table operations; one abort or cancel
call per job, one bulk cancel and one clear are under way at a time. Two jobs on
two projects give every pair the properties speak of: two jobs of one project,
two projects solving side by side, one thread waiting for the other's slot. One
death with an enqueue after it gives a job of the old process and one of the new
on one project. One loss is enough to leave one stale row, the divergence the
boot's checks exist for; a second only adds jobs whose table state is excused.
Each run exercises the operations (`Ops`) its properties are about; together
they exercise all.

**Bounds of the others.** `Solver` has one party of each kind that claims in its
own way, so every pair of kinds meets; each request is made once, and again
after a refusal, and one `/abort` or `/force_reset` is under way at a time, but
any number after each other. The study tries one contingency: a second repeats
the same steps on the same lock. `Registry` needs two threads for a race on one
lock and two projects over a cap of one for an eviction. Two contexts are two
cold paths of one project, one of each project, or a cold path and the
re-opening that displaces it; reads that fail build none, so the slow path is
walked any number of times. One edit is enough to be lost. `MaxBuilds` and
`MaxEdits` are its bounds; section 5 proves its properties without them. `Ledger` has two processes for a takeover with its
late first owner, two keys for a hold that blocks another, and a cap the two
cannot both have at their larger bound; `MaxRestarts` is the code's constant,
two instead of three. `Close` needs no bound: two contexts differ in what they
solve and hold, and closes repeat.

**Deadlock** is checked in `Solver`, `Registry` and `Ledger`: there somebody can
always ask for something (`/force_reset`, `Request`, `Pause` and `Resume`), so a
state without a step would be everyone waiting on everyone. It is not in the queue's runs and in `Close`: a queue with nothing
to do, paused, drained or past its bounds stops, and the process exits with the
window.

**Fairness.** *Queue*: weak fairness of each dispatcher thread, of each request
inside an enqueue or an abort, and of the boot: they are threads of a running
process and never wait but where the model makes them wait (an empty queue, the
pause gate, the condition). `Solve` is part of a thread's step, so a solve is
taken to end; the runner honours its stop event and a solver time limit.
`EveryJobEnds` assumes that from some point on the process is up, not paused and
not draining. *Solver state*: workers, saves and studies run on, native solves
return, and so locks are let go; no button is pressed out of duty. *Ledger*: the
threads of a live process run on and a dead owner's lease lapses; nothing is fair
about answers, crashes, pauses or the lapse of a live owner's lease. *Close*: the
worker thread runs, and the clock of its `join`; the sequence itself gets no
fairness, since a step that hangs is the case the deadline is for.

## 5. Proofs

### The queue

`SolveQueueProofs`, `SolveQueueControlProofs` and `SolveQueueTableProofs` prove
for every number of jobs, projects, threads, cap, restarts and faults, from the
assumptions of `SolveQueue` alone (`BoundsAssumption`, `SetsAssumption`;
`WorkersAssumption` is not needed), every safety property of section 3:

| Theorem | States | Follows from |
|---|---|---|
| `Invariance` | `Spec => []IInv` | |
| `TypeCorrect` | `Spec => []TypeOK` | `IInv` |
| `OneActive` | `Spec => []OneActivePerProject` | `IInv` |
| `Exclusive` | `Spec => []ExclusiveSolve` | `IInv` |
| `ControlInvariance` | `Spec => []CInv` | `IInv` |
| `Capped` | `Spec => []WithinCap` | `IInv`, `Slots` |
| `BulkCancelSafe` | `Spec => []BulkCancelSparesRunning` | `Stops` |
| `QuitStopsAll` | `Spec => []QuitReachesEveryRun` | `Quits` |
| `CancelFinal` | `Spec => []AckedCancelIsFinal` | `IInv`, `Mirrors`, `Acked` |
| `TableInvariance` | `Spec => []TInv` | `IInv`, `CInv` |
| `RunnableOnly` | `Spec => []RunsOnlyRunnable` | `Claims`, `Runnable` |
| `WalkAway` | `Spec => []WaitingIsDurable` | `Durable` |
| `TableTrue` | `Spec => []TableAgrees` | `Mirrored` |
| `BootComplete` | `Spec => BootRestoresTheQueue` | `Restoring` |
| `BacklogKept` | `Spec => QuitKeepsTheBacklog` | `Claims`, `Mirrors`, `Endings`, `Clears`, `Calls` |
| `OneStart` | `Spec => NeverSolvedTwice` | `Spent` |
| `RowsRevivedByAbortsOnly` | `Spec => OnlyAbortsReviveRows` | `Lively` |
| `SolvesOnce` | `Spec /\ [](lossy = {}) => ImplementsSolveOnce` | `IInv`, `CInv`, `Spent` |
| `Refinement` | if `MaxFaults = 0`, `Spec => ImplementsSolveOnce` | `SolvesOnce`, `NoneLost` |

`OneActivePerProject` is inductive with the types: registration and restoration
check it in the step that adds a job, and every other step only takes jobs out
of the active ones. `FewerActive` says the latter once, and `OneActiveStep`
applies it action by action. The one action that makes a job active again is
`Claim`, which turns a queued job running, and that is where the rest of the
invariant is needed: the thread must hold a job that is still queued or already
cancelled.

`ExclusiveSolve` therefore needs a *hand-over* argument. A job is handed from
the enqueue call to the queue to one thread:

- `Handed`: a thread has a job except while it waits at the queue;
- `Pipeline`: the queue holds a job at most once, not beside a thread, two
  threads never hold the same job, and a job that is `Upstream` (not registered,
  inside its enqueue call, or a row boot has still to restore) is in neither;
- `Calls`: how enqueue calls, registered numbers, rows and the process go
  together, so that a new job is fresh everywhere;
- `Claims`: a thread at its claim holds a job that is queued or cancelled, a
  thread past it (`Running`) a resident job whose status is `running`, and no
  job is running without such a thread.

Two threads in `solve` then hold two different resident jobs that are running,
hence active, hence of different projects. `PipelineStep` and `ClaimsStep` prove
these action by action; `ClientSteps`, `ControlSteps` and `BusySteps` group the
actions that leave the pipeline alone, so that each conjunct treats them once.

`CInv` adds what the controls need, each part preserved by a lemma of its own:

- `Slots`: every thread from its slot to the release counts in `_running_ids`,
  which never exceeds the cap. `TakeSlot` adds one id below the cap, and a
  release takes out only the thread's own id, because no other thread holds the
  job (`Pipeline`). `WithinCap` counts threads, not ids: `SlotsCap` maps those
  threads one to one into `_running_ids`.
- `Stops`: stop events that are set, or fetched to be set, were asked for.
- `Mirrors`: what an abort or cancel under way knows: its job is terminal unless
  it fetched an event, it never writes `queued`, and a flagged job stays
  terminal. The last one rests on the claim, which reads flag and status in one
  critical section.
- `Quits`: the drain comes before the snapshot, a claim under a drain starts
  nothing, and a job leaves the quit's list only stopped, gone or terminal.
- `Acked`: a job whose cancel reached the table has no queued row and is not
  among the rows boot reads; and it is in no queue and no thread unless its flag
  still stands. Death clears flags, queue and threads together, so the second
  half survives it, and the first half keeps every later boot away from the job.

What the table promises rests on three lemmas that list causes. `RowChanges`: a
row changes only through the commit of its INSERT, a mirror of the thread that
holds the job, a mirror of a call about the job, the delete of a clear, or a boot.
`StChanges` says the same of statuses, and `JobChanges` of calls, flags and lists.
A proof about rows then treats those few causes instead of forty actions. `TInv`
has, each kept by a lemma of its own:

- `Runnable`: memory holds only jobs whose directory exists and whose kind is
  known. Only death and boot change either, and memory is empty then.
- `Endings`: what a thread behind its runner mirrors is the status it has set, and
  no call works on a job that waits.
- `Clears`: if memory still holds a job on the clear's list, its INSERT is over and
  it does not wait with a `queued` row. The list takes jobs and rows that have
  ended, and neither becomes `queued` again: no mirror writes `queued` (`Mirrors`).
- `Durable`: `WaitingIsDurable`, that the row of a waiting job is built `queued`,
  and that boot has only queued rows still to restore.
- `Mirrored`: once a job nobody tried to stop has ended, its enqueue call is over,
  and its row says so or the thread that ended it has still to mirror it. The
  dispatcher gets a job from the queue only after its INSERT: this is why the
  INSERT comes before the publication.
- `Restoring`: while a boot is under way, a queued row is still to come or its
  project already has a job in memory.
- `Spent`: a job that was ever solved is, unless a write of it was lost, nowhere on
  the way to a runner: not in the queue, not with a thread before its runner, not
  among the rows of a boot, and its row is not `queued`. Death empties queue and
  threads, and the row is what the next boot reads: the thread wrote `running`
  before the runner started, and nothing writes `queued` over it again.
- `Lively`: the row of a job that waits or runs has not ended, and no call is about
  to write a live status, except for a job that was asked to stop while it ran.

`SolvesOnce` maps the jobs in a runner and `begun` to `SolveOnce` and shows that
each step of the queue is a begin, an end, a cut, an admission or a stutter.
`SolveSteps` says which actions move a thread into or out of its runner.
`NeverSolvedTwice` and the refinement need that no write of the job was lost: a
crash after a lost `running` leaves a queued row, and the next boot solves the job
again, as the code's best-effort durability accepts. `Spec` alone therefore
implements `SolveOnce` only with `MaxFaults = 0` (`Refinement`); `SolvesOnce`
states it for every behaviour that happens to lose nothing, and `OneStart` per job
whatever else is lost.

### The solver state

`SolverStateProofs` proves `TypeCorrect`, `MeshCorrect` (`StudyMesh`),
`SaveGateCorrect` (`SaveNotUnderStudy`) and `SavedEditsCorrect` for any number of runs, flows, jobs,
studies and savers, from `PartiesDiffer`. The invariant adds `Holding`: whoever
is in a step inside `mutation_lock` is its holder. A study can only become live
in `StudyPublish`, which holds that lock, so no save is exporting then; and it
asks `MeshBusy` in the same hold in which it publishes, as each claim asks about
studies in the hold in which it claims, so neither finds the other.

`SavedEditsCorrect` (`SavedEditsUnwind`) adds `Edited`, the steps at which the
network carries a party's edits. A save that exports holds the lock, so no solve
is at work under it; its second look keeps studies away; what is left is the one
step at which edits stand without lock and without study, that of the handler.

### The registry

`ContextsProofs` proves `TypeCorrect`, `OneBuilderCorrect`, `LockEntryCorrect` and
`NeverForkedCorrect` for any number of threads, projects and sessions. The
invariant has `Places` (what a thread at each place has in its hands),
`Registered` (what is resident was built), `LocksApart` (the locks of two
projects differ), `LockEntryInUse` and `OneBuilder` themselves, and `StillCold`:
while a thread builds, its project stays a miss unless a re-opening came
between. `OneBuilder` needs `LockEntryInUse`, since one lock per project is what
keeps two threads apart, and that in turn is a counting argument: `Join` and
`Drop` add and remove one user and one waiter, and the last of them drops the
entry. The fast path's lock-free hit is why `NeverForked` excuses re-openings.

### The ledger

`SendLedgerProofs` proves `TypeCorrect`, `BillsCounted`, `ChargesFinal`,
`DriverKept`, `CapKept` and `LedgerImplements` for any processes, keys, cap, send
bounds and restart limit. `Rounds` says which rows a round may have in its
hands, `Wires` how a request's bound relates to its row, so that a bill can
never exceed it, whichever process settled the row meanwhile. `CapKept` counts
the units of all rows: each action either leaves the rows, settles some at their
bound (`SettlesAtBound`, same units), adds one hold that fits (`TakesHold`), or
lowers one to a bill (`SettlesBilled`). The refinement proof maps those same four
cases to the steps of `SpendCap`.

### The close

`ShutdownProofs` proves `TypeCorrect`, `VetoCorrect`, `AnswerCorrect` and
`QuietQuitCorrect` for any set of contexts. `Phases` ties gate, latch, drain and
window to the sequence's step; `Quiet` says what a report that tells nothing
implies: from the flush on no solve is in flight and every context the flush has
passed is clean or was written behind it. The drain makes that stable, because
the gate admits no new solve and the drained queue claims none.

### Assumptions, and what is only model-checked

The proofs assume the named assumptions of the modules and nothing else. Every
inductive invariant was checked with TLC on the instances of the runs before it
was proved; the runs list only the properties.

Every safety invariant, every action property and both refinements that a passing
run checks are proved. Only model-checked are the five liveness properties
(`EveryJobEnds`, `NetworkComesBack`, `GateReopens`, `DeadLeaseTakenOver`,
`HiddenWindowGoes`): liveness under fairness is out of the prover's reach.

## 6. Not modelled

*Queue*: authorization (a caller who may not act is a step not taken), the
foreign-lock check before an enqueue, the listing, positions, dismissals and log
streams, results and captures carried by a job, the unpublished `enqueue` and
`reset_for_tests` that only tests call, two backend processes on one job table,
and threads that die. Timeouts of the quit are the freedom of `Die` to happen at
any step.

*Solver state*: what a solve computes; result keys beside the status; the
frontier, coupling and margin studies, which publish and run as the contingency
sweep does; the deletion and the switch of a project under a solve.

*Registry*: study-owned marks and unbound drafts, both outside the cap; deletion,
rename and undo; which of the unprotected contexts is the least recently used:
any may be evicted. A re-opening's first save and its read of the disk are one
step.

*Ledger*: what a request may cost (its bound is any member of a set); the
research scope, mode `off`, and a report job's second sender with `settle_open`;
tick errors are not counted, any of them may be the last allowed. File writes
are atomic renames and the runner's own updates of the file are one step each. A
provider is taken to bill at most the bound its request carries and nothing for
an attempt that failed before any byte; the code takes the same.

*Close*: steps 6 to 8, each guarded, end the sequence in one step; the contents
of the report; operating-system signals.

*Everywhere*: components marked so in section 1. The numerical code, the
workflow, the tool catalogue of the chat and the frontend make up most of the
repository's lines; they are data processing, validation and presentation with
no shared state of their own, so a model would only repeat them.

## 7. Where the code and its documentation disagree

Shown by a run:

1. `TerminalRowStays`: "A terminal row never regresses to a live status"
   (`services/solve_job_store.py:146`). The guard is evaluated on the row as it
   was read; a stale mirror of `running` from an abort can still commit over the
   terminal status.
2. `CancelReachesTheTable`: the mirror in abort keeps the row from staying
   `queued` (`services/solve_queue.py:511-515`). An abort that falls between
   registration and the commit of the INSERT finds no row, and the row is then
   committed `queued`.
3. `EvictionSparesSolves`: an eviction never takes a context "carrying a
   queued/running solve" (`services/pypsa_service.py:1160-1161`). The jobs are
   read before the registry lock is taken; one claimed in between solves on a
   context that has left the registry.
4. `SavedClean`: "the network is never left carrying transient LP transforms"
   (`services/solver/runtime.py:106-107`), restored "before any autosave can
   persist" them (`services/solver_service.py:1726-1731`). The handler of an
   early stop runs after the network's lock is let go; a save that passed its
   gate before the run and waits for the lock exports the rows.

`TableAgrees` leaves out the jobs that somebody tried to stop, because the first
two would violate it. Two of the disagreements have a property, checked and
proved, that says how far they go: `OnlyAbortsReviveRows` (1: without an abort of
the job itself a finished row stays finished) and `SavedEditsUnwind` (4: nothing
but the edits of a solve turned back before its LP is ever exported).

Read from the code while modelling, with no property of their own:

- Queue: the requeue route passes no kind, so any job becomes a network solve
  (`routers/solve_queue.py:871` against 994). A thread past the pause gate starts
  its job during the pause (`services/solve_queue.py:594` against 944).
- Solver state: the docstring of force_reset says an abandoned worker's final
  write is skipped (`routers/simulation.py:1448-1450`); the AC power flow writes
  its verdict unasked (1618-1635). A job asks who owns the state and writes in two
  holds, so a claim in between has its status overwritten
  (`services/solve_queue.py:1552`), and the job's save may then export a newer
  run's dispatch (1589). A job's claim disowns a live foreground run without
  stopping it. A study may start while an aborted, disowned run still restores,
  since the mesh sees only the owner (`routers/results.py:1063-1092`).
- Registry: between an eviction and its write-back a request hydrates the older
  copy from disk (`services/pypsa_service.py:1220-1271`). A switch whose lock-free
  hit is evicted before `set_active` ends in a KeyError. A load's lock-free hit
  followed by an eviction can be displaced by a cold builder, which is why
  `NeverForked` excuses re-openings.
- Ledger: a step that goes on writes status `running` unconditionally
  (`harness/runner.py:753`), over a pause that came in between. A process whose
  lease has lapsed still writes the run's file. A process that dies between its
  takeover and its recovery leaves the lease to the next one as its own, and the
  holds to that one's sweep.
- Close: the deadline bounds the confirmation too, so a question left alone for
  90 seconds closes the window (`ClosedUnansweredOnlyLate` says only then). A
  request past the gate that writes after its context was flushed is lost without
  a word (`behind`). A queued job dispatched between the look for solves and the
  drain is stopped without the user having been asked. A context that is evicted
  and not yet saved is invisible to the flush.

## 8. Plan

1. Project locks (proofs): acquire, heartbeat, release, prune and take-over by
   users and harness runs. Property: two holders never both believe they hold a
   project; a fresh lock is never pruned as the stale one before it.
2. `SolveCapture` over the boot of `SolveQueue`: a capture that a live job names
   is not removed.
3. `QueueViews`: listing, position, dismiss. Property: what the listing offers,
   the route accepts.
4. Task steps (`services/assistant_tasks.py`): claims of steps by the chat and
   the runner, crash between effect and record.

Proofs to add: the extent of disagreements 2 (which cancels miss the table) and 3
(which solves an eviction can meet), in the manner of `OnlyAbortsReviveRows`;
both need a history variable for what a call or a probe has read.
