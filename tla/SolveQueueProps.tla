--------------------------- MODULE SolveQueueProps --------------------------
(***************************************************************************)
(* The correctness properties of the solve queue.                          *)
(***************************************************************************)
EXTENDS SolveQueue

WorkerSteps == {"get", "gate", "slot", "wait", "claim", "mark", "markw",
                "solve", "finish", "mirror", "mirrorw", "release"}
\* The steps between taking a slot and giving it back.
SlotSteps == WorkerSteps \ {"get", "gate", "slot", "wait", "release"}
CallSteps == {"none", "insert", "commit", "publish", "done", "refused", "cut"}

\* The type of every variable of the queue.
TypeOK ==
  /\ proj \in [Jobs -> Projects] /\ kind \in [Jobs -> Kinds]
  /\ next \in 0 .. MaxJobs
  /\ resident \in SUBSET Jobs /\ cancelled \in SUBSET Jobs
  /\ stop \in SUBSET Jobs
  /\ st \in [Jobs -> Status]
  /\ q \in Seq(Jobs) /\ runningIds \in SUBSET Jobs
  /\ paused \in BOOLEAN /\ draining \in BOOLEAN
  /\ pc \in [Workers -> WorkerSteps]
  /\ wjob \in [Workers -> Jobs \cup {None}] /\ wend \in [Workers -> Terminal]
  /\ call \in [Jobs -> CallSteps] /\ built \in [Jobs -> Status]
  /\ cpc \in [Jobs -> {"idle", "load", "commit", "signal"}]
  /\ cval \in [Jobs -> Status] /\ csig \in SUBSET Jobs
  /\ sweep \in SUBSET Jobs /\ qlist \in SUBSET Jobs /\ doomed \in SUBSET Jobs
  /\ quit \in {"no", "drain", "signal", "wait"}
  /\ clearing \in {"no", "load", "delete"}
  /\ row \in [Jobs -> Status \cup {"none"}]
  /\ phase \in {"down", "booting", "up"} /\ todo \in SUBSET Jobs
  /\ storage \in SUBSET Projects /\ known \in SUBSET Kinds
  /\ restarts \in Nat /\ faults \in Nat
  /\ begun \in SUBSET Jobs /\ asked \in SUBSET Jobs
  /\ acked \in SUBSET Jobs /\ lossy \in SUBSET Jobs

Solving(w) == pc[w] = "solve"

-----------------------------------------------------------------------------
(* Safety                                                                  *)

\* A project never has two jobs that are queued or running, whether they were
\* enqueued, requeued or restored at boot (`enqueue_unique`, `restore`).
OneActivePerProject ==
  \A i, j \in resident :
    proj[i] = proj[j] /\ st[i] \in Active /\ st[j] \in Active => i = j

\* Two dispatcher threads never solve one project at the same time: they would
\* share its context and race its save (R35).
ExclusiveSolve ==
  \A v, w \in Workers :
    Solving(v) /\ Solving(w) /\ proj[wjob[v]] = proj[wjob[w]] => v = w

\* No more than MAX_CONCURRENT_SOLVES threads are between taking a slot and
\* giving it back, however many dispatcher threads are alive.
WithinCap == Cardinality({w \in Workers : pc[w] \in SlotSteps}) <= MaxConcurrent

\* A cancel whose mirror landed in the table is final: the job is not solved,
\* by this process or by one that boots after a crash (abort, cancel_if_queued).
AckedCancelIsFinal == \A w \in Workers : Solving(w) => wjob[w] \notin acked

\* The walk-away promise: a published job that waits in memory is queued in the
\* table, so the next boot finds it, also while a quit is draining the queue.
WaitingIsDurable ==
  \A j \in resident :
    st[j] = "queued" /\ call[j] \notin {"insert", "commit"} /\ j \notin lossy
      => row[j] = "queued"

\* Once a quit has sent its aborts, every job still running was told to stop:
\* no claim slips in behind the snapshot of the running jobs.
QuitReachesEveryRun ==
  quit = "wait" => \A j \in resident : st[j] = "running" => j \in stop

\* Only an abort of the job itself stops a running solve; a bulk cancel that
\* loses the race against the claim leaves it alone (R29).
BulkCancelSparesRunning == stop \subseteq asked

\* A job whose project directory is gone at boot, or whose kind the build does
\* not know, never reaches a runner (`_storage_dir_gone`, `_fail_unknown_kind`).
RunsOnlyRunnable ==
  \A w \in Workers :
    Solving(w) => proj[wjob[w]] \in storage /\ kind[wjob[w]] \in known

\* When nobody is working on a finished job any more, the table agrees with
\* memory about how it ended.  The property leaves out the jobs somebody tried
\* to abort or cancel: for those the code breaks it, as TerminalRowStays and
\* CancelReachesTheTable below show.
AtRest(j) ==
  /\ cpc[j] = "idle" /\ call[j] # "publish"
  /\ \A w \in Workers : wjob[w] # j
TableAgrees ==
  \A j \in resident :
    st[j] \in Terminal /\ AtRest(j) /\ j \notin lossy \cup cancelled \cup asked
      => row[j] \in {st[j], "none"}

-----------------------------------------------------------------------------
(* Action properties                                                       *)

Starts(w) == pc[w] # "solve" /\ pc'[w] = "solve"

\* R25, the crash-loop rule: a job whose writes all landed never starts twice,
\* in one process or over several.
NeverSolvedTwice ==
  [][\A w \in Workers :
       Starts(w) /\ wjob[w] \notin lossy' => wjob[w] \notin begun]_vars

\* A boot leaves no queued row that it read behind: the job is restored, or
\* another job of its project was (`reconcile_on_boot`, `restore`).
BootRestoresTheQueue ==
  [][phase = "booting" /\ phase' = "up" =>
       \A j \in Jobs \ lossy' : row[j] = "queued" =>
         \E i \in resident : proj[i] = proj[j]]_vars

\* The quit keeps the backlog: a job that waits, in memory and in the table,
\* when the queue starts to drain waits there until the process is gone, unless
\* somebody cancels it (R28, `stop_dispatching`).
QuitKeepsTheBacklog ==
  [][\A j \in resident : draining /\ st[j] = "queued" /\ row[j] = "queued" =>
       \/ j \in cancelled'
       \/ row'[j] = "queued" /\ (phase' = "down" \/ st'[j] = "queued")]_vars

\* Only an abort that found its job running may turn a finished row live again,
\* by the stale mirror that TerminalRowStays below is about: threads, enqueues,
\* bulk cancels and boots never do (`record_status`, `cancel_if_queued`).
OnlyAbortsReviveRows ==
  [][\A j \in Jobs : row[j] \in Terminal /\ row'[j] \in Active => j \in asked]_vars

\* The abstract promise: solved at most once, one per project, within the cap.
Once == INSTANCE SolveOnce WITH
  project <- proj,
  busy <- {wjob[w] : w \in {v \in Workers : Solving(v)}},
  Cap <- MaxConcurrent
ImplementsSolveOnce == Once!Spec

-----------------------------------------------------------------------------
(* Liveness                                                                *)

\* If the process stays up, not draining and not paused for good, every job in
\* the queue ends: no worker waits for ever on a slot that is free.
KeepsDispatching == phase = "up" /\ ~paused /\ ~draining
EveryJobEnds ==
  (<>[]KeepsDispatching) =>
    \A j \in Jobs : [](j \in resident => <>(j \notin resident \/ st[j] \in Terminal))

-----------------------------------------------------------------------------
(* What the repository says of itself that the code does not keep          *)

\* solve_job_store: "A terminal row never regresses to a live status."
TerminalRowStays ==
  [][\A j \in Jobs : row[j] \in Terminal => row'[j] \in Terminal \cup {"none"}]_vars

\* abort: the mirror is what keeps the row from staying `queued`, so that boot
\* does not resurrect a job the user cancelled.
CancelReachesTheTable ==
  \A j \in Jobs :
    j \in cancelled /\ AtRest(j) /\ j \notin lossy => row[j] # "queued"
=============================================================================
