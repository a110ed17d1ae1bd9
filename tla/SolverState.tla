----------------------------- MODULE SolverState -----------------------------
(***************************************************************************)
(* Who may touch the network of one project context: the solver state with *)
(* its owner (`thread`), status and stop event, claimed under              *)
(* `solver_state_lock` by foreground solves, AC power flows and queued     *)
(* jobs; the `mutation_lock` they work under; the adequacy studies that    *)
(* edit the network between their own solves; and the saves that export    *)
(* it (routers/simulation.py, routers/results.py, routers/projects.py,     *)
(* services/solve_queue.py, services/solver_service.py).                   *)
(*                                                                         *)
(* One hold of `solver_state_lock` is one step.  Every request is made     *)
(* once, again after a refusal; a study tries one contingency.  Of the     *)
(* network there is only whose transient edits it carries: a solve's slack *)
(* and vintage rows, a power flow's dispatch fix, a study's contingency.   *)
(***************************************************************************)
EXTENDS Naturals, FiniteSets

CONSTANTS
  Runs,    \* foreground solves (`/run`)
  Flows,   \* standalone AC power flows (`/run_ac_pf`)
  Jobs,    \* queued solves on this context
  Studies, \* adequacy studies
  Savers,  \* saves of the project: Ctrl-S, autosave
  None

Foreground == Runs \cup Flows
Solvers == Runs \cup Jobs
Workers == Runs \cup Flows \cup Jobs
Parties == Workers \cup Studies \cup Savers

\* The parties are told apart.
ASSUME PartiesDiffer ==
  /\ None \notin Parties
  /\ Foreground \cap Jobs = {} /\ Runs \cap Flows = {}
  /\ Workers \cap Studies = {} /\ Workers \cap Savers = {} /\ Studies \cap Savers = {}

VARIABLES
  owner,   \* state["thread"]
  status,  \* state["status"]
  stopOf,  \* state["stop_event"]: whose event it is
  stopped, \* workers whose stop event is set
  lock,    \* the holder of `mutation_lock`
  edits,   \* whose transient edits the network carries
  pc,      \* pc[p]: the step of each party
  outcome, \* outcome[w]: what the worker's solve returned
  desk     \* the `/abort` or `/force_reset` in progress, with the event it read

state == <<owner, status, stopOf>>
vars == <<owner, status, stopOf, stopped, lock, edits, pc, outcome, desk>>

Steps == {"new", "asked", "started", "inside", "modelled", "unwinding", "returned", "final",
          "raised", "catching", "ending", "saving", "gated", "exporting", "claiming",
          "measuring", "mutated", "trial", "tried", "done"}

TypeOK ==
  /\ owner \in Workers \cup {None} /\ stopOf \in Workers \cup {None}
  /\ status \in {"idle", "running", "aborted", "failed", "completed"}
  /\ stopped \subseteq Workers
  /\ lock \in Parties \cup {None}
  /\ edits \subseteq Workers \cup Studies
  /\ pc \in [Parties -> Steps]
  /\ outcome \in [Workers -> {"none", "ok", "aborted", "error"}]
  /\ desk \in [step : {"idle", "abort", "mark", "reset"}, of : Workers \cup {None}]

Idle == [step |-> "idle", of |-> None]

Init ==
  /\ owner = None /\ status = "idle" /\ stopOf = None
  /\ stopped = {}
  /\ lock = None
  /\ edits = {}
  /\ pc = [p \in Parties |-> "new"]
  /\ outcome = [w \in Workers |-> "none"]
  /\ desk = Idle

Go(p, step) == pc' = [pc EXCEPT ![p] = step]

\* A worker is over: its verdict and its stop event go with it.
Ends(w) ==
  /\ Go(w, "done")
  /\ outcome' = [outcome EXCEPT ![w] = "none"]
  /\ stopped' = stopped \ {w}

\* The event of w is set; nobody waits on the event of a worker that is over.
Tell(w) == stopped' = stopped \cup {v \in Workers : v = w /\ pc[v] # "done"}

-----------------------------------------------------------------------------
(* What the gates read. *)

\* A request's thread lives from its claim to its end; the dispatcher thread
\* that runs a job outlives it.
Alive(w) == w \in Jobs \/ pc[w] \notin {"new", "done"}

\* `_solver_in_flight_ctx`
InFlight == owner # None /\ Alive(owner)

\* `record_is_running`
Live == {s \in Studies : pc[s] \in {"measuring", "mutated", "trial", "tried"}}

\* `running_study_key`
StudyRuns == Live # {}

-----------------------------------------------------------------------------
(* Claims. *)

\* A plausible bug: the study is asked about before the claim only.
ClaimUnchecked == status = "running" /\ InFlight

\* What refuses a foreground claim, under the state lock.
ClaimBlocked == StudyRuns \/ (status = "running" /\ InFlight)

\* The claim: one update with the worker's handle, status and stop event.
Own(w) ==
  /\ owner' = w /\ status' = "running" /\ stopOf' = w
  /\ Go(w, "started")
  /\ UNCHANGED <<stopped, lock, edits, outcome, desk>>

\* `/run`, `/run_ac_pf`.  The look at the studies before any work refuses
\* nothing for longer than this one; a refused request changes nothing.
Claim(w) ==
  /\ pc[w] = "new" /\ ~ClaimBlocked
  /\ Own(w)

\* The dispatcher's claim asks about studies only, not about a live owner.
JobClaim(j) ==
  /\ pc[j] = "new" /\ ~StudyRuns
  /\ Own(j)

JobRefused(j) ==
  /\ pc[j] = "new" /\ StudyRuns
  /\ Go(j, "raised")
  /\ UNCHANGED <<state, stopped, lock, edits, outcome, desk>>

-----------------------------------------------------------------------------
(* The solve, `run_simulation`; `run_ac_pf_stage` of a power flow. *)

Enter(w) ==
  /\ pc[w] = "started" /\ lock = None
  /\ lock' = w
  /\ Go(w, "inside")
  /\ UNCHANGED <<state, stopped, edits, outcome, desk>>

\* Nothing was applied yet: the user's constraint code does not compile, before
\* the lock; validation fails, or the stop event is seen, under it.
GoBack(w) ==
  /\ pc[w] \in {"started", "inside"}
  /\ \E o \in {"error"} \cup (IF w \in stopped /\ pc[w] = "inside" THEN {"aborted"} ELSE {}) :
       outcome' = [outcome EXCEPT ![w] = o]
  /\ lock' = IF pc[w] = "inside" THEN None ELSE lock
  /\ Go(w, "returned")
  /\ UNCHANGED <<state, stopped, edits, desk>>

Transform(w) ==
  /\ pc[w] = "inside"
  /\ edits' = edits \cup {w}
  /\ Go(w, "modelled")
  /\ UNCHANGED <<state, stopped, lock, outcome, desk>>

\* A refusal or a stop before the LP leaves `with lock` on its way to the
\* handler that restores.
Raise(w) ==
  /\ pc[w] = "modelled"
  /\ \E o \in {"error"} \cup (IF w \in stopped THEN {"aborted"} ELSE {}) :
       outcome' = [outcome EXCEPT ![w] = o]
  /\ lock' = None
  /\ Go(w, "unwinding")
  /\ UNCHANGED <<state, stopped, edits, desk>>

\* A plausible bug: the handler of the early stop trusts the inner `finally`.
RestoreSkipped(w) ==
  /\ pc[w] = "unwinding"
  /\ Go(w, "returned")
  /\ UNCHANGED <<state, stopped, lock, edits, outcome, desk>>

\* The except handler restores, without the lock.
Restore(w) ==
  /\ pc[w] = "unwinding"
  /\ edits' = edits \ {w}
  /\ Go(w, "returned")
  /\ UNCHANGED <<state, stopped, lock, outcome, desk>>

\* The LP, or the power flow, which no stop reaches; its `finally` restores
\* under the lock.
Solve(w) ==
  /\ pc[w] = "modelled"
  /\ \E o \in {"ok", "error"} \cup (IF w \in stopped \cap Solvers THEN {"aborted"} ELSE {}) :
       outcome' = [outcome EXCEPT ![w] = o]
  /\ edits' = edits \ {w}
  /\ lock' = None
  /\ Go(w, "returned")
  /\ UNCHANGED <<state, stopped, desk>>

-----------------------------------------------------------------------------
(* The verdict.  A worker first asks whether it still owns the state, then *)
(* writes it: two holds of the lock.                                       *)

\* A plausible bug: what the solve returned is published as it is.
ReportedRaw(o) == o

\* The returned status in the words of the lifecycle.
Reported(o) == CASE o = "ok" -> "completed" [] o = "aborted" -> "aborted" [] OTHER -> "failed"

Answer(w) ==
  /\ pc[w] = "returned"
  /\ IF owner = w THEN Go(w, "final") /\ UNCHANGED <<stopped, outcome>> ELSE Ends(w)
  /\ UNCHANGED <<state, lock, edits, desk>>

\* Pricing the plan raises: the thread of `/run` dies with its status running.
Dies(w) ==
  /\ pc[w] = "returned"
  /\ Ends(w)
  /\ UNCHANGED <<state, lock, edits, desk>>

Report(w) ==
  /\ pc[w] = "final"
  /\ status' = Reported(outcome[w])
  /\ Ends(w)
  /\ UNCHANGED <<owner, stopOf, lock, edits, desk>>

\* A power flow never asks.
FlowReport(w) ==
  /\ pc[w] = "returned"
  /\ status' = Reported(outcome[w])
  /\ Ends(w)
  /\ UNCHANGED <<owner, stopOf, lock, edits, desk>>

\* A job lets go of the state with its verdict, and saves a plan it solved.
JobReport(j) ==
  /\ pc[j] = "final"
  /\ status' = Reported(outcome[j]) /\ owner' = None
  /\ Go(j, IF outcome[j] = "ok" THEN "saving" ELSE "ending")
  /\ UNCHANGED <<stopOf, stopped, lock, edits, outcome, desk>>

JobRaises(j) ==
  /\ pc[j] = "returned"
  /\ Go(j, "raised")
  /\ UNCHANGED <<state, stopped, lock, edits, outcome, desk>>

\* `except Exception`; a SystemExit of user code goes past it.
JobCatch(j) ==
  /\ pc[j] = "raised"
  /\ \/ Go(j, "ending")
     \/ owner = j /\ Go(j, "catching")
  /\ UNCHANGED <<state, stopped, lock, edits, outcome, desk>>

JobFails(j) ==
  /\ pc[j] = "catching"
  /\ status' = "failed" /\ owner' = None
  /\ Go(j, "ending")
  /\ UNCHANGED <<stopOf, stopped, lock, edits, outcome, desk>>

\* A plausible bug: no `finally`, so a BaseException keeps the context.
JobEndsOwning(j) ==
  /\ pc[j] = "ending"
  /\ Ends(j)
  /\ UNCHANGED <<state, lock, edits, desk>>

\* `finally`: whatever escaped, the dispatcher does not keep the context.
JobEnds(j) ==
  /\ pc[j] = "ending"
  /\ IF owner = j THEN status' = "failed" /\ owner' = None ELSE UNCHANGED <<owner, status>>
  /\ Ends(j)
  /\ UNCHANGED <<stopOf, lock, edits, desk>>

-----------------------------------------------------------------------------
(* Stopping a solve. *)

\* `/abort` reads the event, then the status; sets the one, marks the other.
AbortReads ==
  /\ desk = Idle /\ stopOf # None
  /\ desk' = [step |-> "abort", of |-> stopOf]
  /\ UNCHANGED <<state, stopped, lock, edits, pc, outcome>>

AbortTells ==
  /\ desk.step = "abort"
  /\ IF status = "running"
       THEN Tell(desk.of) /\ desk' = [step |-> "mark", of |-> None]
       ELSE desk' = Idle /\ UNCHANGED stopped
  /\ UNCHANGED <<state, lock, edits, pc, outcome>>

AbortMarks ==
  /\ desk.step = "mark"
  /\ status' = "aborted"
  /\ desk' = Idle
  /\ UNCHANGED <<owner, stopOf, stopped, lock, edits, pc, outcome>>

\* `/force_reset` sets the event, then disowns whoever owns the state.
ResetTells ==
  /\ desk = Idle
  /\ Tell(stopOf)
  /\ desk' = [step |-> "reset", of |-> None]
  /\ UNCHANGED <<state, lock, edits, pc, outcome>>

ResetDisowns ==
  /\ desk.step = "reset"
  /\ owner' = None /\ status' = "failed" /\ stopOf' = None
  /\ desk' = Idle
  /\ UNCHANGED <<stopped, lock, edits, pc, outcome>>

\* The queue's abort sets the job's own event.
StopJob(j) ==
  /\ j \notin stopped
  /\ Tell(j)
  /\ UNCHANGED <<state, lock, edits, pc, outcome, desk>>

-----------------------------------------------------------------------------
(* Saves, `_save_context`: of a user, or of a job that has solved. *)

Unsaved(p) == pc[p] = IF p \in Jobs THEN "saving" ELSE "new"
Turned(p) == IF p \in Jobs THEN "raised" ELSE "new"

SaveAsk(p) ==
  /\ Unsaved(p)
  /\ IF InFlight \/ StudyRuns THEN p \in Jobs /\ Go(p, "raised") ELSE Go(p, "gated")
  /\ UNCHANGED <<state, stopped, lock, edits, outcome, desk>>

\* A plausible bug: no second look once the lock is held.
SaveUnchecked == FALSE

\* What refuses the save under the lock.
SaveBlocked == StudyRuns

SaveLock(p) ==
  /\ pc[p] = "gated" /\ lock = None
  /\ IF SaveBlocked
       THEN Go(p, Turned(p)) /\ UNCHANGED lock
       ELSE Go(p, "exporting") /\ lock' = p
  /\ UNCHANGED <<state, stopped, edits, outcome, desk>>

Export(p) ==
  /\ pc[p] = "exporting"
  /\ lock' = None
  /\ Go(p, IF p \in Jobs THEN "ending" ELSE "done")
  /\ UNCHANGED <<state, stopped, edits, outcome, desk>>

-----------------------------------------------------------------------------
(* Studies. *)

\* `_study_mesh_blocker`
MeshBusy == StudyRuns \/ InFlight

StudyAsk(s) ==
  /\ pc[s] = "new" /\ ~MeshBusy
  /\ Go(s, "asked")
  /\ UNCHANGED <<state, stopped, lock, edits, outcome, desk>>

\* `_publish_study` takes the mutation lock, within five seconds or not at all.
StudyLock(s) ==
  /\ pc[s] = "asked" /\ lock = None
  /\ lock' = s
  /\ Go(s, "claiming")
  /\ UNCHANGED <<state, stopped, edits, outcome, desk>>

StudyTimesOut(s) ==
  /\ pc[s] = "asked" /\ lock # None
  /\ Go(s, "new")
  /\ UNCHANGED <<state, stopped, lock, edits, outcome, desk>>

\* The mesh and the record under the state lock.
StudyPublish(s) ==
  /\ pc[s] = "claiming"
  /\ Go(s, IF MeshBusy THEN "new" ELSE "measuring")
  /\ lock' = None
  /\ UNCHANGED <<state, stopped, edits, outcome, desk>>

\* A contingency is put on the network, without the lock.
Mutate(s) ==
  /\ pc[s] = "measuring"
  /\ edits' = edits \cup {s}
  /\ Go(s, "mutated")
  /\ UNCHANGED <<state, stopped, lock, outcome, desk>>

\* The study's own solve; it owns nothing of the solver state.
Trial(s) ==
  /\ pc[s] = "mutated" /\ lock = None
  /\ lock' = s
  /\ Go(s, "trial")
  /\ UNCHANGED <<state, stopped, edits, outcome, desk>>

TrialEnds(s) ==
  /\ pc[s] = "trial"
  /\ lock' = None
  /\ Go(s, "tried")
  /\ UNCHANGED <<state, stopped, edits, outcome, desk>>

\* The contingency is undone; an aborted study had none to undo.
StudyEnds(s) ==
  /\ pc[s] \in {"measuring", "tried"}
  /\ edits' = edits \ {s}
  /\ Go(s, "done")
  /\ UNCHANGED <<state, stopped, lock, outcome, desk>>

-----------------------------------------------------------------------------
\* What a solve does by itself; a power flow has no early way out.
SolveStep(w) == Enter(w) \/ Transform(w) \/ Solve(w)
EarlyExit(w) == GoBack(w) \/ Raise(w)

RunEnds(w) == Answer(w) \/ Dies(w) \/ Report(w)
JobEnding(j) == Answer(j) \/ JobReport(j) \/ JobRaises(j) \/ JobCatch(j) \/ JobFails(j) \/ JobEnds(j)
SaveStep(p) == SaveLock(p) \/ Export(p)
StudyStep(s) == Trial(s) \/ TrialEnds(s) \/ StudyEnds(s)

Next ==
  \/ \E w \in Foreground : Claim(w)
  \/ \E j \in Jobs : JobClaim(j) \/ JobRefused(j) \/ StopJob(j) \/ JobEnding(j)
  \/ \E w \in Workers : SolveStep(w)
  \/ \E w \in Solvers : EarlyExit(w) \/ Restore(w)
  \/ \E w \in Runs : RunEnds(w)
  \/ \E w \in Flows : FlowReport(w)
  \/ \E p \in Savers \cup Jobs : SaveAsk(p) \/ SaveStep(p)
  \/ \E s \in Studies : StudyAsk(s) \/ StudyLock(s) \/ StudyTimesOut(s) \/ StudyPublish(s)
                          \/ Mutate(s) \/ StudyStep(s)
  \/ AbortReads \/ AbortTells \/ AbortMarks \/ ResetTells \/ ResetDisowns

Spec == Init /\ [][Next]_vars

\* Threads run on, native solves return and the locks are let go of; nobody is
\* obliged to press a button.
Fairness ==
  /\ \A w \in Workers : WF_vars(SolveStep(w))
  /\ \A w \in Solvers : WF_vars(Restore(w))
  /\ \A w \in Runs : WF_vars(RunEnds(w))
  /\ \A w \in Flows : WF_vars(FlowReport(w))
  /\ \A j \in Jobs : WF_vars(JobEnding(j))
  /\ \A p \in Savers \cup Jobs : WF_vars(SaveStep(p))
  /\ \A j \in Jobs : WF_vars(SaveAsk(j))
  /\ \A s \in Studies : WF_vars(StudyPublish(s)) /\ WF_vars(StudyStep(s))

FairSpec == Spec /\ Fairness
=============================================================================
