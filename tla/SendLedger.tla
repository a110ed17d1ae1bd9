----------------------------- MODULE SendLedger -----------------------------
(***************************************************************************)
(* The model-send ledger of one harness run and the lease that drives the  *)
(* run (harness/send_reservation.py, harness/runner.py).  Several runner   *)
(* processes share the run's task file.  Each has a tick thread, which     *)
(* takes the lease, reconciles after a takeover and starts the agent's     *)
(* round, and a flight thread, which streams the round's model sends.      *)
(*                                                                         *)
(* The ledger's writes hold the cross-process file lock and the task lock  *)
(* (send_reservation._locked), so each is one action.  The runner's other  *)
(* writes of the file are one action too: two processes saving at the same *)
(* instant are not modelled.  Wall time is kept as one fact, whether the   *)
(* lease in the file is still ahead of the clock.                          *)
(***************************************************************************)
EXTENDS Naturals, FiniteSets

CONSTANTS
  Instance,    \* runner processes, each one boot
  Key,         \* reservation keys (uuids: never issued twice)
  NoOne,       \* no lease owner, no key
  Cap,         \* the run's cap, in the ledger's unit
  Amounts,     \* the bounds one send may have
  MaxRestarts, \* runner.MAX_RESTARTS
  Faults       \* among "crash", "context", "lock"

ASSUME CapAssumption == Cap \in Nat
ASSUME AmountsAssumption == Amounts \subseteq Nat
ASSUME KeyAssumption == IsFiniteSet(Key)
ASSUME NoOneAssumption == NoOne \notin Instance \cup Key
ASSUME LimitsAssumption == MaxRestarts \in Nat \ {0}

VARIABLES
  task,   \* the run's file: status, waiting, lease, restarts, ledger rows
  tick,   \* tick[i]: process i and its runner thread
  flight, \* flight[i]: the helper thread of the round in flight
  wire    \* wire[k]: the request under hold k, its output bound, the bill

vars == <<task, tick, flight, wire>>

NoHold == [st |-> "none", amount |-> 0, boot |-> NoOne]
NoFlight == [pc |-> "none", key |-> NoOne, kept |-> {}]

Row == [st : {"none", "open", "charged"}, amount : 0..Cap, boot : Instance \cup {NoOne}]
RunFile == [status : {"running", "needs_user", "paused"}, waiting : BOOLEAN,
            owner : Instance \cup {NoOne}, live : BOOLEAN, restarts : 0..MaxRestarts,
            hold : [Key -> Row]]
Round == [pc : {"none", "round", "admitted", "sent", "refused", "ended"},
          key : Key \cup {NoOne}, kept : SUBSET Key]
Request == [st : {"unsent", "sent", "billed"}, bound : 0..Cap, bill : 0..Cap]

TypeOK ==
  /\ task \in RunFile
  /\ tick \in [Instance -> {"unborn", "sweep", "idle", "recover", "step", "dead"}]
  /\ flight \in [Instance -> Round]
  /\ wire \in [Key -> Request]

Init ==
  /\ task = [status |-> "running", waiting |-> FALSE, owner |-> NoOne, live |-> FALSE,
             restarts |-> 0, hold |-> [k \in Key |-> NoHold]]
  /\ tick = [i \in Instance |-> "unborn"]
  /\ flight = [i \in Instance |-> NoFlight]
  /\ wire = [k \in Key |-> [st |-> "unsent", bound |-> 0, bill |-> 0]]

-----------------------------------------------------------------------------
(* The ledger.  A row's amount is a number of units; counting the units of *)
(* the rows adds the amounts up.                                           *)

Open(k) == task.hold[k].st = "open"

CountedUnits == {u \in Key \X (1..Cap) : u[2] <= task.hold[u[1]].amount}

\* send_reservation._spent: settled charges plus open holds.
Spent == Cardinality(CountedUnits)

BilledUnits == {u \in Key \X (1..Cap) : u[2] <= wire[u[1]].bill}

Billed == Cardinality(BilledUnits)

\* Plausible bugs: the holds settle at zero, or are let go.
AtZero(S) == [k \in Key |-> IF k \in S THEN [task.hold[k] EXCEPT !.st = "charged", !.amount = 0]
                            ELSE task.hold[k]]
LetGo(S) == [k \in Key |-> IF k \in S THEN NoHold ELSE task.hold[k]]

\* The holds of S settled `uncertain`, each at its bound.
AtBound(S) == [k \in Key |-> IF k \in S THEN [task.hold[k] EXCEPT !.st = "charged"]
                             ELSE task.hold[k]]

\* A plausible bug: a late settlement lowers a charge.
SettledLate(k, n) == [task EXCEPT !.hold[k].st = "charged", !.hold[k].amount = n]

\* A hold settled to n; one reconciled meanwhile already counted at its bound.
SettledTo(k, n) == IF Open(k) THEN [task EXCEPT !.hold[k].st = "charged", !.hold[k].amount = n]
                   ELSE task

\* A plausible bug: open holds are not counted.
FitsSettled(h) ==
  Cardinality({u \in CountedUnits : task.hold[u[1]].st = "charged"}) + h <= Cap

\* A new hold of h fits beside everything settled and held.
Fits(h) == Spent + h <= Cap

HoldsOf(i) == {k \in Key : Open(k) /\ task.hold[k].boot = i}
HoldsOfOthers(i) == {k \in Key : Open(k) /\ task.hold[k].boot # i}

\* A plausible bug: a lease never lapses.
LeasedElsewhere(i) == task.owner \notin {NoOne, i}

HeldLive(i) == task.owner = i /\ task.live
LiveElsewhere(i) == task.owner \notin {NoOne, i} /\ task.live

\* A plausible bug: the sweep reconciles whoever holds the lease.
ReconciledAnyway(i) ==
  IF HoldsOfOthers(i) = {} THEN task
  ELSE [task EXCEPT !.hold = AtBound(HoldsOfOthers(i)),
                    !.status = IF @ = "paused" THEN @ ELSE "needs_user"]

\* send_reservation.reconcile: other boots' open holds settle at their bound
\* and the run (driven or not yet stopped) needs the user; skipped while
\* another instance holds the live lease.
Reconciled(i) ==
  IF LiveElsewhere(i) \/ HoldsOfOthers(i) = {} THEN task
  ELSE [task EXCEPT !.hold = AtBound(HoldsOfOthers(i)),
                    !.status = IF @ = "paused" THEN @ ELSE "needs_user"]

\* A plausible bug: the reason is written in place of the status.
StoppedAsReason == [task EXCEPT !.status = IF @ = "running" THEN "budget" ELSE @]

\* send_reservation._stop and the guarded stops: an earlier stop is kept.
StoppedFor == [task EXCEPT !.status = IF @ = "running" THEN "needs_user" ELSE @]

-----------------------------------------------------------------------------
(* The process and its tick thread. *)

Up(i) == tick[i] \notin {"unborn", "dead"}

SetTick(i, pc) == tick' = [tick EXCEPT ![i] = pc]

Boot(i) ==
  /\ tick[i] = "unborn"
  /\ SetTick(i, "sweep")
  /\ UNCHANGED <<task, flight, wire>>

\* runner.boot_sweep before the first tick; sweep() logs a failing run.
BootSweep(i) ==
  /\ tick[i] = "sweep"
  /\ task' \in {Reconciled(i)} \cup (IF "lock" \in Faults THEN {task} ELSE {})
  /\ SetTick(i, "idle")
  /\ UNCHANGED <<flight, wire>>

\* Power loss or a kill, at any point of either thread.
Crash(i) ==
  /\ "crash" \in Faults
  /\ Up(i)
  /\ SetTick(i, "dead")
  /\ flight' = [flight EXCEPT ![i] = NoFlight]
  /\ UNCHANGED <<task, wire>>

\* 90 seconds pass with no renewal: the process is dead or its tick thread
\* was busy with another run.
Lapse ==
  /\ task.live
  /\ task' = [task EXCEPT !.live = FALSE]
  /\ UNCHANGED <<tick, flight, wire>>

\* tick: a run stopped for the user is only noticed, a paused one let go.
Drivable == task.status = "running" \/ (task.status = "needs_user" /\ task.waiting)

FlightAlive(i) == flight[i].pc # "none"

Heartbeat(i) ==
  /\ tick[i] = "idle"
  /\ FlightAlive(i)
  /\ task.owner = i
  /\ task' = [task EXCEPT !.live = TRUE]
  /\ UNCHANGED <<tick, flight, wire>>

\* Runner._lease: a takeover counts as a restart, with the earlier ones that
\* are still inside the window.
TakeLease(i) ==
  /\ tick[i] = "idle"
  /\ ~FlightAlive(i)
  /\ Drivable
  /\ ~LiveElsewhere(i)
  /\ LET takeover == task.owner \notin {NoOne, i}
     IN /\ \E n \in (IF takeover THEN 0..task.restarts ELSE {task.restarts}) :
             task' = [task EXCEPT !.owner = i, !.live = TRUE,
                                  !.restarts = IF takeover /\ n < MaxRestarts THEN n + 1 ELSE n]
        /\ SetTick(i, IF takeover THEN "recover" ELSE "step")
  /\ UNCHANGED <<flight, wire>>

\* A tick that raises does nothing more; MAX_ERRORS of them in a row pause
\* the run.  The errors are not counted: any of them may be the last.
TickErrs(i) ==
  /\ "context" \in Faults
  /\ tick[i] \in {"recover", "step"}
  /\ SetTick(i, "idle")
  /\ task' \in {task, [task EXCEPT !.status = "paused"]}
  /\ UNCHANGED <<flight, wire>>

\* Runner._context and _bound come first in a recovery and in a step: the
\* owner no longer reaches the project, _Stop("needs_user", "access").
AccessLost(i) ==
  /\ "context" \in Faults
  /\ tick[i] \in {"recover", "step"}
  /\ SetTick(i, "idle")
  /\ task' = [task EXCEPT !.status = "needs_user"]
  /\ UNCHANGED <<flight, wire>>

\* Runner._recover: reconcile, then stop the run when the restarts of the
\* hour are used up or a send was lost, else go on to the step.
Recover(i) ==
  /\ tick[i] = "recover"
  /\ LET lost == Reconciled(i) # task
     IN \/ /\ task.restarts >= MaxRestarts
           /\ task' = [Reconciled(i) EXCEPT !.status = "paused"]
           /\ SetTick(i, "idle")
        \/ /\ task.restarts < MaxRestarts
           /\ lost
           /\ task' = [Reconciled(i) EXCEPT !.status = "needs_user"]
           /\ SetTick(i, "idle")
        \/ /\ task.restarts < MaxRestarts
           /\ ~lost
           /\ SetTick(i, "step")
           /\ UNCHANGED task
  /\ UNCHANGED <<flight, wire>>

\* Runner._step on a run no longer driven, one that keeps waiting for the
\* user, or one whose next step is not an agent round.
StepNothing(i) ==
  /\ tick[i] = "step"
  /\ SetTick(i, "idle")
  /\ UNCHANGED <<task, flight, wire>>

\* The step waits for the user's card.
StepWaits(i) ==
  /\ tick[i] = "step"
  /\ task.status = "running"
  /\ task' = [task EXCEPT !.status = "needs_user", !.waiting = TRUE]
  /\ SetTick(i, "idle")
  /\ UNCHANGED <<flight, wire>>

\* One of the step's stop checks (budget, envelope, locked, uncertain).
StepStops(i) ==
  /\ tick[i] = "step"
  /\ task.status # "paused"
  /\ task' \in {[task EXCEPT !.status = "needs_user"], [task EXCEPT !.status = "paused"]}
  /\ SetTick(i, "idle")
  /\ UNCHANGED <<flight, wire>>

\* The run goes on (a decision made ends its wait) and an agent round starts.
StartRound(i) ==
  /\ tick[i] = "step"
  /\ Drivable
  /\ task' = [task EXCEPT !.status = "running", !.waiting = FALSE]
  /\ SetTick(i, "idle")
  /\ flight' = [flight EXCEPT ![i].pc = "round"]
  /\ UNCHANGED wire

\* run_monitor.pause: the user's own pause.
Pause ==
  /\ task.status # "paused"
  /\ task' = [task EXCEPT !.status = "paused", !.waiting = FALSE]
  /\ UNCHANGED <<tick, flight, wire>>

\* assistant_tasks.resume_task on a stopped run.
Resume ==
  /\ task.status \in {"needs_user", "paused"}
  /\ task' = [task EXCEPT !.status = "running", !.waiting = FALSE]
  /\ UNCHANGED <<tick, flight, wire>>

-----------------------------------------------------------------------------
(* The flight thread: ReservingProvider.stream. *)

FreshKeys == {k \in Key : task.hold[k].st = "none"}

\* admit: a process that lost the lease is refused and writes nothing.
RefusedLease(i) ==
  /\ flight[i].pc = "round"
  /\ ~HeldLive(i)
  /\ flight' = [flight EXCEPT ![i].pc = "ended"]
  /\ UNCHANGED <<task, tick, wire>>

\* admit with the key of an attempt that failed before any byte: the hold is
\* reused while it is open.
ReuseHold(i) ==
  /\ flight[i].pc = "round"
  /\ HeldLive(i)
  /\ \E k \in flight[i].kept :
       /\ Open(k)
       /\ flight' = [flight EXCEPT ![i].pc = "admitted", ![i].key = k]
  /\ UNCHANGED <<task, tick, wire>>

\* admit: a new hold, when it fits beside everything settled and held.  Kept
\* keys whose hold was settled meanwhile can serve no retry and are dropped.
Admit(i) ==
  /\ flight[i].pc = "round"
  /\ HeldLive(i)
  /\ \E k \in FreshKeys, h \in Amounts :
       /\ Fits(h)
       /\ task' = [task EXCEPT !.hold[k] = [st |-> "open", amount |-> h, boot |-> i]]
       /\ flight' = [flight EXCEPT ![i].pc = "admitted", ![i].key = k,
                                   ![i].kept = {o \in @ : Open(o)} \cup {k}]
  /\ UNCHANGED <<tick, wire>>

\* admit: over the cap; the stop is written under the locks taken again.
RefusedBudget(i) ==
  /\ flight[i].pc = "round"
  /\ HeldLive(i)
  /\ \E h \in Amounts : ~Fits(h)
  /\ flight' = [flight EXCEPT ![i].pc = "refused"]
  /\ UNCHANGED <<task, tick, wire>>

StopRefused(i) ==
  /\ flight[i].pc = "refused"
  /\ task' = StoppedFor
  /\ flight' = [flight EXCEPT ![i].pc = "ended"]
  /\ UNCHANGED <<tick, wire>>

\* The inner provider's request goes out, whoever holds the lease by now; its
\* output is bounded by what was held for it.
Send(i) ==
  /\ flight[i].pc = "admitted"
  /\ LET k == flight[i].key
     IN wire' = [wire EXCEPT ![k].st = "sent", ![k].bound = task.hold[k].amount]
  /\ flight' = [flight EXCEPT ![i].pc = "sent"]
  /\ UNCHANGED <<task, tick>>

\* The provider answers and bills, up to the send's bound, even when the
\* sender is gone.
Answer(k) ==
  /\ wire[k].st = "sent"
  /\ \E n \in 0..wire[k].bound : wire' = [wire EXCEPT ![k] = [st |-> "billed", bound |-> 0, bill |-> n]]
  /\ UNCHANGED <<task, tick, flight>>

\* The attempt fails before any byte of the answer: nothing is billed and
\* the hold stays for the retry.
FailsSilent(i) ==
  /\ flight[i].pc = "sent"
  /\ wire[flight[i].key].st = "sent"
  /\ wire' = [wire EXCEPT ![flight[i].key] = [st |-> "unsent", bound |-> 0, bill |-> 0]]
  /\ flight' = [flight EXCEPT ![i].pc = "round", ![i].key = NoOne]
  /\ UNCHANGED <<task, tick>>

Forgotten(i) == [flight EXCEPT ![i] = [pc |-> "round", key |-> NoOne, kept |-> @.kept \ {@.key}]]

\* The answer has begun.
Answered(i) == flight[i].pc = "sent" /\ wire[flight[i].key].st = "billed"

\* The stream breaks after the answer began: the hold settles at its bound.
Breaks(i) ==
  /\ Answered(i)
  /\ task' = [task EXCEPT !.hold = AtBound({flight[i].key} \cap {k \in Key : Open(k)})]
  /\ flight' = Forgotten(i)
  /\ UNCHANGED <<tick, wire>>

\* The answer ends: settle to the usage, to the bound where it was not reported.
Settle(i) ==
  /\ Answered(i)
  /\ LET k == flight[i].key
     IN \E n \in wire[k].bill .. task.hold[k].amount : task' = SettledTo(k, n)
  /\ flight' = Forgotten(i)
  /\ UNCHANGED <<tick, wire>>

\* settle: a lock or file fault is logged and the hold stays open.
SettleFails(i) ==
  /\ "lock" \in Faults
  /\ Answered(i)
  /\ flight' = Forgotten(i)
  /\ UNCHANGED <<task, tick, wire>>

RoundEnds(i) ==
  /\ flight[i].pc = "round"
  /\ flight' = [flight EXCEPT ![i].pc = "ended"]
  /\ UNCHANGED <<task, tick, wire>>

\* runner.charge meters a call of the round; a spent budget stops the run.
Charge(i) ==
  /\ flight[i].pc = "round"
  /\ task.status # "paused"
  /\ task' = [task EXCEPT !.status = "needs_user"]
  /\ UNCHANGED <<tick, flight, wire>>

\* close_open: whatever this boot left open settles at its bound; a ledger
\* fault only keeps the holds open.
CloseOpen(i) ==
  /\ flight[i].pc = "ended"
  /\ task' \in {[task EXCEPT !.hold = AtBound(HoldsOf(i))]}
               \cup (IF "lock" \in Faults THEN {task} ELSE {})
  /\ flight' = [flight EXCEPT ![i] = NoFlight]
  /\ UNCHANGED <<tick, wire>>

-----------------------------------------------------------------------------
TickThread(i) ==
  \/ BootSweep(i) \/ Heartbeat(i) \/ TakeLease(i) \/ TickErrs(i)
  \/ AccessLost(i) \/ Recover(i) \/ StepNothing(i) \/ StepWaits(i) \/ StepStops(i)
  \/ StartRound(i)

FlightThread(i) ==
  \/ RefusedLease(i) \/ ReuseHold(i) \/ Admit(i) \/ RefusedBudget(i) \/ StopRefused(i)
  \/ Send(i) \/ FailsSilent(i) \/ Breaks(i) \/ Settle(i)
  \/ SettleFails(i) \/ RoundEnds(i) \/ Charge(i) \/ CloseOpen(i)

Next ==
  \/ \E i \in Instance : Boot(i) \/ Crash(i) \/ TickThread(i) \/ FlightThread(i)
  \/ \E k \in Key : Answer(k)
  \/ Lapse
  \/ Pause
  \/ Resume

Spec == Init /\ [][Next]_vars

\* The threads of a live process run on, a dead owner's lease lapses.
Fairness ==
  /\ \A i \in Instance : WF_vars(TickThread(i)) /\ WF_vars(FlightThread(i))
  /\ WF_vars(Lapse /\ (task.owner # NoOne => tick[task.owner] = "dead"))

FairSpec == Spec /\ Fairness
=============================================================================
