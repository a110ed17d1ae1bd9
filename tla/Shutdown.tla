------------------------------ MODULE Shutdown ------------------------------
(***************************************************************************)
(* Closing the desktop window (services/shutdown.py, desktop/gui.py): the  *)
(* close handler and its worker, the eight-step sequence on an inner       *)
(* thread, and around it what goes on in the app meanwhile: requests that  *)
(* passed the mutation gate, foreground solves, the queue's dispatcher.    *)
(*                                                                         *)
(* A context is clean or holds edits the disk lacks.  All contexts are     *)
(* bound to a project and stay resident (Contexts models their eviction),  *)
(* a job's life is cut down to what the sequence sees of it (SolveQueue    *)
(* models it), and steps 6 to 8, each guarded, are one.                    *)
(***************************************************************************)
EXTENDS Naturals, FiniteSets

CONSTANT Ctx \* the resident project contexts

VARIABLES
  window,  \* shown, hidden or gone (the process exits with it)
  handler, \* the close handler's worker thread and its `_may_close`
  steps,   \* the inner thread's place in the sequence
  gated,   \* the mutation gate
  latch,   \* `_running`
  drained, \* the queue starts nothing any more
  answer,  \* what came of the confirmation of this sequence
  report,  \* the sequence's report
  filed,   \* a report file was written for this close
  toFlush, \* contexts the flush still has to save
  solve,   \* solve[c]: the solve of context c
  dirty,   \* contexts with edits that are not on disk
  writing, \* contexts with a write request past the gate
  behind   \* history: contexts written after the flush had passed them

vars == <<window, handler, steps, gated, latch, drained, answer, report, filed, toFlush,
          solve, dirty, writing, behind>>

closeVars == <<window, handler, steps, gated, latch, drained, answer, report, filed, toFlush>>
appVars == <<solve, dirty, writing, behind>>

Blank == [quit |-> FALSE, timedOut |-> FALSE, unflushed |-> {}, errors |-> FALSE]

TypeOK ==
  /\ window \in {"shown", "hidden", "gone"}
  /\ handler \in [worker : {"none", "waiting", "destroying"}, late : BOOLEAN]
  /\ steps \in {"none", "gate", "detect", "confirm", "veto", "hide", "drain", "signal", "wait",
                "flush", "done"}
  /\ gated \in BOOLEAN /\ latch \in BOOLEAN /\ drained \in BOOLEAN /\ filed \in BOOLEAN
  /\ answer \in {"unasked", "asked", "yes", "no", "failed"}
  /\ report \in [quit : BOOLEAN, timedOut : BOOLEAN, unflushed : SUBSET Ctx, errors : BOOLEAN]
  /\ toFlush \subseteq Ctx
  /\ solve \in [Ctx -> {"none", "queued", "queue", "active"}]
  /\ dirty \subseteq Ctx /\ writing \subseteq Ctx /\ behind \subseteq Ctx

Init ==
  /\ window = "shown"
  /\ handler = [worker |-> "none", late |-> FALSE]
  /\ steps = "none"
  /\ gated = FALSE /\ latch = FALSE /\ drained = FALSE /\ filed = FALSE
  /\ answer = "unasked"
  /\ report = Blank
  /\ toFlush = {}
  /\ solve = [c \in Ctx |-> "none"]
  /\ dirty = {} /\ writing = {} /\ behind = {}

-----------------------------------------------------------------------------
(* The app around the close.  Everything stops with the process. *)

Up == window # "gone"

\* `solves_in_flight`: a queued job is not one.
InFlight == {c \in Ctx : solve[c] \in {"queue", "active"}}

\* A write request passes the mutation gate and the solver gate, and changes
\* the network later.
Admit(c) ==
  /\ Up
  /\ ~gated
  /\ c \notin InFlight
  /\ writing' = writing \cup {c}
  /\ UNCHANGED <<solve, dirty, behind>> /\ UNCHANGED closeVars

\* The flush has been there already.
Passed(c) == report.quit \/ (steps = "flush" /\ c \notin toFlush)

Write(c) ==
  /\ Up
  /\ c \in writing
  /\ writing' = writing \ {c}
  /\ dirty' = dirty \cup {c}
  /\ behind' = IF Passed(c) THEN behind \cup {c} ELSE behind
  /\ UNCHANGED solve /\ UNCHANGED closeVars

\* The save route or the autosave.
Save(c) ==
  /\ Up
  /\ ~gated
  /\ c \notin InFlight
  /\ dirty' = dirty \ {c}
  /\ UNCHANGED <<solve, writing, behind>> /\ UNCHANGED closeVars

\* A foreground run (or AC power flow), and an enqueue.
Submit(c) ==
  /\ Up
  /\ ~gated
  /\ solve[c] = "none"
  /\ \E kind \in {"active", "queued"} : solve' = [solve EXCEPT ![c] = kind]
  /\ UNCHANGED <<dirty, writing, behind>> /\ UNCHANGED closeVars

\* The dispatcher's claim is refused by the drain alone, not by the gate.
Dispatch(c) ==
  /\ Up
  /\ ~drained
  /\ solve[c] = "queued"
  /\ solve' = [solve EXCEPT ![c] = "queue"]
  /\ UNCHANGED <<dirty, writing, behind>> /\ UNCHANGED closeVars

\* A queued solve that succeeds saves its project, a foreground one leaves
\* its results in memory.
SolveEnds(c) ==
  /\ Up
  /\ c \in InFlight
  /\ solve' = [solve EXCEPT ![c] = "none"]
  /\ dirty' \in IF solve[c] = "queue" THEN {dirty, dirty \ {c}} ELSE {dirty, dirty \cup {c}}
  /\ UNCHANGED <<writing, behind>> /\ UNCHANGED closeVars

App == \E c \in Ctx :
  Admit(c) \/ Write(c) \/ Save(c) \/ Submit(c) \/ Dispatch(c) \/ SolveEnds(c)

-----------------------------------------------------------------------------
(* `shutdown_sequence`, on the inner thread. *)

Step(pc) == Up /\ steps = pc

\* The re-entry latch is taken without waiting: a second sequence while one
\* holds it ends at once, without a quit.
Gate ==
  /\ Step("gate")
  /\ IF latch THEN steps' = "done" /\ UNCHANGED <<gated, latch>>
     ELSE steps' = "detect" /\ gated' = TRUE /\ latch' = TRUE
  /\ UNCHANGED <<window, handler, drained, answer, report, filed, toFlush>> /\ UNCHANGED appVars

\* The user is asked only when a solve is in flight; a probe that fails is
\* reported and counts as nothing to ask about.
Detect ==
  /\ Step("detect")
  /\ \/ /\ InFlight # {}
        /\ steps' = "confirm" /\ answer' = "asked"
        /\ UNCHANGED report
     \/ /\ InFlight = {}
        /\ steps' = "hide"
        /\ UNCHANGED <<answer, report>>
     \/ /\ steps' = "hide" /\ report' = [report EXCEPT !.errors = TRUE]
        /\ UNCHANGED answer
  /\ UNCHANGED <<window, handler, gated, latch, drained, filed, toFlush>> /\ UNCHANGED appVars

\* Plausible bugs: no answer vetoes; the veto goes to no step of the sequence.
QuitsAnyway(a) == "hide"
Cancelled(a) == IF a = "no" THEN "cancelled" ELSE "hide"

\* The modal's answer; one that cannot be shown does not veto.
AfterAnswer(a) == IF a = "no" THEN "veto" ELSE "hide"

Answer ==
  /\ Step("confirm")
  /\ answer' \in {"yes", "no", "failed"}
  /\ steps' = AfterAnswer(answer')
  /\ report' = [report EXCEPT !.errors = @ \/ answer' = "failed"]
  /\ UNCHANGED <<window, handler, gated, latch, drained, filed, toFlush>> /\ UNCHANGED appVars

\* A plausible bug: a context that refused its save is not told of.
TellingErrors(r) == r.errors \/ r.timedOut

\* Whether the report says something (`persist_report`).
Telling(r) == r.unflushed # {} \/ r.errors \/ r.timedOut

\* A plausible bug: the gate stays shut.
LeaveGate == gated' = gated

\* The gate opens again.
OpenGate == gated' = FALSE

\* The veto opens the gate and releases the latch.
Veto ==
  /\ Step("veto")
  /\ steps' = "done" /\ OpenGate /\ latch' = FALSE
  /\ UNCHANGED <<window, handler, drained, answer, report, filed, toFlush>> /\ UNCHANGED appVars

Hide ==
  /\ Step("hide")
  /\ steps' = "drain" /\ window' = "hidden"
  /\ UNCHANGED <<handler, gated, latch, drained, answer, report, filed, toFlush>>
  /\ UNCHANGED appVars

\* `_abort_everything`: first the queue is kept from starting anything more,
\* then what runs is looked up and told to stop.
StopDispatching == drained' = TRUE

Drain ==
  /\ Step("drain")
  /\ steps' = "signal" /\ StopDispatching
  /\ UNCHANGED <<window, handler, gated, latch, answer, report, filed, toFlush>>
  /\ UNCHANGED appVars

Flushes(timedOut) ==
  /\ steps' = "flush" /\ toFlush' = Ctx
  /\ report' = [report EXCEPT !.timedOut = timedOut]

Signal ==
  /\ Step("signal")
  /\ \/ InFlight # {} /\ steps' = "wait" /\ UNCHANGED <<report, toFlush>>
     \/ InFlight = {} /\ Flushes(FALSE)
  /\ UNCHANGED <<window, handler, gated, latch, drained, answer, filed>> /\ UNCHANGED appVars

\* The bounded wait ends with the solves or without them.
Waited ==
  /\ Step("wait")
  /\ Flushes(InFlight # {})
  /\ UNCHANGED <<window, handler, gated, latch, drained, answer, filed>> /\ UNCHANGED appVars

\* `flush_all`: a context whose solver is in flight refuses the save; a
\* refused or failing save is reported.
Refuses(c) == c \in InFlight

Flush(c) ==
  /\ Step("flush")
  /\ c \in toFlush
  /\ toFlush' = toFlush \ {c}
  /\ \/ ~Refuses(c) /\ dirty' = dirty \ {c} /\ UNCHANGED report
     \/ report' = [report EXCEPT !.unflushed = @ \cup {c}] /\ UNCHANGED dirty
  /\ UNCHANGED <<window, handler, steps, gated, latch, drained, answer, filed>>
  /\ UNCHANGED <<solve, writing, behind>>

\* Steps 6 to 8, the report and the latch.
Finish ==
  /\ Step("flush")
  /\ toFlush = {}
  /\ report' = [report EXCEPT !.quit = TRUE]
  /\ filed' = (filed \/ Telling(report))
  /\ steps' = "done" /\ latch' = FALSE
  /\ UNCHANGED <<window, handler, gated, drained, answer, toFlush>> /\ UNCHANGED appVars

Sequence ==
  \/ Gate \/ Detect \/ Answer \/ Veto \/ Hide \/ Drain \/ Signal \/ Waited \/ Finish
  \/ \E c \in Ctx : Flush(c)

-----------------------------------------------------------------------------
(* `CloseHandler`. *)

\* A close event; while a worker is alive it only vetoes.
Closing ==
  /\ window = "shown"
  /\ handler.worker = "none"
  /\ handler' = [handler EXCEPT !.worker = "waiting"]
  /\ steps' = "gate" /\ answer' = "unasked" /\ report' = Blank /\ toFlush' = {}
  /\ UNCHANGED <<window, gated, latch, drained, filed>> /\ UNCHANGED appVars

\* The inner thread ended within the deadline: quit, or wait for another close.
Joined ==
  /\ Up
  /\ handler.worker = "waiting"
  /\ steps = "done"
  /\ handler' = [handler EXCEPT !.worker = IF report.quit THEN "destroying" ELSE "none"]
  /\ steps' = IF report.quit THEN steps ELSE "none"
  /\ UNCHANGED <<window, gated, latch, drained, answer, report, filed, toFlush>>
  /\ UNCHANGED appVars

\* A plausible bug: only the steps before the window is hidden are timed.
OverdueOnScreen == steps # "done" /\ window = "shown"

\* The deadline passed, wherever the inner thread is; it is abandoned, the
\* report says so and the window goes.
Overdue == steps # "done"

Expire ==
  /\ Up
  /\ handler.worker = "waiting"
  /\ Overdue
  /\ handler' = [worker |-> "destroying", late |-> TRUE]
  /\ filed' = TRUE
  /\ UNCHANGED <<window, steps, gated, latch, drained, answer, report, toFlush>>
  /\ UNCHANGED appVars

\* `_may_close` is set before destroy, whose close event it lets through.
Destroy ==
  /\ Up
  /\ handler.worker = "destroying"
  /\ window' = "gone"
  /\ UNCHANGED <<handler, steps, gated, latch, drained, answer, report, filed, toFlush>>
  /\ UNCHANGED appVars

Handler == Joined \/ Expire \/ Destroy

Next == App \/ Sequence \/ Closing \/ Handler

Spec == Init /\ [][Next]_vars

\* The worker thread runs, and the clock it waits by.
FairSpec == Spec /\ WF_vars(Handler)
=============================================================================
