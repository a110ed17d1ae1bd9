---------------------------- MODULE ShutdownProps ----------------------------
(***************************************************************************)
(* What closing the window must do.                                        *)
(***************************************************************************)
EXTENDS Shutdown

\* Between closes the app works in full: a vetoed quit has opened the gate,
\* released the latch, left the window and let the queue run on.
VetoRestoresTheApp ==
  handler.worker = "none" => ~gated /\ ~latch /\ ~drained /\ window = "shown"

\* Only the deadline closes the window on a question nobody answered; else a
\* window that was hidden or closed had nothing to ask, or was told to quit.
ClosedUnansweredOnlyLate ==
  window # "shown" => answer \notin {"asked", "no"} \/ handler.late

\* A quit that leaves no report file left no solve running and lost no edit,
\* but those a request that had passed the gate made behind the flush.
QuietQuitIsClean ==
  window = "gone" /\ ~filed => InFlight = {} /\ dirty \subseteq behind

\* A hidden window never stays: no step that hangs leaves the user with a
\* live process and nothing on the screen (`_run_with_deadline`).
HiddenWindowGoes == window = "hidden" ~> window = "gone"
=============================================================================
