--------------------------- MODULE ShutdownProofs ---------------------------
(***************************************************************************)
(* What closing the window must do, proved for any set of contexts.        *)
(*                                                                         *)
(* The order of the sequence's steps carries the proof: Phases says what   *)
(* each place in the sequence has done already and what it has not yet,    *)
(* Quiet what a flush and a quit with nothing to tell have established.    *)
(***************************************************************************)
EXTENDS ShutdownProps, TLAPS

\* The places in the sequence.
BeforeGate == steps \in {"none", "gate"}
BeforeHide == steps \in {"detect", "confirm", "veto", "hide"}
BeforeStop == steps = "drain"
Stopped == steps \in {"signal", "wait", "flush"} \/ report.quit

\* What holds at each of them, and what the handler knows of it.
Phases ==
  /\ report.quit => steps = "done" /\ toFlush = {}
  /\ BeforeGate => ~report.quit
  /\ BeforeGate \/ (steps = "done" /\ ~report.quit) => ~gated /\ ~latch
  /\ ~BeforeStop /\ ~Stopped => ~drained /\ window # "hidden"
  /\ BeforeStop => ~drained
  /\ BeforeHide \/ BeforeStop \/ Stopped => gated
  /\ Stopped => drained
  /\ steps \in {"gate", "detect"} => answer = "unasked"
  /\ steps = "hide" \/ BeforeStop \/ Stopped => answer \notin {"asked", "no"}
  /\ handler.worker = "none" => steps = "none" /\ window = "shown"
  /\ handler.worker = "destroying" => handler.late \/ report.quit
  /\ window = "gone" => handler.worker = "destroying"

\* What a sequence that flushes or has ended, with nothing to tell, has done.
Quiet ==
  /\ handler.late => filed
  /\ steps = "flush" /\ ~Telling(report)
       => InFlight = {} /\ \A c \in dirty : c \in toFlush \/ c \in behind
  /\ report.quit /\ ~filed => InFlight = {} /\ dirty \subseteq behind

Inv == TypeOK /\ Phases /\ Quiet
-----------------------------------------------------------------------------
\* The initial state is in the invariant.
LEMMA InitInv == Init => Inv
<1> SUFFICES ASSUME Init PROVE Inv
  OBVIOUS
<1>1. ~report.quit
  BY DEF Init, Blank
<1>2. TypeOK
  BY DEF Init, TypeOK, Blank
<1>3. Phases
  BY <1>1 DEF Init, Phases, BeforeGate, BeforeHide, BeforeStop, Stopped
<1>4. Quiet
  BY <1>1 DEF Init, Quiet
<1> QED BY <1>2, <1>3, <1>4 DEF Inv

\* The types are kept by every step.
LEMMA StepTyped ==
  ASSUME Inv, [Next]_vars
  PROVE  TypeOK'
<1> USE DEF TypeOK, Inv
<1>1. CASE App
  BY <1>1 DEF App, Admit, Write, Save, Submit, Dispatch, SolveEnds, closeVars
<1>2. CASE Sequence
  <2>1. CASE \E c \in Ctx : Flush(c)
    BY <2>1 DEF Flush, Step
  <2>2. CASE Gate \/ Detect \/ Answer \/ Veto \/ Hide \/ Drain \/ Signal \/ Waited \/ Finish
    BY <2>2 DEF Gate, Detect, Answer, Veto, Hide, Drain, Signal, Waited, Finish, Flushes, Step,
         appVars, AfterAnswer, OpenGate, StopDispatching
  <2> QED BY <1>2, <2>1, <2>2 DEF Sequence
<1>3. CASE Closing
  BY <1>3 DEF Closing, Blank, appVars
<1>4. CASE Handler
  <2>1. handler' \in [worker : {"none", "waiting", "destroying"}, late : BOOLEAN]
    <3>1. CASE Joined
      BY <3>1 DEF Joined
    <3>2. CASE Expire
      BY <3>2 DEF Expire
    <3>3. CASE Destroy
      BY <3>3 DEF Destroy
    <3> QED BY <1>4, <3>1, <3>2, <3>3 DEF Handler
  <2>2. /\ window' \in {"shown", "hidden", "gone"} /\ filed' \in BOOLEAN
        /\ steps' \in {steps, "none"}
        /\ UNCHANGED <<gated, latch, drained, answer, report, toFlush, solve, dirty, writing, behind>>
    BY <1>4 DEF Handler, Joined, Expire, Destroy, appVars
  <2> QED BY <2>1, <2>2
<1>5. CASE UNCHANGED vars
  BY <1>5 DEF vars
<1> QED BY <1>1, <1>2, <1>3, <1>4, <1>5 DEF Next

\* The order of the sequence is kept by every step.
LEMMA StepPhases ==
  ASSUME Inv, [Next]_vars
  PROVE  Phases'
<1> USE DEF Phases, BeforeGate, BeforeHide, BeforeStop, Stopped
<1>0. TypeOK /\ Phases
  BY DEF Inv
<1>1. CASE App
  BY <1>0, <1>1 DEF App, Admit, Write, Save, Submit, Dispatch, SolveEnds, closeVars
<1>2. CASE Sequence
  <2> USE DEF Step, appVars, Up
  <2>1. CASE \E c \in Ctx : Flush(c)
    BY <1>0, <2>1 DEF Flush, TypeOK
  <2>2. CASE Gate
    BY <1>0, <2>2 DEF Gate
  <2>3. CASE Detect
    BY <1>0, <2>3 DEF Detect, TypeOK
  <2>4. CASE Answer
    BY <1>0, <2>4 DEF Answer, AfterAnswer, TypeOK
  <2>5. CASE Veto
    BY <1>0, <2>5 DEF Veto, OpenGate
  <2>6. CASE Hide
    BY <1>0, <2>6 DEF Hide
  <2>7. CASE Drain
    BY <1>0, <2>7 DEF Drain, StopDispatching
  <2>8. CASE Signal
    BY <1>0, <2>8 DEF Signal, Flushes, TypeOK
  <2>9. CASE Waited
    BY <1>0, <2>9 DEF Waited, Flushes, TypeOK
  <2>10. CASE Finish
    BY <1>0, <2>10 DEF Finish, TypeOK
  <2> QED
    BY <1>2, <2>1, <2>2, <2>3, <2>4, <2>5, <2>6, <2>7, <2>8, <2>9, <2>10 DEF Sequence
<1>3. CASE Closing
  BY <1>0, <1>3 DEF Closing, Blank, appVars, TypeOK
<1>4. CASE Handler
  BY <1>0, <1>4 DEF Handler, Joined, Expire, Destroy, Overdue, appVars, Up, TypeOK
<1>5. CASE UNCHANGED vars
  BY <1>0, <1>5 DEF vars
<1> QED BY <1>1, <1>2, <1>3, <1>4, <1>5 DEF Next

\* Where nothing is in flight behind a shut gate and a drained queue, nothing
\* gets in flight and only requests past the gate still write.
LEMMA AppQuiet ==
  ASSUME TypeOK, App, gated, drained, InFlight = {}
  PROVE  /\ InFlight' = {}
         /\ \A c \in dirty' : c \in dirty \/ (c \in Ctx /\ (Passed(c) => c \in behind'))
         /\ behind \subseteq behind'
<1>1. PICK c \in Ctx : Write(c) \/ Admit(c) \/ Save(c) \/ Submit(c) \/ Dispatch(c) \/ SolveEnds(c)
  BY DEF App
<1>2. CASE Write(c)
  BY <1>2 DEF Write, InFlight, TypeOK
<1>3. CASE SolveEnds(c)
  BY <1>3 DEF SolveEnds
<1>4. CASE Dispatch(c) \/ Submit(c) \/ Save(c) \/ Admit(c)
  BY <1>4 DEF Dispatch, Submit, Save, Admit
<1> QED BY <1>1, <1>2, <1>3, <1>4

\* What a quiet sequence has established is kept by every step.
LEMMA StepQuiet ==
  ASSUME Inv, [Next]_vars
  PROVE  Quiet'
<1>0. TypeOK /\ Phases /\ Quiet
  BY DEF Inv
<1>1. CASE App
  <2>1. UNCHANGED closeVars
    BY <1>1 DEF App, Admit, Write, Save, Submit, Dispatch, SolveEnds
  <2>2. ASSUME steps = "flush" \/ report.quit, InFlight = {}
        PROVE  /\ InFlight' = {}
               /\ \A c \in dirty' : c \in dirty \/ (Passed(c) => c \in behind')
               /\ behind \subseteq behind'
    BY <1>0, <1>1, <2>2, AppQuiet DEF Phases, Stopped
  <2>3. steps = "flush" => ~report.quit
    BY <1>0 DEF Phases
  <2> QED
    BY <1>0, <2>1, <2>2, <2>3 DEF Quiet, closeVars, Passed, Telling
<1>2. CASE Sequence
  <2> USE DEF Step, appVars, InFlight
  <2>1. CASE \E c \in Ctx : Flush(c)
    <3>1. PICK c \in Ctx : Flush(c)
      BY <2>1
    <3>2. ~report.quit /\ ~report'.quit
      BY <1>0, <3>1 DEF Flush, Phases, TypeOK
    <3>3. CASE ~Refuses(c) /\ dirty' = dirty \ {c} /\ UNCHANGED report
      BY <1>0, <3>1, <3>2, <3>3 DEF Flush, Quiet, Telling
    <3>4. CASE report' = [report EXCEPT !.unflushed = @ \cup {c}] /\ UNCHANGED dirty
      <4>1. Telling(report')
        BY <1>0, <3>4 DEF Telling, TypeOK
      <4> QED BY <1>0, <3>1, <3>2, <4>1 DEF Flush, Quiet
    <3> QED BY <3>1, <3>3, <3>4 DEF Flush
  <2>2. CASE Gate \/ Detect \/ Answer \/ Veto \/ Hide \/ Drain
    <3>1. steps' # "flush" /\ (report'.quit => report.quit) /\ filed' = filed
      BY <1>0, <2>2 DEF Gate, Detect, Answer, Veto, Hide, Drain, AfterAnswer, TypeOK
    <3> QED BY <1>0, <2>2, <3>1 DEF Gate, Detect, Answer, Veto, Hide, Drain, Quiet, Phases
  <2>3. CASE Signal
    <3>1. ~report.quit /\ ~report'.quit
      BY <1>0, <2>3 DEF Signal, Flushes, Phases, TypeOK
    <3> QED BY <1>0, <2>3, <3>1 DEF Signal, Flushes, Quiet, TypeOK
  <2>4. CASE Waited
    <3>1. ~report.quit /\ ~report'.quit
      BY <1>0, <2>4 DEF Waited, Flushes, Phases, TypeOK
    <3>2. report'.timedOut = (InFlight # {})
      BY <1>0, <2>4 DEF Waited, Flushes, TypeOK
    <3> QED BY <1>0, <2>4, <3>1, <3>2 DEF Waited, Flushes, Quiet, Telling, TypeOK
  <2>5. CASE Finish
    <3>1. steps' = "done" /\ filed' = (filed \/ Telling(report)) /\ UNCHANGED appVars
      BY <2>5 DEF Finish
    <3>2. handler' = handler /\ toFlush = {} /\ steps = "flush"
      BY <2>5 DEF Finish
    <3> QED BY <1>0, <3>1, <3>2 DEF Quiet, TypeOK
  <2> QED BY <1>2, <2>1, <2>2, <2>3, <2>4, <2>5 DEF Sequence
<1>3. CASE Closing
  <2>1. ~report'.quit /\ steps' = "gate" /\ filed' = filed /\ handler'.late = handler.late
    BY <1>0, <1>3 DEF Closing, Blank, TypeOK
  <2> QED BY <1>0, <2>1 DEF Quiet
<1>4. CASE Handler
  <2>1. handler'.late => filed'
    BY <1>0, <1>4 DEF Handler, Joined, Expire, Destroy, Quiet, TypeOK
  <2>2. steps' = "flush" => steps = "flush"
    BY <1>4 DEF Handler, Joined, Expire, Destroy
  <2> QED
    BY <1>0, <1>4, <2>1, <2>2
    DEF Handler, Joined, Expire, Destroy, Quiet, InFlight, appVars, Telling
<1>5. CASE UNCHANGED vars
  BY <1>0, <1>5 DEF vars, Quiet, InFlight, Telling
<1> QED BY <1>1, <1>2, <1>3, <1>4, <1>5 DEF Next

-----------------------------------------------------------------------------
\* Every reachable state keeps the types and the order of the sequence.
THEOREM Invariance == Spec => []Inv
<1>1. Inv /\ [Next]_vars => Inv'
  BY StepTyped, StepPhases, StepQuiet DEF Inv
<1> QED BY InitInv, <1>1, PTL DEF Spec

\* The variables stay in their types.
THEOREM TypeCorrect == Spec => []TypeOK
<1>1. Inv => TypeOK
  BY DEF Inv
<1> QED BY Invariance, <1>1, PTL

\* A vetoed quit gives the app back in full: between closes nothing of a
\* close is left behind (`shutdown_sequence`, the veto branch).
THEOREM VetoCorrect == Spec => []VetoRestoresTheApp
<1>1. Inv => VetoRestoresTheApp
  BY DEF Inv, Phases, BeforeGate, BeforeHide, BeforeStop, Stopped, VetoRestoresTheApp
<1> QED BY Invariance, <1>1, PTL

\* A window goes unanswered or against the answer only past the deadline.
THEOREM AnswerCorrect == Spec => []ClosedUnansweredOnlyLate
<1>1. Inv => ClosedUnansweredOnlyLate
  <2> SUFFICES ASSUME Inv, window # "shown", ~handler.late
               PROVE  answer \notin {"asked", "no"}
    BY DEF ClosedUnansweredOnlyLate
  <2>1. CASE window = "hidden"
    BY <2>1 DEF Inv, Phases, BeforeGate, BeforeHide, BeforeStop, Stopped
  <2>2. CASE window = "gone"
    BY <2>2 DEF Inv, Phases, Stopped
  <2> QED BY <2>1, <2>2 DEF Inv, TypeOK
<1> QED BY Invariance, <1>1, PTL

\* A quit that leaves no report left no solve and lost no edit but those
\* made behind the flush.
THEOREM QuietQuitCorrect == Spec => []QuietQuitIsClean
<1>1. Inv => QuietQuitIsClean
  BY DEF Inv, Phases, Quiet, QuietQuitIsClean
<1> QED BY Invariance, <1>1, PTL
=============================================================================
