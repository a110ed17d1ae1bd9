----------------------------- MODULE SolveOnce ------------------------------
(***************************************************************************)
(* What the solve queue promises of every admitted job: it is solved at    *)
(* most once, whatever the process does in between; no two jobs of one     *)
(* project are solved at the same time; and no more than Cap jobs are.     *)
(* The promise is that of services/solve_queue.py (`enqueue_unique`,       *)
(* MAX_CONCURRENT_SOLVES) and of `reconcile_on_boot`'s crash-loop rule.    *)
(***************************************************************************)
EXTENDS Naturals, FiniteSets

CONSTANTS Jobs, Projects, Cap

VARIABLES
  project,   \* the project of each job
  begun,     \* jobs whose solve ever started
  busy       \* jobs being solved now

vars == <<project, begun, busy>>

Init ==
  /\ project \in [Jobs -> Projects]
  /\ begun = {}
  /\ busy = {}

\* A job gets its project before it starts, and keeps it.
Admit(j, p) ==
  /\ j \notin begun
  /\ project' = [project EXCEPT ![j] = p]
  /\ UNCHANGED <<begun, busy>>

Begin(j) ==
  /\ j \notin begun
  /\ \A i \in busy : project[i] # project[j]
  /\ Cardinality(busy) < Cap
  /\ begun' = begun \cup {j}
  /\ busy' = busy \cup {j}
  /\ UNCHANGED project

End(j) ==
  /\ j \in busy
  /\ busy' = busy \ {j}
  /\ UNCHANGED <<project, begun>>

\* The process dies: every solve under way is cut short and not resumed.
Cut ==
  /\ busy # {} /\ busy' = {}
  /\ UNCHANGED <<project, begun>>

Next ==
  \/ \E j \in Jobs, p \in Projects : Admit(j, p)
  \/ \E j \in Jobs : Begin(j) \/ End(j)
  \/ Cut

Spec == Init /\ [][Next]_vars
=============================================================================
