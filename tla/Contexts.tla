------------------------------ MODULE Contexts ------------------------------
(***************************************************************************)
(* The registry of resident project contexts (services/pypsa_service.py):  *)
(* one in-memory context per project, built on a miss under the project's  *)
(* hydrate lock, evicted over a cap and then written back.  Request        *)
(* threads and queue threads run the paths that publish a context: a       *)
(* session's route, a path-scoped view, the switch to another project, the *)
(* re-opening of one from disk, and a queued solve.                        *)
(*                                                                         *)
(* A network is the set of edits it holds.  Which of the unprotected       *)
(* contexts is the least recently used is not modelled: any may be evicted.*)
(* Study-owned marks and unbound drafts, both outside the cap, and the     *)
(* deletion of a project are left out.                                     *)
(***************************************************************************)
EXTENDS Naturals, FiniteSets

CONSTANTS
  Thread,    \* request threads and dispatcher threads
  Key,       \* registry keys, one per saved project
  Session,   \* live browser sessions
  NoKey,     \* a session that points at no project
  Cap,       \* RESIDENT_CAP
  MaxBuilds, \* bound: contexts ever built
  MaxEdits   \* bound: edits ever accepted

ASSUME CapAssumption == Cap \in Nat \ {0}
ASSUME BoundsAssumption == MaxBuilds \in Nat /\ MaxEdits \in Nat
ASSUME FiniteAssumption == IsFiniteSet(Thread) /\ IsFiniteSet(Key)
ASSUME NoKeyAssumption == NoKey \notin Key

VARIABLES
  registry, \* registry[k]: the resident context of project k (_contexts)
  context,  \* context[c]: the project, network and solver of context c
  disk,     \* disk[k]: the edits in the saved project
  hydrate,  \* hydrate[k]: the project's hydrate lock and its waiter count
  session,  \* session[s]: the project the session's durable pointer names
  job,      \* job[k]: the project's queued or running solve
  thread    \* thread[t]: what thread t is doing

vars == <<registry, context, disk, hydrate, session, job, thread>>

Ctx == 1..MaxBuilds
NoCtx == 0
Edit == 1..MaxEdits
Lock == 1..Cardinality(Thread)
NoLock == 0

Unbuilt == [key |-> NoKey, edits |-> {}, solving |-> FALSE, reopened |-> FALSE]
Idle == [pc |-> "idle", op |-> "view", key |-> NoKey, ctx |-> NoCtx, lock |-> NoLock,
         protected |-> {}, detached |-> {}]

\* Program counters of a thread inside `hydrate_or_adopt` with the key's lock.
Inside == {"build", "register", "adopted", "replace", "probe", "evict", "save", "leave"}

Network == [key : Key \cup {NoKey}, edits : SUBSET Edit, solving : BOOLEAN, reopened : BOOLEAN]
Entry == [lock : Lock \cup {NoLock}, waiters : 0..Cardinality(Thread)]
Doing == [pc : {"idle", "lookup", "missed", "wait", "left", "using", "solving"} \cup Inside,
          op : {"route", "view", "open", "load", "solve"},
          key : Key \cup {NoKey}, ctx : Ctx \cup {NoCtx}, lock : Lock \cup {NoLock},
          protected : SUBSET Key, detached : SUBSET Ctx]

TypeOK ==
  /\ registry \in [Key -> Ctx \cup {NoCtx}]
  /\ context \in [Ctx -> Network]
  /\ disk \in [Key -> SUBSET Edit]
  /\ hydrate \in [Key -> Entry]
  /\ session \in [Session -> Key \cup {NoKey}]
  /\ job \in [Key -> {"none", "queued", "running"}]
  /\ thread \in [Thread -> Doing]

Init ==
  /\ registry = [k \in Key |-> NoCtx]
  /\ context = [c \in Ctx |-> Unbuilt]
  /\ disk = [k \in Key |-> {}]
  /\ hydrate = [k \in Key |-> [lock |-> NoLock, waiters |-> 0]]
  /\ session = [s \in Session |-> NoKey]
  /\ job = [k \in Key |-> "none"]
  /\ thread = [t \in Thread |-> Idle]

-----------------------------------------------------------------------------
(* Helpers. *)

At(t) == thread[t].key
Goto(t, pc) == thread' = [thread EXCEPT ![t].pc = pc]
Ends(t) == thread' = [thread EXCEPT ![t] = Idle]
Begins(t, op, k) == thread' = [thread EXCEPT ![t] = [Idle EXCEPT !.pc = "lookup", !.op = op, !.key = k]]

Built == {c \in Ctx : context[c].key # NoKey}
Resident == {k \in Key : registry[k] # NoCtx}
Edits == UNION {context[c].edits : c \in Built} \cup UNION {disk[k] : k \in Key}

\* `build_context` and `_hydrate_context_from_disk`.
Hydrated(c, k, found, again) ==
  context' = [context EXCEPT ![c] = [key |-> k, edits |-> found, solving |-> FALSE,
                                     reopened |-> again]]

NextCtx(c) == c \in Ctx \ Built /\ \A d \in Ctx \ Built : c <= d

\* `_save_context` is refused while the context's solver is in flight.
Savable(c) == ~context[c].solving
Written(c) == disk' = [disk EXCEPT ![context[c].key] = context[c].edits]

-----------------------------------------------------------------------------
(* Where operations begin. *)

\* A request of the session's own project (`resolve_for_session`).
Route(t, s) ==
  /\ thread[t].pc = "idle"
  /\ session[s] # NoKey
  /\ Begins(t, "route", session[s])
  /\ UNCHANGED <<registry, context, disk, hydrate, session, job>>

\* A path-scoped request (`resolve_project_context`), or the switch of a
\* session to the project (`activate_project`).
Request(t, op, k) ==
  /\ thread[t].pc = "idle"
  /\ op \in {"view", "open"}
  /\ Begins(t, op, k)
  /\ UNCHANGED <<registry, context, disk, hydrate, session, job>>

\* `load_project` reads the project from disk into a context of its own
\* before it publishes it; refused while the queue runs the project.  Unsaved
\* work of a resident context that is not the caller's own is saved first.
Load(t, k) ==
  /\ thread[t].pc = "idle"
  /\ job[k] # "running"
  /\ \/ UNCHANGED disk
     \/ registry[k] # NoCtx /\ Savable(registry[k]) /\ Written(registry[k])
  /\ \E c \in Ctx :
       /\ NextCtx(c)
       /\ Hydrated(c, k, disk'[k], TRUE)
       /\ thread' = [thread EXCEPT ![t] = [Idle EXCEPT !.pc = "lookup", !.op = "load",
                                                       !.key = k, !.ctx = c]]
  /\ UNCHANGED <<registry, hydrate, session, job>>

Enqueue(k) ==
  /\ job[k] = "none"
  /\ job' = [job EXCEPT ![k] = "queued"]
  /\ UNCHANGED <<registry, context, disk, hydrate, session, thread>>

\* A dispatcher thread claims the job and resolves its context.
Claim(t, k) ==
  /\ thread[t].pc = "idle"
  /\ job[k] = "queued"
  /\ job' = [job EXCEPT ![k] = "running"]
  /\ Begins(t, "solve", k)
  /\ UNCHANGED <<registry, context, disk, hydrate, session>>

-----------------------------------------------------------------------------
(* `hydrate_or_adopt`. *)

\* The block's first step on a resident context: a switch and a re-opening
\* have one, the others return it.
OnResident(t) == IF thread[t].op \in {"open", "load"} THEN "adopted" ELSE "leave"

\* The context the caller goes on with; a re-opening brings its own.
Adopted(t, c) == IF thread[t].op = "load" THEN thread[t].ctx ELSE c

\* The fast path takes no lock.
Hit(t) ==
  /\ thread[t].pc = "lookup"
  /\ registry[At(t)] # NoCtx
  /\ thread' = [thread EXCEPT ![t].pc = OnResident(t), ![t].ctx = Adopted(t, registry[At(t)])]
  /\ UNCHANGED <<registry, context, disk, hydrate, session, job>>

\* A lock object no thread refers to.
FreshLock == CHOOSE l \in Lock : \A t \in Thread : thread[t].lock # l

Miss(t) ==
  /\ thread[t].pc = "lookup"
  /\ registry[At(t)] = NoCtx
  /\ Goto(t, "missed")
  /\ UNCHANGED <<registry, context, disk, hydrate, session, job>>

\* A miss joins the waiters of the key's lock, creating it for the first.
Join(t) ==
  /\ thread[t].pc = "missed"
  /\ LET k == At(t)
         l == IF hydrate[k].lock = NoLock THEN FreshLock ELSE hydrate[k].lock
     IN /\ hydrate' = [hydrate EXCEPT ![k] = [lock |-> l, waiters |-> @.waiters + 1]]
        /\ thread' = [thread EXCEPT ![t].pc = "wait", ![t].lock = l]
  /\ UNCHANGED <<registry, context, disk, session, job>>

Held(l) == \E t \in Thread : thread[t].lock = l /\ thread[t].pc \in Inside

\* A plausible bug: it is not.
NoRecheck(t) == NoCtx

\* With the lock taken the registry is read again.
Recheck(t) == registry[At(t)]

Acquire(t) ==
  /\ thread[t].pc = "wait"
  /\ ~Held(thread[t].lock)
  /\ LET found == Recheck(t)
     IN thread' = [thread EXCEPT
          ![t].pc = IF found = NoCtx /\ thread[t].op # "load" THEN "build" ELSE OnResident(t),
          ![t].ctx = Adopted(t, found)]
  /\ UNCHANGED <<registry, context, disk, hydrate, session, job>>

\* The project is read from disk into a new context; a read that fails
\* leaves the block with nothing registered.
Build(t) ==
  /\ thread[t].pc = "build"
  /\ \/ \E c \in Ctx :
          /\ NextCtx(c)
          /\ Hydrated(c, At(t), disk[At(t)], FALSE)
          /\ thread' = [thread EXCEPT ![t].pc = "register", ![t].ctx = c]
     \/ /\ Goto(t, "leave")
        /\ UNCHANGED context
  /\ UNCHANGED <<registry, disk, hydrate, session, job>>

\* `register`, and `activate_context` of a switch, which writes nothing back.
Register(t) ==
  /\ thread[t].pc = "register"
  /\ registry' = [registry EXCEPT ![At(t)] = thread[t].ctx]
  /\ thread' = [thread EXCEPT ![t].pc = "probe",
                              ![t].detached = IF thread[t].op = "open" THEN {}
                                              ELSE {registry[At(t)]} \ {NoCtx}]
  /\ UNCHANGED <<context, disk, hydrate, session, job>>

\* Re-opening: a queued solve that started since refuses the replacement.
ReplaceAllowed(t) ==
  /\ thread[t].pc = "adopted"
  /\ thread[t].op = "load"
  /\ thread' = [thread EXCEPT ![t].pc = IF job[At(t)] = "running" THEN "leave" ELSE "replace",
                              ![t].ctx = IF job[At(t)] = "running" THEN NoCtx ELSE @]
  /\ UNCHANGED <<registry, context, disk, hydrate, session, job>>

\* `register(write_back=False)`: the displaced context is discarded on purpose.
Replace(t) ==
  /\ thread[t].pc = "replace"
  /\ registry' = [registry EXCEPT ![At(t)] = thread[t].ctx]
  /\ Goto(t, "probe")
  /\ UNCHANGED <<context, disk, hydrate, session, job>>

\* A switch to a resident project: `set_active` looks the key up again and
\* raises where it was evicted since.
SetActive(t) ==
  /\ thread[t].pc = "adopted"
  /\ thread[t].op = "open"
  /\ IF registry[At(t)] # NoCtx
     THEN thread' = [thread EXCEPT ![t].pc = "leave", ![t].ctx = registry[At(t)]]
     ELSE thread' = [thread EXCEPT ![t].pc = "leave", ![t].ctx = NoCtx]
  /\ UNCHANGED <<registry, context, disk, hydrate, session, job>>

-----------------------------------------------------------------------------
(* `_evict_if_over_cap`. *)

\* The protected projects, read before the registry lock is taken.
Protected(t) ==
  {At(t)} \cup {k \in Key : \E s \in Session : session[s] = k}
          \cup {k \in Key : job[k] # "none"}

Probe(t) ==
  /\ thread[t].pc = "probe"
  /\ thread[t].detached = {}
  /\ thread' = [thread EXCEPT ![t].pc = "evict", ![t].protected = Protected(t)]
  /\ UNCHANGED <<registry, context, disk, hydrate, session, job>>

\* How many contexts the registry holds above its cap.
Excess == IF Cardinality(Resident) > Cap THEN Cardinality(Resident) - Cap ELSE 0

Candidates(t) == Resident \ thread[t].protected

\* The victims leave the registry, as many as are over the cap and may go.
Evict(t) ==
  /\ thread[t].pc = "evict"
  /\ \E V \in SUBSET Candidates(t) :
       /\ Cardinality(V) <= Excess
       /\ Cardinality(V) = Excess \/ V = Candidates(t)
       /\ registry' = [k \in Key |-> IF k \in V THEN NoCtx ELSE registry[k]]
       /\ thread' = [thread EXCEPT ![t].pc = IF V = {} THEN "leave" ELSE "save",
                                   ![t].protected = {},
                                   ![t].detached = {registry[k] : k \in V}]
  /\ UNCHANGED <<context, disk, hydrate, session, job>>

\* `_save_evicted_ctx`, outside the registry lock; a refused save is logged.
SaveDetached(t) ==
  /\ thread[t].pc \in {"probe", "save"}
  /\ \E c \in thread[t].detached :
       /\ IF Savable(c) THEN Written(c) ELSE UNCHANGED disk
       /\ thread' = [thread EXCEPT ![t].detached = @ \ {c},
                                   ![t].pc = IF @ = "save" /\ thread[t].detached = {c}
                                             THEN "leave" ELSE @]
  /\ UNCHANGED <<registry, context, hydrate, session, job>>

-----------------------------------------------------------------------------
(* The end of the block, and what the caller does with its context. *)

\* Plausible bugs: every waiter drops the entry, or none does.
AnyWaiter(k) == TRUE
NoWaiter(k) == hydrate[k].waiters <= 0

\* The last waiter drops the lock's entry.
LastWaiter(k) == hydrate[k].waiters <= 1

\* A plausible bug: a path out of the block skips its end.
NotReleased(k) == UNCHANGED hydrate

Released(k) ==
  hydrate' = [hydrate EXCEPT ![k] = IF LastWaiter(k) THEN [lock |-> NoLock, waiters |-> 0]
                                    ELSE [hydrate[k] EXCEPT !.waiters = @ - 1]]

AfterBlock(t) ==
  IF thread[t].ctx = NoCtx \/ thread[t].op = "view" THEN "idle"
  ELSE IF thread[t].op = "solve" THEN "solving" ELSE "using"

\* The caller goes on with its context; a solve without one has failed.
Returns(t) ==
  /\ thread' = [thread EXCEPT ![t] =
       IF AfterBlock(t) = "idle" THEN Idle
       ELSE [@ EXCEPT !.pc = AfterBlock(t), !.lock = NoLock]]
  /\ job' = IF thread[t].op = "solve" /\ thread[t].ctx = NoCtx
            THEN [job EXCEPT ![At(t)] = "none"] ELSE job
  /\ UNCHANGED <<registry, context, disk, session>>

\* The fast path took no lock.
Leave(t) ==
  /\ thread[t].pc = "leave"
  /\ thread[t].lock = NoLock
  /\ Returns(t)
  /\ UNCHANGED hydrate

\* The slow path frees the key's lock first and stops being a waiter after.
Unlock(t) ==
  /\ thread[t].pc = "leave"
  /\ thread[t].lock # NoLock
  /\ Goto(t, "left")
  /\ UNCHANGED <<registry, context, disk, hydrate, session, job>>

Drop(t) ==
  /\ thread[t].pc = "left"
  /\ Released(At(t))
  /\ Returns(t)

\* The switch is persisted in the session's pointer once it succeeded.
Point(t, s) ==
  /\ thread[t].pc = "using"
  /\ thread[t].op \in {"open", "load"}
  /\ session' = [session EXCEPT ![s] = At(t)]
  /\ Ends(t)
  /\ UNCHANGED <<registry, context, disk, hydrate, job>>

\* A write of the session's route, under the context's own lock; refused
\* while a solve of the project runs (the solver gate).
EditNetwork(t) ==
  /\ thread[t].pc = "using"
  /\ thread[t].op = "route"
  /\ ~context[thread[t].ctx].solving
  /\ \E e \in Edit \ Edits :
       /\ \A d \in Edit \ Edits : e <= d
       /\ context' = [context EXCEPT ![thread[t].ctx].edits = @ \cup {e}]
  /\ Ends(t)
  /\ UNCHANGED <<registry, disk, hydrate, session, job>>

\* The save route, and a request that changes nothing.
Save(t) ==
  /\ thread[t].pc = "using"
  /\ thread[t].op = "route"
  /\ \/ Savable(thread[t].ctx) /\ Written(thread[t].ctx)
     \/ UNCHANGED disk
  /\ Ends(t)
  /\ UNCHANGED <<registry, context, hydrate, session, job>>

\* The solve takes the context's solver state, and gives it up at its end.
SolveStarts(t) ==
  /\ thread[t].pc = "solving"
  /\ ~context[thread[t].ctx].solving
  /\ context' = [context EXCEPT ![thread[t].ctx].solving = TRUE]
  /\ UNCHANGED <<registry, disk, hydrate, session, job, thread>>

\* The solved network is saved; a failed solve saves nothing.
SolveEnds(t) ==
  /\ thread[t].pc = "solving"
  /\ context[thread[t].ctx].solving
  /\ context' = [context EXCEPT ![thread[t].ctx].solving = FALSE]
  /\ Written(thread[t].ctx) \/ UNCHANGED disk
  /\ job' = [job EXCEPT ![At(t)] = "none"]
  /\ Ends(t)
  /\ UNCHANGED <<registry, hydrate, session>>

-----------------------------------------------------------------------------
HydrateOrAdopt(t) ==
  \/ Hit(t) \/ Miss(t) \/ Join(t) \/ Acquire(t) \/ Build(t) \/ Register(t) \/ ReplaceAllowed(t)
  \/ Replace(t) \/ SetActive(t) \/ Probe(t) \/ Evict(t) \/ SaveDetached(t)
  \/ Leave(t) \/ Unlock(t) \/ Drop(t)

Uses(t) ==
  \/ \E s \in Session : Point(t, s)
  \/ EditNetwork(t) \/ Save(t) \/ SolveStarts(t) \/ SolveEnds(t)

Starts(t) ==
  \/ \E s \in Session : Route(t, s)
  \/ \E k \in Key : Request(t, "view", k) \/ Request(t, "open", k) \/ Load(t, k) \/ Claim(t, k)

Next ==
  \/ \E t \in Thread : HydrateOrAdopt(t) \/ Uses(t) \/ Starts(t)
  \/ \E k \in Key : Enqueue(k)

Spec == Init /\ [][Next]_vars
=============================================================================
