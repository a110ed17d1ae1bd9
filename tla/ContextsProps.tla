---------------------------- MODULE ContextsProps ----------------------------
(***************************************************************************)
(* What the context registry must do.                                      *)
(***************************************************************************)
EXTENDS Contexts

InBlock(t) == thread[t].lock # NoLock

\* Two cold paths never build a context of one project at once, whichever
\* waiter dropped or created the lock they met (`hydrate_or_adopt`).
OneBuilder ==
  \A t, u \in Thread :
    /\ InBlock(t) /\ thread[t].pc \in Inside
    /\ InBlock(u) /\ thread[u].pc \in Inside
    /\ At(t) = At(u)
    => t = u

\* A project's lock entry lives exactly as long as a thread is in the slow
\* path, and every such thread refers to that very lock: no entry is leaked
\* and none is replaced under a thread that still waits on the old one.
LockEntryInUse ==
  \A k \in Key :
    LET users == {t \in Thread : InBlock(t) /\ At(t) = k}
    IN /\ hydrate[k].waiters = Cardinality(users)
       /\ hydrate[k].lock = NoLock <=> users = {}
       /\ \A t \in users : thread[t].lock = hydrate[k].lock

\* One context per project: a path that builds a context on a miss never
\* displaces one another path published meanwhile; only a re-opening, which
\* replaces the resident context on purpose, may have come between.
NeverForked ==
  [][\A t \in Thread :
       Register(t) => registry[At(t)] = NoCtx \/ context[registry[At(t)]].reopened]_vars

\* A context leaves the registry over the cap only without a solve of its
\* own (`_evict_if_over_cap`: never one "carrying a queued/running solve").
\* The code reads the jobs before it takes the registry lock, and breaks it.
EvictionSparesSolves ==
  \A t \in Thread : thread[t].pc = "save" =>
    \A c \in thread[t].detached : ~context[c].solving
=============================================================================
