--------------------------- MODULE ContextsProofs ---------------------------
(***************************************************************************)
(* Proofs about the context registry, for any number of threads, projects  *)
(* and sessions and any cap: the hydrate locks keep to their waiters, one  *)
(* thread at a time is inside a project's block, and a cold path displaces *)
(* no context.                                                             *)
(***************************************************************************)
EXTENDS ContextsProps, FiniteSetTheorems, FunctionTheorems, TLAPS

\* What a thread has at its place.
Place(t) ==
  /\ thread[t].pc # "idle" => thread[t].key \in Key
  /\ thread[t].pc \in {"idle", "lookup", "missed", "using", "solving"} => thread[t].lock = NoLock
  /\ thread[t].pc \in {"wait", "build", "register", "left"} => thread[t].lock # NoLock
  /\ thread[t].pc \in {"using", "solving", "register", "replace"} => thread[t].ctx \in Ctx
  /\ thread[t].pc = "register" => thread[t].ctx \in Built
  /\ thread[t].pc = "replace" => thread[t].op = "load"
  /\ thread[t].pc \in {"lookup", "missed", "wait", "adopted", "replace"} /\ thread[t].op = "load" =>
       thread[t].ctx \in Built /\ context[thread[t].ctx].reopened

Places == \A t \in Thread : Place(t)

\* Only built contexts are registered.
Registered == \A k \in Key : registry[k] # NoCtx => registry[k] \in Built

\* One lock object serves one project.
LocksApart ==
  \A t, u \in Thread :
    thread[t].lock # NoLock /\ thread[t].lock = thread[u].lock => thread[t].key = thread[u].key

\* A cold path that found nothing still finds nothing but a re-opened context.
StillCold ==
  \A t \in Thread : thread[t].pc \in {"build", "register"} =>
    registry[At(t)] = NoCtx \/ context[registry[At(t)]].reopened

Inv == TypeOK /\ Places /\ Registered /\ LocksApart /\ LockEntryInUse /\ OneBuilder /\ StillCold
-----------------------------------------------------------------------------
\* What one thread does.
Does(t) == HydrateOrAdopt(t) \/ Uses(t) \/ Starts(t)

\* Where the locks are not touched.
Elsewhere(t) ==
  \/ Hit(t) \/ Miss(t) \/ Acquire(t) \/ Build(t) \/ Register(t) \/ ReplaceAllowed(t)
  \/ Replace(t) \/ SetActive(t) \/ Probe(t) \/ Evict(t) \/ SaveDetached(t) \/ Unlock(t)

\* The threads in the slow path of project k.
Users(k) == {t \in Thread : InBlock(t) /\ At(t) = k}

\* The initial state is in the invariant.
LEMMA InitInv == Init => Inv
<1> SUFFICES ASSUME Init PROVE Inv
  OBVIOUS
<1> USE DEF Init, Idle, NoLock, NoCtx
<1>1. TypeOK
  <2>1. Cardinality(Thread) \in Nat
    BY FiniteAssumption, FS_CardinalityType
  <2>2. Idle \in Doing
    BY DEF Doing, Inside
  <2>3. [lock |-> NoLock, waiters |-> 0] \in Entry
    BY <2>1 DEF Entry
  <2>4. Unbuilt \in Network
    BY DEF Network, Unbuilt
  <2> QED BY <2>2, <2>3, <2>4 DEF TypeOK
<1>2. Places /\ Registered /\ LocksApart /\ StillCold /\ OneBuilder
  BY DEF Places, Place, Registered, LocksApart, StillCold, OneBuilder, InBlock
<1>3. LockEntryInUse
  <2>1. \A k \in Key : {t \in Thread : InBlock(t) /\ At(t) = k} = {}
    BY DEF InBlock
  <2> QED BY <2>1, FS_EmptySet DEF LockEntryInUse
<1> QED BY <1>1, <1>2, <1>3 DEF Inv

\* There are as many lock objects as threads, so one without a lock finds a
\* lock object nobody refers to.
LEMMA FreshLockExists ==
  ASSUME TypeOK, NEW t \in Thread, thread[t].lock = NoLock
  PROVE  FreshLock \in Lock /\ \A u \in Thread : thread[u].lock # FreshLock
<1> DEFINE S == Thread \ {t}
           f == [u \in S |-> thread[u].lock]
           L == {f[u] : u \in S}
<1>1. IsFiniteSet(S) /\ Cardinality(S) = Cardinality(Thread) - 1 /\ Cardinality(Thread) \in Nat
  BY FiniteAssumption, FS_RemoveElement, FS_CardinalityType
<1>2. f \in Surjection(S, L)
  <2> HIDE DEF S
  <2> QED BY Fun_IsSurj
<1>3. IsFiniteSet(L) /\ Cardinality(L) <= Cardinality(Thread) - 1
  <2> HIDE DEF S, L, f
  <2> QED BY <1>1, <1>2, FS_Surjection
<1>4. Cardinality(Lock) = Cardinality(Thread)
  BY <1>1, FS_Interval DEF Lock
<1>5. ~(Lock \subseteq L)
  <2> SUFFICES ASSUME Lock \subseteq L PROVE FALSE
    OBVIOUS
  <2>1. Cardinality(Lock) <= Cardinality(L)
    <3> HIDE DEF L
    <3> QED BY <1>3, FS_Subset
  <2>2. Cardinality(L) \in Nat
    <3> HIDE DEF L
    <3> QED BY <1>3, FS_CardinalityType
  <2> HIDE DEF L
  <2> QED BY <1>1, <1>3, <1>4, <2>1, <2>2
<1>6. PICK l \in Lock : l \notin L
  BY <1>5
<1>7. \A u \in Thread : thread[u].lock # l
  BY <1>6, <1>1 DEF Lock, NoLock
<1> QED BY <1>7 DEF FreshLock

\* A step of one thread leaves the others where they are.
LEMMA OthersStay ==
  ASSUME TypeOK, NEW t \in Thread, Does(t)
  PROVE  \A u \in Thread \ {t} : thread'[u] = thread[u]
<1> USE DEF TypeOK, Goto, Ends, Begins
<1>1. CASE Elsewhere(t)
  BY <1>1 DEF Elsewhere, Hit, Miss, Acquire, Build, Register, ReplaceAllowed, Replace, SetActive,
       Probe, Evict, SaveDetached, Unlock
<1>2. CASE Join(t)
  BY <1>2 DEF Join
<1>3. CASE Leave(t) \/ Drop(t)
  BY <1>3 DEF Leave, Drop, Returns
<1>4. CASE Uses(t)
  BY <1>4 DEF Uses, Point, EditNetwork, Save, SolveStarts, SolveEnds
<1>5. CASE Starts(t)
  BY <1>5 DEF Starts, Route, Request, Load, Claim
<1> QED BY <1>1, <1>2, <1>3, <1>4, <1>5 DEF Does, HydrateOrAdopt, Elsewhere

\* A caller that goes on with its context is out of the slow path.
LEMMA CallerReturns ==
  ASSUME TypeOK, NEW t \in Thread, Returns(t)
  PROVE  thread'[t].lock = NoLock /\ thread'[t].pc \in {"idle", "solving", "using"}
<1>1. thread \in [Thread -> Doing] /\ thread[t] \in Doing
  BY DEF TypeOK
<1>2. CASE AfterBlock(t) = "idle"
  <2>1. thread'[t] = Idle
    BY <1>1, <1>2 DEF Returns
  <2> QED BY <2>1 DEF Idle
<1>3. CASE AfterBlock(t) # "idle"
  <2>1. thread' = [thread EXCEPT ![t] = [@ EXCEPT !.pc = AfterBlock(t), !.lock = NoLock]]
    BY <1>3 DEF Returns
  <2>2. AfterBlock(t) \in {"solving", "using"}
    BY <1>3 DEF AfterBlock
  <2> QED BY <1>1, <2>1, <2>2 DEF Doing
<1> QED BY <1>2, <1>3

\* Only joining the waiters and the way out touch the locks.
LEMMA LocksStay ==
  ASSUME Inv, NEW t \in Thread, Elsewhere(t) \/ Uses(t) \/ Starts(t)
  PROVE  /\ hydrate' = hydrate
         /\ thread'[t].lock = thread[t].lock
         /\ thread[t].lock # NoLock => thread'[t].key = thread[t].key
<1> USE DEF Inv, TypeOK, Goto, Ends, Begins
<1>0. thread[t] \in Doing
  OBVIOUS
<1>1. CASE Elsewhere(t)
  <2> USE <1>0 DEF Doing
  <2>1. CASE Hit(t) \/ Miss(t) \/ Acquire(t) \/ Unlock(t)
    BY <2>1 DEF Hit, Miss, Acquire, Unlock
  <2>2. CASE Build(t)
    <3>1. \/ thread' = [thread EXCEPT ![t].pc = "leave"]
          \/ \E c \in Ctx : thread' = [thread EXCEPT ![t].pc = "register", ![t].ctx = c]
      BY <2>2 DEF Build
    <3> QED BY <2>2, <3>1 DEF Build
  <2>3. CASE Register(t) \/ ReplaceAllowed(t) \/ Replace(t)
    BY <2>3 DEF Register, ReplaceAllowed, Replace
  <2>4. CASE SetActive(t)
    BY <2>4 DEF SetActive
  <2>5. CASE Probe(t)
    BY <2>5 DEF Probe
  <2>6. CASE Evict(t)
    <3>1. PICK V \in SUBSET Candidates(t) :
            thread' = [thread EXCEPT ![t].pc = IF V = {} THEN "leave" ELSE "save",
                                     ![t].protected = {},
                                     ![t].detached = {registry[k] : k \in V}]
      BY <2>6 DEF Evict
    <3> QED BY <2>6, <3>1 DEF Evict
  <2>7. CASE SaveDetached(t)
    BY <2>7 DEF SaveDetached
  <2> QED BY <1>1, <2>1, <2>2, <2>3, <2>4, <2>5, <2>6, <2>7 DEF Elsewhere
<1>2. CASE Uses(t)
  BY <1>0, <1>2 DEF Uses, Point, EditNetwork, Save, SolveStarts, SolveEnds, Places, Place, Idle
<1>3. CASE Starts(t)
  <2>1. thread[t].lock = NoLock
    BY <1>3 DEF Starts, Route, Request, Load, Claim, Places, Place
  <2>2. CASE \E s \in Session : Route(t, s)
    BY <2>1, <2>2 DEF Route, Idle
  <2>3. CASE \E k \in Key : Request(t, "view", k) \/ Request(t, "open", k) \/ Claim(t, k)
    <3>1. PICK k \in Key, op \in {"view", "open", "solve"} : Begins(t, op, k)
      BY <2>3 DEF Request, Claim
    <3> QED BY <2>1, <2>3, <3>1 DEF Request, Claim, Idle
  <2>4. CASE \E k \in Key : Load(t, k)
    <3>1. PICK k \in Key, c \in Ctx :
            thread' = [thread EXCEPT ![t] = [Idle EXCEPT !.pc = "lookup", !.op = "load",
                                                         !.key = k, !.ctx = c]]
      BY <2>4 DEF Load
    <3> QED BY <2>1, <2>4, <3>1 DEF Load, Idle
  <2> QED BY <1>3, <2>2, <2>3, <2>4 DEF Starts
<1> QED BY <1>1, <1>2, <1>3

\* The locks' entries keep to their waiters.
LEMMA LocksKept ==
  ASSUME Inv, [Next]_vars
  PROVE  LocksApart' /\ LockEntryInUse' /\ hydrate' \in [Key -> Entry]
<1> USE DEF Inv, TypeOK
<1>1. \A k \in Key : IsFiniteSet(Users(k)) /\ Cardinality(Users(k)) \in Nat
  BY FiniteAssumption, FS_Subset, FS_CardinalityType DEF Users
<1>2. \A k \in Key : /\ hydrate[k].waiters = Cardinality(Users(k))
                     /\ hydrate[k].lock = NoLock <=> Users(k) = {}
                     /\ \A u \in Users(k) : thread[u].lock = hydrate[k].lock
  BY DEF LockEntryInUse, Users
<1>3. SUFFICES LocksApart' /\ hydrate' \in [Key -> Entry] /\
               \A k \in Key : /\ hydrate'[k].waiters = Cardinality(Users(k)')
                              /\ hydrate'[k].lock = NoLock <=> Users(k)' = {}
                              /\ \A u \in Users(k)' : thread'[u].lock = hydrate'[k].lock
  BY DEF LockEntryInUse, Users
<1> USE DEF Users, InBlock, At
<1>4. CASE /\ hydrate' = hydrate
           /\ \A u \in Thread : /\ thread'[u].lock = thread[u].lock
                                /\ thread[u].lock # NoLock => thread'[u].key = thread[u].key
  <2>1. \A k \in Key : Users(k)' = Users(k)
    BY <1>4
  <2>2. LocksApart'
    BY <1>4 DEF LocksApart
  <2>3. \A k \in Key : \A u \in Users(k) : thread'[u].lock = thread[u].lock
    BY <1>4
  <2> HIDE DEF Users
  <2> QED BY <1>2, <1>4, <2>1, <2>2, <2>3
<1>5. ASSUME NEW t \in Thread, Join(t)
      PROVE  /\ LocksApart' /\ hydrate' \in [Key -> Entry]
             /\ \A k \in Key : /\ hydrate'[k].waiters = Cardinality(Users(k)')
                               /\ hydrate'[k].lock = NoLock <=> Users(k)' = {}
                               /\ \A u \in Users(k)' : thread'[u].lock = hydrate'[k].lock
  <2>0. PICK k \in Key : k = At(t)
    BY <1>5 DEF Join, Places, Place
  <2> DEFINE l == IF hydrate[k].lock = NoLock THEN FreshLock ELSE hydrate[k].lock
  <2>1. k = thread[t].key /\ thread[t].lock = NoLock /\ thread[t] \in Doing
    BY <1>5, <2>0 DEF Join, Places, Place
  <2>2. FreshLock \in Lock /\ \A u \in Thread : thread[u].lock # FreshLock
    BY <2>1, FreshLockExists
  <2>3. l \in Lock /\ l # NoLock
    BY <2>1, <2>2 DEF Entry, Lock, NoLock
  <2>4. /\ hydrate' = [hydrate EXCEPT ![k] = [lock |-> l, waiters |-> @.waiters + 1]]
        /\ thread' = [thread EXCEPT ![t].pc = "wait", ![t].lock = l]
    BY <1>5, <2>0 DEF Join
  <2> HIDE DEF l
  <2>5. /\ thread'[t].lock = l /\ thread'[t].key = thread[t].key
        /\ \A u \in Thread \ {t} : thread'[u] = thread[u]
    BY <2>1, <2>4 DEF Doing
  <2>6. Users(k)' = Users(k) \cup {t} /\ t \notin Users(k)
    BY <2>1, <2>3, <2>5
  <2>7. \A j \in Key \ {k} : Users(j)' = Users(j)
    BY <2>1, <2>5
  <2>8. Cardinality(Users(k)') = Cardinality(Users(k)) + 1
    <3> HIDE DEF Users
    <3> QED BY <1>1, <2>1, <2>6, FS_AddElement
  <2>9. Cardinality(Users(k)') \in 0..Cardinality(Thread)
    <3>1. Users(k)' \in SUBSET Thread
      OBVIOUS
    <3> HIDE DEF Users
    <3> QED BY <3>1, FiniteAssumption, FS_Subset, FS_CardinalityType
  <2>10. \A u \in Users(k) : thread[u].lock = l
    BY <1>2, <2>1 DEF l
  <2>11. LocksApart'
    <3>1. \A u \in Thread : thread[u].lock = l => thread[u].key = k
      <4>1. CASE hydrate[k].lock = NoLock
        BY <2>2, <4>1 DEF l
      <4>2. CASE hydrate[k].lock # NoLock
        <5>1. PICK v \in Users(k) : thread[v].lock = l
          BY <1>2, <2>1, <4>2 DEF l
        <5> QED BY <2>3, <5>1 DEF LocksApart
      <4> QED BY <4>1, <4>2
    <3> QED BY <2>1, <2>5, <3>1 DEF LocksApart
  <2>12. hydrate'[k].lock = l /\ hydrate'[k].waiters = Cardinality(Users(k)')
    <3> HIDE DEF Users
    <3> QED BY <1>2, <2>1, <2>4, <2>8
  <2>13. \A j \in Key \ {k} : hydrate'[j] = hydrate[j]
    BY <2>1, <2>4
  <2>14. hydrate' \in [Key -> Entry]
    <3> HIDE DEF Users
    <3>1. [lock |-> l, waiters |-> hydrate[k].waiters + 1] \in Entry
      BY <1>2, <2>1, <2>3, <2>8, <2>9 DEF Entry
    <3> QED BY <2>1, <2>4, <3>1
  <2>15. \A u \in Users(k)' : thread'[u].lock = l
    BY <2>5, <2>6, <2>10
  <2>16. Users(k)' # {}
    BY <2>6
  <2> HIDE DEF Users
  <2>17. \A j \in Key \ {k} : \A u \in Users(j) : thread'[u] = thread[u]
    BY <2>1, <2>5 DEF Users
  <2>18. ASSUME NEW j \in Key \ {k}
         PROVE  /\ hydrate'[j].waiters = Cardinality(Users(j)')
                /\ hydrate'[j].lock = NoLock <=> Users(j)' = {}
                /\ \A u \in Users(j)' : thread'[u].lock = hydrate'[j].lock
    BY <1>2, <2>7, <2>13, <2>17
  <2> QED
    BY <2>3, <2>11, <2>12, <2>14, <2>15, <2>16, <2>18
<1>6. ASSUME NEW t \in Thread, Leave(t) \/ Drop(t)
      PROVE  /\ LocksApart' /\ hydrate' \in [Key -> Entry]
             /\ \A k \in Key : /\ hydrate'[k].waiters = Cardinality(Users(k)')
                               /\ hydrate'[k].lock = NoLock <=> Users(k)' = {}
                               /\ \A u \in Users(k)' : thread'[u].lock = hydrate'[k].lock
  <2>1. PICK k \in Key : k = thread[t].key
    BY <1>6 DEF Leave, Drop, Places, Place
  <2>2. /\ thread'[t].lock = NoLock
        /\ \A u \in Thread \ {t} : thread'[u] = thread[u]
    BY <1>6, CallerReturns, OthersStay DEF Leave, Drop, Does, HydrateOrAdopt
  <2>3. LocksApart'
    BY <2>2 DEF LocksApart
  <2>4. Users(k)' = Users(k) \ {t}
    BY <2>1, <2>2
  <2>5. \A j \in Key \ {k} : Users(j)' = Users(j)
    BY <2>1, <2>2
  <2>6. CASE thread[t].lock = NoLock
    <3>1. hydrate' = hydrate
      BY <1>6, <2>6 DEF Leave, Drop, Places, Place
    <3>2. Users(k)' = Users(k)
      BY <2>4, <2>6
    <3>3. \A j \in Key : \A u \in Users(j) : thread'[u] = thread[u]
      BY <2>2, <2>6
    <3>4. \A j \in Key : Users(j)' = Users(j)
      BY <2>5, <3>2
    <3> HIDE DEF Users
    <3> QED BY <1>2, <2>3, <3>1, <3>3, <3>4
  <2>7. CASE thread[t].lock # NoLock
    <3>1. t \in Users(k)
      BY <2>1, <2>7
    <3>2. Released(k)
      BY <1>6, <2>1, <2>7 DEF Leave, Drop
    <3>3. \A j \in Key \ {k} : hydrate'[j] = hydrate[j]
      BY <2>1, <3>2 DEF Released
    <3>4. \A j \in Key : \A u \in Users(j)' : thread'[u] = thread[u] /\ u \in Users(j)
      BY <2>2
    <3>5. Cardinality(Users(k)') = Cardinality(Users(k)) - 1 /\ Cardinality(Users(k)) >= 1
      <4> HIDE DEF Users
      <4>1. Cardinality(Users(k)') = Cardinality(Users(k)) - 1
        BY <1>1, <2>1, <2>4, <3>1, FS_RemoveElement
      <4>2. Cardinality(Users(k)) # 0
        BY <1>1, <2>1, <3>1, FS_EmptySet
      <4> QED BY <1>1, <2>1, <4>1, <4>2
    <3>6. Users(k)' = {} <=> Cardinality(Users(k)') = 0
      <4> HIDE DEF Users
      <4>1. IsFiniteSet(Users(k)')
        BY <1>1, <2>1, <2>4, FS_RemoveElement
      <4> QED BY <4>1, FS_EmptySet
    <3>7. hydrate'[k].waiters = Cardinality(Users(k)') /\ hydrate'[k] \in Entry
          /\ hydrate'[k].lock = IF Users(k)' = {} THEN NoLock ELSE hydrate[k].lock
      <4> HIDE DEF Users
      <4>1. /\ hydrate[k] \in Entry /\ hydrate[k].waiters = Cardinality(Users(k))
            /\ Cardinality(Thread) \in Nat
        BY <1>2, <2>1, FiniteAssumption, FS_CardinalityType
      <4>2. CASE LastWaiter(k)
        <5>1. hydrate'[k] = [lock |-> NoLock, waiters |-> 0]
          BY <2>1, <3>2, <4>2 DEF Released
        <5>2. Cardinality(Users(k)') = 0
          BY <1>1, <2>1, <3>5, <4>1, <4>2 DEF LastWaiter
        <5> QED BY <3>6, <4>1, <5>1, <5>2 DEF Entry
      <4>3. CASE ~LastWaiter(k)
        <5>1. hydrate'[k] = [lock |-> hydrate[k].lock, waiters |-> hydrate[k].waiters - 1]
          BY <2>1, <3>2, <4>1, <4>3 DEF Released, Entry
        <5>2. Cardinality(Users(k)') # 0 /\ Cardinality(Users(k)) \in 0..Cardinality(Thread)
          BY <1>1, <2>1, <3>5, <4>1, <4>3 DEF LastWaiter, Entry
        <5> QED BY <3>5, <3>6, <4>1, <5>1, <5>2 DEF Entry
      <4> QED BY <4>2, <4>3
    <3>8. hydrate' \in [Key -> Entry]
      <4> HIDE DEF Users
      <4>1. DOMAIN hydrate' = Key /\ hydrate' = [j \in Key |-> hydrate'[j]]
        BY <3>2 DEF Released
      <4> QED BY <3>3, <3>7, <4>1
    <3>9. hydrate[k].lock # NoLock
      BY <1>2, <2>1, <3>1
    <3> HIDE DEF Users
    <3>10. ASSUME NEW j \in Key \ {k}
           PROVE  /\ hydrate'[j].waiters = Cardinality(Users(j)')
                  /\ hydrate'[j].lock = NoLock <=> Users(j)' = {}
                  /\ \A u \in Users(j)' : thread'[u].lock = hydrate'[j].lock
      BY <1>2, <2>5, <3>3, <3>4
    <3>11. /\ hydrate'[k].waiters = Cardinality(Users(k)')
           /\ hydrate'[k].lock = NoLock <=> Users(k)' = {}
           /\ \A u \in Users(k)' : thread'[u].lock = hydrate'[k].lock
      BY <1>2, <3>4, <3>7, <3>9
    <3> QED BY <2>3, <3>8, <3>10, <3>11
  <2> QED BY <2>6, <2>7
<1>7. CASE UNCHANGED vars \/ \E k \in Key : Enqueue(k)
  BY <1>4, <1>7 DEF vars, Enqueue
<1>8. ASSUME NEW t \in Thread, Does(t)
      PROVE  /\ LocksApart' /\ hydrate' \in [Key -> Entry]
             /\ \A k \in Key : /\ hydrate'[k].waiters = Cardinality(Users(k)')
                               /\ hydrate'[k].lock = NoLock <=> Users(k)' = {}
                               /\ \A u \in Users(k)' : thread'[u].lock = hydrate'[k].lock
  <2>1. CASE Elsewhere(t) \/ Uses(t) \/ Starts(t)
    BY <1>4, <1>8, <2>1, LocksStay, OthersStay
  <2> QED BY <1>5, <1>6, <1>8, <2>1 DEF Does, HydrateOrAdopt, Elsewhere
<1> QED BY <1>7, <1>8 DEF Next, Does

\* One thread at a time is inside a project's block.
LEMMA OneBuilderKept ==
  ASSUME Inv, [Next]_vars
  PROVE  OneBuilder'
<1> USE DEF InBlock, At
<1>1. CASE UNCHANGED thread
  BY <1>1 DEF Inv, OneBuilder
<1>2. ASSUME NEW t \in Thread, Does(t)
      PROVE  OneBuilder'
  <2>1. \A u \in Thread \ {t} : thread'[u] = thread[u]
    BY <1>2, OthersStay DEF Inv
  <2>2. thread[t] \in Doing /\ Place(t)
    BY DEF Inv, TypeOK, Places
  <2>3. CASE ~(InBlock(t)' /\ thread'[t].pc \in Inside)
    BY <2>1, <2>3 DEF Inv, OneBuilder
  <2>4. CASE InBlock(t) /\ thread[t].pc \in Inside /\ thread'[t].key = thread[t].key
    BY <2>1, <2>4 DEF Inv, OneBuilder
  <2>5. CASE Acquire(t)
    <3>1. thread[t].pc = "wait" /\ ~Held(thread[t].lock) /\ thread[t].lock # NoLock
          /\ thread[t].key \in Key
      BY <2>2, <2>5 DEF Acquire, Place
    <3>2. \A u \in Thread : InBlock(u) /\ thread[u].pc \in Inside => thread[u].key # thread[t].key
      <4> SUFFICES ASSUME NEW u \in Thread, InBlock(u), thread[u].pc \in Inside,
                          thread[u].key = thread[t].key
                   PROVE  FALSE
        OBVIOUS
      <4>1. \A v \in {w \in Thread : InBlock(w) /\ At(w) = thread[t].key} :
              thread[v].lock = hydrate[thread[t].key].lock
        BY <3>1 DEF Inv, LockEntryInUse
      <4>2. thread[u].lock = thread[t].lock
        BY <3>1, <4>1
      <4> QED BY <3>1, <4>2 DEF Held
    <3>3. thread'[t].key = thread[t].key
      BY <2>2, <2>5 DEF Acquire, Doing, Inv, TypeOK
    <3> QED BY <2>1, <3>2, <3>3 DEF Inv, OneBuilder
  <2>6. CASE ~Acquire(t) /\ (Elsewhere(t) \/ Uses(t) \/ Starts(t))
    <3>1. /\ thread'[t].lock = thread[t].lock
          /\ thread[t].lock # NoLock => thread'[t].key = thread[t].key
      BY <2>6, LocksStay
    <3>2. InBlock(t) => thread[t].pc \in Inside
      BY <2>2, <2>6 DEF Place, Inside, Elsewhere, Hit, Miss, Build, Register, ReplaceAllowed, Replace,
           SetActive, Probe, Evict, SaveDetached, Unlock, Uses, Point, EditNetwork, Save,
           SolveStarts, SolveEnds, Starts, Route, Request, Load, Claim
    <3> QED BY <2>3, <2>4, <3>1, <3>2
  <2>7. CASE Join(t)
    <3>1. thread'[t].pc = "wait"
      BY <2>2, <2>7 DEF Join, Inv, TypeOK, Doing
    <3> QED BY <2>3, <3>1 DEF Inside
  <2>8. CASE Leave(t) \/ Drop(t)
    <3>1. thread'[t].lock = NoLock
      BY <2>8, CallerReturns DEF Leave, Drop, Inv
    <3> QED BY <2>3, <3>1
  <2> QED BY <1>2, <2>5, <2>6, <2>7, <2>8 DEF Does, HydrateOrAdopt, Elsewhere
<1>3. CASE \E k \in Key : Enqueue(k)
  BY <1>1, <1>3 DEF Enqueue
<1> QED BY <1>1, <1>2, <1>3 DEF Next, Does, vars

\* A built context stays built, and as it was built.
LEMMA ContextsStay ==
  ASSUME Inv, [Next]_vars
  PROVE  \A c \in Built : c \in Built' /\ context'[c].reopened = context[c].reopened
<1> USE DEF Inv, TypeOK, Built
<1>1. CASE UNCHANGED context
  BY <1>1
<1>2. ASSUME NEW c \in Ctx, NEW k \in Key, NEW found, NEW again, NextCtx(c), Hydrated(c, k, found, again)
      PROVE  \A d \in Built : d \in Built' /\ context'[d].reopened = context[d].reopened
  BY <1>2 DEF NextCtx, Hydrated
<1>3. ASSUME NEW t \in Thread, EditNetwork(t) \/ SolveStarts(t) \/ SolveEnds(t)
      PROVE  \A d \in Built : d \in Built' /\ context'[d].reopened = context[d].reopened
  <2>1. CASE EditNetwork(t)
    <3>1. PICK e \in Edit : context' = [context EXCEPT ![thread[t].ctx].edits = @ \cup {e}]
      BY <2>1 DEF EditNetwork
    <3> QED BY <3>1 DEF Network
  <2>2. CASE SolveStarts(t)
    BY <2>2 DEF SolveStarts, Network
  <2>3. CASE SolveEnds(t)
    BY <2>3 DEF SolveEnds, Network
  <2> QED BY <1>3, <2>1, <2>2, <2>3
<1>4. ASSUME NEW t \in Thread, Build(t) \/ \E k \in Key : Load(t, k)
      PROVE  \A d \in Built : d \in Built' /\ context'[d].reopened = context[d].reopened
  <2>1. CASE Build(t)
    BY <1>1, <1>2, <2>1 DEF Build, Places, Place, At
  <2>2. CASE \E k \in Key : Load(t, k)
    BY <1>2, <2>2 DEF Load
  <2> QED BY <1>4, <2>1, <2>2
<1>5. ASSUME NEW t \in Thread, Does(t)
      PROVE  \A d \in Built : d \in Built' /\ context'[d].reopened = context[d].reopened
  <2>1. CASE HydrateOrAdopt(t) /\ ~Build(t)
    BY <1>1, <2>1 DEF HydrateOrAdopt, Hit, Miss, Join, Acquire, Register, ReplaceAllowed,
         Replace, SetActive, Probe, Evict, SaveDetached, Leave, Unlock, Drop, Returns
  <2>2. CASE Uses(t)
    BY <1>1, <1>3, <2>2 DEF Uses, Point, Save
  <2>3. CASE Starts(t)
    BY <1>1, <1>4, <2>3 DEF Starts, Route, Request, Claim
  <2> QED BY <1>4, <1>5, <2>1, <2>2, <2>3 DEF Does
<1>6. CASE \E k \in Key : Enqueue(k)
  BY <1>1, <1>6 DEF Enqueue
<1> QED BY <1>1, <1>5, <1>6 DEF Next, Does, vars

\* The registered contexts are built, and a cold path's project stays cold.
LEMMA RegistryKept ==
  ASSUME Inv, [Next]_vars
  PROVE  Registered' /\ StillCold' /\ registry' \in [Key -> Ctx \cup {NoCtx}]
<1> USE DEF Registered, At
<1>1. \A c \in Built : c \in Built' /\ context'[c].reopened = context[c].reopened
  BY ContextsStay
<1>2. \A k \in Key : registry[k] # NoCtx =>
        registry[k] \in Built' /\ context'[registry[k]].reopened = context[registry[k]].reopened
  BY <1>1 DEF Inv
<1>3. ASSUME UNCHANGED registry
      PROVE  /\ Registered' /\ registry' \in [Key -> Ctx \cup {NoCtx}]
             /\ \A t \in Thread : thread[t].pc \in {"build", "register"} =>
                  registry'[At(t)] = NoCtx \/ context'[registry'[At(t)]].reopened
  BY <1>2, <1>3 DEF Inv, TypeOK, StillCold, Places, Place
<1>4. CASE UNCHANGED <<registry, thread>>
  BY <1>3, <1>4 DEF StillCold
<1>5. ASSUME NEW t \in Thread, Does(t)
      PROVE  Registered' /\ StillCold' /\ registry' \in [Key -> Ctx \cup {NoCtx}]
  <2>1. \A u \in Thread \ {t} : thread'[u] = thread[u]
    BY <1>5, OthersStay DEF Inv
  <2>2. thread[t] \in Doing
    BY DEF Inv, TypeOK
  <2>3. CASE UNCHANGED registry /\ thread'[t].pc \notin {"build", "register"}
    BY <1>3, <2>1, <2>3 DEF StillCold
  <2>4. CASE Acquire(t)
    <3>1. thread'[t].key = thread[t].key /\ UNCHANGED <<registry, context>>
      BY <2>2, <2>4 DEF Acquire, Inv, TypeOK, Doing
    <3>2. thread'[t].pc \in {"build", "register"} => registry[At(t)] = NoCtx
      BY <2>2, <2>4 DEF Acquire, Recheck, OnResident, Inv, TypeOK, Doing
    <3> QED BY <1>3, <2>1, <3>1, <3>2 DEF StillCold
  <2>5. CASE Build(t)
    <3>1. thread[t].pc = "build" /\ UNCHANGED registry
      BY <2>5 DEF Build
    <3>2. thread'[t].key = thread[t].key
      <4>1. \/ thread' = [thread EXCEPT ![t].pc = "leave"]
            \/ \E c \in Ctx : thread' = [thread EXCEPT ![t].pc = "register", ![t].ctx = c]
        BY <2>5 DEF Build, Goto
      <4> QED BY <2>2, <4>1 DEF Inv, TypeOK, Doing
    <3> QED BY <1>3, <2>1, <3>1, <3>2 DEF StillCold
  <2>6. CASE Register(t)
    <3>1. /\ thread[t].pc = "register" /\ thread[t].ctx \in Built /\ thread[t].key \in Key
          /\ InBlock(t) /\ thread[t].pc \in Inside /\ thread'[t].pc = "probe"
          /\ registry' = [registry EXCEPT ![At(t)] = thread[t].ctx]
      BY <2>2, <2>6 DEF Register, Inv, TypeOK, Places, Place, InBlock, Inside, Doing
    <3>2. Registered' /\ registry' \in [Key -> Ctx \cup {NoCtx}]
      BY <1>1, <1>2, <3>1 DEF Inv, TypeOK, Built
    <3>3. ASSUME NEW u \in Thread, thread'[u].pc \in {"build", "register"}
          PROVE  registry'[At(u)'] = NoCtx \/ context'[registry'[At(u)']].reopened
      <4>1. u # t /\ thread'[u] = thread[u]
        BY <2>1, <3>1, <3>3
      <4>2. thread[u].key \in Key /\ InBlock(u) /\ thread[u].pc \in Inside
        BY <3>3, <4>1 DEF Inv, Places, Place, InBlock, Inside
      <4>3. thread[u].key # thread[t].key
        BY <3>1, <4>1, <4>2 DEF Inv, OneBuilder
      <4> QED BY <1>2, <3>1, <3>3, <4>1, <4>2, <4>3 DEF Inv, StillCold, TypeOK
    <3> QED BY <3>2, <3>3 DEF StillCold
  <2>7. CASE Replace(t)
    <3>1. /\ thread[t].pc = "replace" /\ thread[t].ctx \in Built /\ thread[t].key \in Key
          /\ context[thread[t].ctx].reopened /\ thread'[t].pc = "probe"
          /\ registry' = [registry EXCEPT ![At(t)] = thread[t].ctx]
      BY <2>2, <2>7 DEF Replace, Goto, Inv, TypeOK, Places, Place, Doing
    <3>2. Registered' /\ registry' \in [Key -> Ctx \cup {NoCtx}]
      BY <1>1, <1>2, <3>1 DEF Inv, TypeOK, Built
    <3>3. ASSUME NEW u \in Thread, thread'[u].pc \in {"build", "register"}
          PROVE  registry'[At(u)'] = NoCtx \/ context'[registry'[At(u)']].reopened
      <4>1. u # t /\ thread'[u] = thread[u]
        BY <2>1, <3>1, <3>3
      <4>2. thread[u].key \in Key
        BY <3>3, <4>1 DEF Inv, Places, Place
      <4> QED BY <1>1, <1>2, <3>1, <3>3, <4>1, <4>2 DEF Inv, StillCold, TypeOK
    <3> QED BY <3>2, <3>3 DEF StillCold
  <2>8. CASE Evict(t)
    <3>1. PICK V \in SUBSET Candidates(t) :
            /\ registry' = [k \in Key |-> IF k \in V THEN NoCtx ELSE registry[k]]
            /\ thread' = [thread EXCEPT ![t].pc = IF V = {} THEN "leave" ELSE "save",
                                        ![t].protected = {},
                                        ![t].detached = {registry[k] : k \in V}]
      BY <2>8 DEF Evict
    <3>2. Registered' /\ registry' \in [Key -> Ctx \cup {NoCtx}]
      BY <1>2, <3>1 DEF Inv, TypeOK, NoCtx
    <3>3. thread'[t].pc \notin {"build", "register"}
      BY <2>2, <3>1 DEF Inv, TypeOK, Doing
    <3> QED BY <1>2, <2>1, <3>1, <3>2, <3>3 DEF Inv, StillCold, Places, Place
  <2>9. CASE UNCHANGED <<registry>> /\ ~Acquire(t) /\ ~Build(t) /\ ~Register(t)
             /\ ~Replace(t) /\ ~Evict(t)
    <3>1. thread'[t].pc \notin {"build", "register"}
      <4> USE <2>2 DEF Inv, TypeOK, Doing
      <4>1. CASE Hit(t) \/ Miss(t) \/ Join(t) \/ ReplaceAllowed(t) \/ SetActive(t) \/ Probe(t)
                 \/ SaveDetached(t) \/ Unlock(t)
        <5>1. CASE Hit(t) \/ ReplaceAllowed(t)
          BY <5>1 DEF Hit, ReplaceAllowed, OnResident
        <5>2. CASE Miss(t) \/ Join(t) \/ Unlock(t)
          BY <5>2 DEF Miss, Join, Unlock, Goto
        <5>3. CASE SetActive(t)
          BY <5>3 DEF SetActive
        <5>4. CASE Probe(t)
          BY <5>4 DEF Probe
        <5>5. CASE SaveDetached(t)
          <6>1. PICK c \in thread[t].detached :
                  thread' = [thread EXCEPT ![t].detached = @ \ {c},
                                           ![t].pc = IF @ = "save" /\ thread[t].detached = {c}
                                                     THEN "leave" ELSE @]
            BY <5>5 DEF SaveDetached
          <6>2. thread[t].pc \in {"probe", "save"}
            BY <5>5 DEF SaveDetached
          <6> QED BY <6>1, <6>2
        <5> QED BY <4>1, <5>1, <5>2, <5>3, <5>4, <5>5
      <4>2. CASE Leave(t) \/ Drop(t)
        BY <4>2, CallerReturns DEF Leave, Drop, Inv
      <4>3. CASE Uses(t)
        BY <4>3 DEF Uses, Point, EditNetwork, Save, SolveStarts, SolveEnds, Ends, Idle
      <4>4. CASE Starts(t)
        <5>1. CASE \E k \in Key : Load(t, k)
          <6>1. PICK k \in Key, c \in Ctx :
                  thread' = [thread EXCEPT ![t] = [Idle EXCEPT !.pc = "lookup", !.op = "load",
                                                               !.key = k, !.ctx = c]]
            BY <5>1 DEF Load
          <6> QED BY <6>1 DEF Idle
        <5>2. CASE ~\E k \in Key : Load(t, k)
          <6>1. PICK op \in {"route", "view", "open", "solve"}, k \in Key \cup {NoKey} : Begins(t, op, k)
            BY <4>4, <5>2 DEF Starts, Route, Request, Claim
          <6> QED BY <6>1 DEF Begins, Idle
        <5> QED BY <5>1, <5>2
      <4> QED BY <1>5, <2>9, <4>1, <4>2, <4>3, <4>4 DEF Does, HydrateOrAdopt
    <3> QED BY <2>3, <2>9, <3>1
  <2>10. UNCHANGED registry \/ Register(t) \/ Replace(t) \/ Evict(t)
    BY <1>5 DEF Does, HydrateOrAdopt, Hit, Miss, Join, Acquire, Build, ReplaceAllowed, SetActive,
         Probe, SaveDetached, Leave, Unlock, Drop, Returns, Uses, Point, EditNetwork, Save, SolveStarts, SolveEnds,
         Starts, Route, Request, Load, Claim
  <2> QED BY <2>4, <2>5, <2>6, <2>7, <2>8, <2>9, <2>10
<1>6. CASE \E k \in Key : Enqueue(k)
  BY <1>4, <1>6 DEF Enqueue
<1> QED BY <1>4, <1>5, <1>6 DEF Next, Does, vars

\* Each step takes its thread to a place it may be at.
LEMMA PlaceKept ==
  ASSUME Inv, NEW t \in Thread, Does(t)
  PROVE  thread' \in [Thread -> Doing] /\ Place(t)'
<1>1. thread \in [Thread -> Doing] /\ thread[t] \in Doing /\ Place(t)
  BY DEF Inv, TypeOK, Places
<1>2. \A c \in Built : c \in Built' /\ context'[c].reopened = context[c].reopened
  BY ContextsStay DEF Next, Does
<1>3. registry \in [Key -> Ctx \cup {NoCtx}]
  BY DEF Inv, TypeOK
<1> USE <1>1, <1>2, <1>3 DEF Doing, Inside, Place, NoLock, NoCtx
<1>4. CASE Hit(t)
  BY <1>4 DEF Hit, OnResident, Adopted, At, Built
<1>5. CASE Join(t)
  <2>1. FreshLock \in Lock
    BY <1>5, FreshLockExists DEF Join, Inv
  <2>2. At(t) \in Key /\ hydrate[At(t)].lock \in Lock \cup {NoLock}
    BY <1>5 DEF Join, Inv, TypeOK, Entry, At
  <2>3. PICK l \in Lock : thread' = [thread EXCEPT ![t].pc = "wait", ![t].lock = l]
    BY <1>5, <2>1, <2>2 DEF Join
  <2>4. context' = context /\ l # 0
    BY <1>5 DEF Join, Lock
  <2> QED BY <1>5, <2>3, <2>4 DEF Join
<1>6. CASE Acquire(t)
  BY <1>6 DEF Acquire, Recheck, OnResident, Adopted, At, Built
<1>7. CASE Build(t)
  <2>1. CASE Goto(t, "leave") /\ UNCHANGED context
    BY <1>7, <2>1 DEF Build, Goto
  <2>2. CASE ~(Goto(t, "leave") /\ UNCHANGED context)
    <3>1. PICK c \in Ctx : /\ NextCtx(c) /\ Hydrated(c, At(t), disk[At(t)], FALSE)
                           /\ thread' = [thread EXCEPT ![t].pc = "register", ![t].ctx = c]
      BY <1>7, <2>2 DEF Build
    <3>2. thread[t].pc = "build" /\ At(t) \in Key
      BY <1>7 DEF Build, At
    <3>3. c \in Built'
      BY <3>1, <3>2, NoKeyAssumption DEF Hydrated, Built, Inv, TypeOK
    <3> QED BY <3>1, <3>2, <3>3
  <2> QED BY <2>1, <2>2
<1>8. CASE Register(t)
  <2>1. {registry[At(t)]} \ {NoCtx} \in SUBSET Ctx
    BY <1>8 DEF Register, At
  <2> QED BY <1>8, <2>1 DEF Register
<1>9. CASE ReplaceAllowed(t)
  BY <1>9 DEF ReplaceAllowed, Built
<1>10. CASE Replace(t)
  BY <1>10 DEF Replace, Goto
<1>11. CASE SetActive(t)
  BY <1>11 DEF SetActive, At
<1>12. CASE Probe(t)
  <2>1. Protected(t) \in SUBSET Key
    BY <1>12 DEF Probe, Protected, At
  <2> QED BY <1>12, <2>1 DEF Probe
<1>13. CASE Evict(t)
  <2>1. PICK V \in SUBSET Candidates(t) :
          thread' = [thread EXCEPT ![t].pc = IF V = {} THEN "leave" ELSE "save",
                                   ![t].protected = {},
                                   ![t].detached = {registry[k] : k \in V}]
    BY <1>13 DEF Evict
  <2>2. {registry[k] : k \in V} \in SUBSET Ctx
    BY DEF Candidates, Resident
  <2>3. thread[t].pc = "evict"
    BY <1>13 DEF Evict
  <2> QED BY <2>1, <2>2, <2>3
<1>14. CASE SaveDetached(t)
  <2>1. PICK c \in thread[t].detached :
          thread' = [thread EXCEPT ![t].detached = @ \ {c},
                                   ![t].pc = IF @ = "save" /\ thread[t].detached = {c}
                                             THEN "leave" ELSE @]
    BY <1>14 DEF SaveDetached
  <2>2. thread[t].pc \in {"probe", "save"}
    BY <1>14 DEF SaveDetached
  <2> QED BY <2>1, <2>2
<1>15. CASE Leave(t) \/ Drop(t)
  <2>1. CASE thread' = [thread EXCEPT ![t] = Idle]
    BY <2>1 DEF Idle
  <2>2. CASE thread' # [thread EXCEPT ![t] = Idle]
    <3>1. /\ AfterBlock(t) # "idle"
          /\ thread' = [thread EXCEPT ![t] = [@ EXCEPT !.pc = AfterBlock(t), !.lock = NoLock]]
      BY <1>15, <2>2 DEF Leave, Drop, Returns
    <3>2. AfterBlock(t) \in {"solving", "using"} /\ thread[t].ctx \in Ctx /\ thread[t].key \in Key
      <4>1. thread[t].ctx = NoCtx => AfterBlock(t) = "idle"
        BY DEF AfterBlock
      <4>2. AfterBlock(t) \in {"idle", "solving", "using"}
        BY DEF AfterBlock
      <4> QED BY <1>15, <3>1, <4>1, <4>2 DEF Leave, Drop
    <3> QED BY <3>1, <3>2
  <2> QED BY <2>1, <2>2
<1>18. CASE Miss(t) \/ Unlock(t)
  BY <1>18 DEF Miss, Unlock, Goto
<1>16. CASE Uses(t)
  <2>1. CASE thread' = [thread EXCEPT ![t] = Idle]
    BY <2>1 DEF Idle
  <2>2. CASE UNCHANGED thread
    BY <1>16, <2>2 DEF Uses, Point, EditNetwork, Save, SolveStarts, SolveEnds
  <2> QED BY <1>16, <2>1, <2>2 DEF Uses, Point, EditNetwork, Save, SolveStarts, SolveEnds, Ends
<1>17. CASE Starts(t)
  <2>1. CASE \E k \in Key : Load(t, k)
    <3>1. PICK k \in Key, c \in Ctx :
            /\ NextCtx(c) /\ Hydrated(c, k, disk'[k], TRUE)
            /\ thread' = [thread EXCEPT ![t] = [Idle EXCEPT !.pc = "lookup", !.op = "load",
                                                            !.key = k, !.ctx = c]]
      BY <2>1 DEF Load
    <3>2. c \in Built' /\ context'[c].reopened
      BY <3>1, NoKeyAssumption DEF Hydrated, Built, Inv, TypeOK
    <3> QED BY <3>1, <3>2 DEF Idle
  <2>2. CASE ~\E k \in Key : Load(t, k)
    <3>1. PICK op \in {"route", "view", "open", "solve"}, k \in Key : Begins(t, op, k)
      BY <1>17, <2>2 DEF Starts, Route, Request, Claim, Inv, TypeOK
    <3> QED BY <3>1 DEF Begins, Idle
  <2> QED BY <2>1, <2>2
<1> QED
  BY <1>4, <1>5, <1>6, <1>7, <1>8, <1>9, <1>10, <1>11, <1>12, <1>13, <1>14, <1>15, <1>16, <1>17,
     <1>18
  DEF Does, HydrateOrAdopt

\* The variables stay in their types.
LEMMA StepTyped ==
  ASSUME Inv, [Next]_vars
  PROVE  TypeOK'
<1>1. hydrate' \in [Key -> Entry] /\ registry' \in [Key -> Ctx \cup {NoCtx}]
  BY LocksKept, RegistryKept
<1>2. /\ context \in [Ctx -> Network] /\ disk \in [Key -> SUBSET Edit]
      /\ session \in [Session -> Key \cup {NoKey}] /\ job \in [Key -> {"none", "queued", "running"}]
      /\ thread \in [Thread -> Doing]
  BY DEF Inv, TypeOK
<1>3. \A c \in Ctx : context[c].edits \in SUBSET Edit
  BY <1>2 DEF Network
<1>4. ASSUME NEW c \in Ctx PROVE [disk EXCEPT ![context[c].key] = context[c].edits] \in [Key -> SUBSET Edit]
  BY <1>2, <1>3
<1>5. ASSUME NEW c \in Ctx, NEW k \in Key, NEW found \in SUBSET Edit, NEW again \in BOOLEAN,
             Hydrated(c, k, found, again)
      PROVE  context' \in [Ctx -> Network]
  <2>1. [key |-> k, edits |-> found, solving |-> FALSE, reopened |-> again] \in Network
    BY <1>2 DEF Network
  <2> QED BY <1>2, <1>5, <2>1 DEF Hydrated
<1>6. ASSUME NEW t \in Thread, Does(t)
      PROVE  TypeOK'
  <2>1. thread' \in [Thread -> Doing] /\ thread[t] \in Doing /\ Place(t)
    BY <1>2, <1>6, PlaceKept DEF Inv, Places
  <2> SUFFICES /\ context' \in [Ctx -> Network] /\ disk' \in [Key -> SUBSET Edit]
               /\ session' \in [Session -> Key \cup {NoKey}]
               /\ job' \in [Key -> {"none", "queued", "running"}]
    BY <1>1, <2>1 DEF TypeOK
  <2>2. CASE Hit(t) \/ Miss(t) \/ Join(t) \/ Acquire(t) \/ Register(t) \/ ReplaceAllowed(t)
             \/ Replace(t) \/ SetActive(t) \/ Probe(t) \/ Evict(t) \/ Unlock(t)
    BY <1>2, <2>2 DEF Hit, Miss, Join, Acquire, Register, ReplaceAllowed, Replace, SetActive, Probe,
         Evict, Unlock
  <2>3. CASE Build(t)
    <3>1. thread[t].key \in Key
      BY <2>1, <2>3 DEF Build, Place
    <3> QED BY <1>2, <1>5, <2>3, <3>1 DEF Build, At
  <2>4. CASE SaveDetached(t)
    <3>1. thread[t].detached \in SUBSET Ctx
      BY <2>1 DEF Doing
    <3> QED BY <1>2, <1>4, <2>4, <3>1 DEF SaveDetached, Written
  <2>5. CASE Leave(t) \/ Drop(t)
    BY <1>2, <2>1, <2>5 DEF Leave, Drop, Returns, At, Place
  <2>6. CASE EditNetwork(t)
    <3>1. PICK e \in Edit : context' = [context EXCEPT ![thread[t].ctx].edits = @ \cup {e}]
      BY <2>6 DEF EditNetwork
    <3>2. [context[thread[t].ctx] EXCEPT !.edits = @ \cup {e}] \in Network \/ thread[t].ctx \notin Ctx
      BY <1>2 DEF Network
    <3> QED BY <1>2, <2>6, <3>1, <3>2 DEF EditNetwork
  <2>7. CASE SolveStarts(t) \/ SolveEnds(t)
    <3>1. thread[t].ctx \in Ctx
      BY <2>1, <2>7 DEF SolveStarts, SolveEnds, Place
    <3>2. \A b \in BOOLEAN : [context[thread[t].ctx] EXCEPT !.solving = b] \in Network
      BY <1>2, <3>1 DEF Network
    <3> QED BY <1>2, <1>4, <2>7, <3>1, <3>2 DEF SolveStarts, SolveEnds, Written
  <2>8. CASE (\E s \in Session : Point(t, s)) \/ Save(t)
    <3>1. thread[t].key \in Key /\ thread[t].ctx \in Ctx
      BY <2>1, <2>8 DEF Point, Save, Place
    <3>2. CASE \E s \in Session : Point(t, s)
      BY <1>2, <3>1, <3>2 DEF Point, At
    <3>3. CASE Save(t)
      BY <1>2, <1>4, <3>1, <3>3 DEF Save, Written
    <3> QED BY <2>8, <3>2, <3>3
  <2>9. CASE Starts(t)
    <3>1. CASE \E k \in Key : Load(t, k)
      <4>1. PICK k \in Key : Load(t, k)
        BY <3>1
      <4>2. disk' \in [Key -> SUBSET Edit]
        BY <1>2, <1>4, <4>1 DEF Load, Written, Inv, TypeOK
      <4> QED BY <1>2, <1>5, <4>1, <4>2 DEF Load
    <3>2. CASE ~\E k \in Key : Load(t, k)
      BY <1>2, <2>9, <3>2 DEF Starts, Route, Request, Claim
    <3> QED BY <3>1, <3>2
  <2> QED BY <1>6, <2>2, <2>3, <2>4, <2>5, <2>6, <2>7, <2>8, <2>9 DEF Does, HydrateOrAdopt, Uses
<1>7. CASE (\E k \in Key : Enqueue(k)) \/ UNCHANGED vars
  BY <1>1, <1>2, <1>7 DEF Enqueue, vars, TypeOK
<1> QED BY <1>6, <1>7 DEF Next, Does

-----------------------------------------------------------------------------
\* Every reachable state is in the invariant.
THEOREM Invariance == Spec => []Inv
<1>1. Inv /\ [Next]_vars => Inv'
  <2> SUFFICES ASSUME Inv, [Next]_vars PROVE Inv'
    OBVIOUS
  <2>1. Places'
    <3>1. \A c \in Built : c \in Built' /\ context'[c].reopened = context[c].reopened
      BY ContextsStay
    <3>2. ASSUME NEW u \in Thread, thread'[u] = thread[u]
          PROVE  Place(u)'
      BY <3>1, <3>2 DEF Inv, Places, Place
    <3>3. ASSUME NEW t \in Thread, Does(t)
          PROVE  Places'
      BY <3>2, <3>3, PlaceKept, OthersStay DEF Inv, Places
    <3>4. CASE (\E k \in Key : Enqueue(k)) \/ UNCHANGED vars
      BY <3>2, <3>4 DEF Enqueue, vars, Places
    <3> QED BY <3>3, <3>4 DEF Next, Does
  <2> QED BY <2>1, StepTyped, LocksKept, RegistryKept, OneBuilderKept DEF Inv
<1> QED BY InitInv, <1>1, PTL DEF Spec

\* The variables stay in their types.
THEOREM TypeCorrect == Spec => []TypeOK
<1>1. Inv => TypeOK
  BY DEF Inv
<1> QED BY Invariance, <1>1, PTL

\* No two cold paths are inside one project's block of `hydrate_or_adopt`.
THEOREM OneBuilderCorrect == Spec => []OneBuilder
<1>1. Inv => OneBuilder
  BY DEF Inv
<1> QED BY Invariance, <1>1, PTL

\* A hydrate lock lives exactly as long as its waiters.
THEOREM LockEntryCorrect == Spec => []LockEntryInUse
<1>1. Inv => LockEntryInUse
  BY DEF Inv
<1> QED BY Invariance, <1>1, PTL

\* A cold path displaces no context but a re-opened one.
THEOREM NeverForkedCorrect == Spec => NeverForked
<1>1. ASSUME Inv, NEW t \in Thread, Register(t)
      PROVE  registry[At(t)] = NoCtx \/ context[registry[At(t)]].reopened
  BY <1>1 DEF Register, Inv, StillCold
<1>2. Inv => [\A t \in Thread : Register(t) => registry[At(t)] = NoCtx
                                   \/ context[registry[At(t)]].reopened]_vars
  BY <1>1
<1> QED BY Invariance, <1>2, PTL DEF Spec, NeverForked
=============================================================================
