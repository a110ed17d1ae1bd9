-------------------------- MODULE SendLedgerProofs --------------------------
(***************************************************************************)
(* Proofs about the send ledger, for any number of processes and sends and *)
(* any cap: every bill is counted, the count stays within the cap, a       *)
(* settled row is final, and the ledger implements SpendCap.               *)
(***************************************************************************)
EXTENDS SendLedgerProps, FiniteSetTheorems, TLAPS

\* A process's round works on holds the process itself took, and sends on
\* none whose request is out or was billed.
OwnHold(i, k) == task.hold[k].st # "none" /\ task.hold[k].boot = i

Rounds ==
  \A i \in Instance :
    /\ flight[i].pc \in {"admitted", "sent"} =>
         flight[i].key \in Key /\ OwnHold(i, flight[i].key)
    /\ flight[i].pc = "admitted" => wire[flight[i].key].st = "unsent"
    /\ \A k \in flight[i].kept :
         /\ OwnHold(i, k)
         /\ wire[k].st = "unsent" \/ (flight[i].pc = "sent" /\ flight[i].key = k)
    /\ tick[i] \in {"recover", "step"} => flight[i].pc = "none"

\* A key without a row was never sent; a send out at the provider is bounded
\* by a row at least as large.
Wires ==
  \A k \in Key :
    /\ task.hold[k].st = "none" =>
         task.hold[k].amount = 0 /\ wire[k].st = "unsent" /\ wire[k].bill = 0
    /\ wire[k].st = "sent" => wire[k].bound <= task.hold[k].amount
    /\ wire[k].st # "billed" => wire[k].bill = 0

Inv == TypeOK /\ Rounds /\ Wires /\ EveryBillCounts

-----------------------------------------------------------------------------
(* Counting units: a count of the pairs below each key's amount, which adds *)
(* the amounts up.                                                          *)

Units(a) == {u \in Key \X (1..Cap) : u[2] <= a[u[1]]}

\* The amounts of the rows and of the bills.
Amount == [k \in Key |-> task.hold[k].amount]
Bill == [k \in Key |-> wire[k].bill]

\* The ledger's two sums are the counts of the units its rows and bills hold.
LEMMA SpentIsUnits == Spent = Cardinality(Units(Amount)) /\ Billed = Cardinality(Units(Bill))
<1>1. CountedUnits = Units(Amount)
  BY DEF CountedUnits, Units, Amount
<1>2. BilledUnits = Units(Bill)
  BY DEF BilledUnits, Units, Bill
<1> QED BY <1>1, <1>2 DEF Spent, Billed

\* There are finitely many units, whatever the amounts.
LEMMA UnitsFinite ==
  ASSUME NEW a
  PROVE  IsFiniteSet(Units(a)) /\ Cardinality(Units(a)) \in Nat
<1>1. IsFiniteSet(1..Cap)
  BY FS_Interval, CapAssumption
<1>2. IsFiniteSet(Key \X (1..Cap))
  BY <1>1, KeyAssumption, FS_Product
<1>3. Units(a) \in SUBSET (Key \X (1..Cap))
  BY DEF Units
<1> QED BY <1>2, <1>3, FS_Subset, FS_CardinalityType

\* No smaller amount counts for more.
LEMMA UnitsMonotone ==
  ASSUME NEW a \in [Key -> Nat], NEW b \in [Key -> Nat], \A k \in Key : a[k] <= b[k]
  PROVE  Cardinality(Units(a)) <= Cardinality(Units(b))
<1>1. ASSUME NEW u \in Units(a) PROVE u \in Units(b)
  <2>1. u \in Key \X (1..Cap) /\ u[1] \in Key /\ u[2] \in 1..Cap /\ u[2] <= a[u[1]]
    BY DEF Units
  <2> QED BY <2>1, CapAssumption DEF Units
<1> QED BY <1>1, UnitsFinite, FS_Subset

\* Raising one amount from zero to h counts h more.
LEMMA UnitsAdd ==
  ASSUME NEW a \in [Key -> Nat], NEW k \in Key, a[k] = 0, NEW h \in 0..Cap
  PROVE  Cardinality(Units([a EXCEPT ![k] = h])) = Cardinality(Units(a)) + h
<1> DEFINE B == [a EXCEPT ![k] = h]
           D == {k} \X (1..h)
<1>1. Units(B) = Units(a) \cup D
  <2>1. ASSUME NEW u \in Key \X (1..Cap)
        PROVE  u \in Units(B) <=> u \in Units(a) \/ u \in D
    <3>1. u[1] \in Key /\ u[2] \in 1..Cap /\ u = <<u[1], u[2]>>
      OBVIOUS
    <3>2. CASE u[1] = k
      BY <3>1, <3>2, CapAssumption DEF Units
    <3>3. CASE u[1] # k
      BY <3>1, <3>3, CapAssumption DEF Units
    <3> QED BY <3>2, <3>3
  <2>2. D \subseteq Key \X (1..Cap)
    BY CapAssumption
  <2>3. Units(B) \subseteq Key \X (1..Cap) /\ Units(a) \subseteq Key \X (1..Cap)
    BY DEF Units
  <2> QED BY <2>1, <2>2, <2>3
<1>2. Units(a) \cap D = {}
  BY CapAssumption DEF Units
<1>3. IsFiniteSet(D) /\ Cardinality(D) = h
  <2>1. IsFiniteSet(1..h) /\ Cardinality(1..h) = h
    <3>1. h \in Int /\ h \in Nat /\ 1 \in Int
      BY CapAssumption
    <3>2. IsFiniteSet(1..h) /\ Cardinality(1..h) = IF 1 > h THEN 0 ELSE h - 1 + 1
      BY <3>1, FS_Interval
    <3> QED BY <3>1, <3>2
  <2>2. IsFiniteSet({k}) /\ Cardinality({k}) = 1
    BY FS_Singleton
  <2>3. IsFiniteSet(D) /\ Cardinality(D) = Cardinality({k}) * Cardinality(1..h)
    BY <2>1, <2>2, FS_Product
  <2> QED BY <2>1, <2>2, <2>3, CapAssumption
<1>4. Cardinality(Units(a) \cup D) = Cardinality(Units(a)) + Cardinality(D) - Cardinality({})
  BY <1>2, <1>3, UnitsFinite, FS_Union
<1>5. Cardinality({}) = 0 /\ Cardinality(Units(a)) \in Nat /\ h \in Nat
  BY FS_EmptySet, UnitsFinite, CapAssumption
<1>6. Cardinality(Units(B)) = Cardinality(Units(a)) + h
  <2> HIDE DEF B, D
  <2> QED BY <1>1, <1>3, <1>4, <1>5
<1> QED BY <1>6

\* The count of a well-typed file is a number.
LEMMA SpentTyped == Spent \in Nat /\ Billed \in Nat
  BY SpentIsUnits, UnitsFinite

-----------------------------------------------------------------------------
\* Settling a set of open holds at their bound keeps the rows' type.
LEMMA AtBoundTyped ==
  ASSUME TypeOK, NEW S
  PROVE  AtBound(S) \in [Key -> Row]
<1>1. ASSUME NEW k \in Key
      PROVE  /\ task.hold[k] \in Row
             /\ [task.hold[k] EXCEPT !.st = "charged"]
                  \in Row
  BY DEF TypeOK, RunFile, Row
<1> QED BY <1>1 DEF AtBound

\* The types of the parts of the file.
LEMMA TaskTyped ==
  ASSUME TypeOK
  PROVE  /\ task.status \in {"running", "needs_user", "paused"}
         /\ task.waiting \in BOOLEAN
         /\ task.owner \in Instance \cup {NoOne}
         /\ task.live \in BOOLEAN
         /\ task.restarts \in 0..MaxRestarts
         /\ task.hold \in [Key -> Row]
  BY DEF TypeOK, RunFile

\* A reconciled file is well typed.
LEMMA ReconciledTyped ==
  ASSUME TypeOK, NEW i \in Instance
  PROVE  /\ Reconciled(i) \in RunFile
         /\ Reconciled(i).hold = task.hold \/ Reconciled(i).hold = AtBound(HoldsOfOthers(i))
         /\ LiveElsewhere(i) => Reconciled(i).hold = task.hold
  BY AtBoundTyped, TaskTyped DEF Reconciled, TypeOK, RunFile

\* The types hold initially.
LEMMA InitTyped == Init => TypeOK
  BY CapAssumption, LimitsAssumption 
  DEF Init, TypeOK, NoHold, NoFlight, RunFile, Row, Round, Request

\* The ways a round's record changes.
LEMMA RoundTyped ==
  ASSUME TypeOK, NEW i \in Instance,
         NEW p \in {"none", "round", "admitted", "sent", "refused", "ended"},
         NEW k \in Key \cup {NoOne}
  PROVE  /\ [flight EXCEPT ![i].pc = p] \in [Instance -> Round]
         /\ [flight EXCEPT ![i].pc = p, ![i].key = k] \in [Instance -> Round]
<1>1. flight \in [Instance -> Round] /\ flight[i] \in Round
  BY DEF TypeOK
<1>2. /\ [flight[i] EXCEPT !.pc = p] \in Round
      /\ [flight[i] EXCEPT !.pc = p, !.key = k] \in Round
  BY <1>1 DEF Round
<1> QED BY <1>1, <1>2

\* A round that ends or is forgotten leaves the rounds in their type.
LEMMA RoundEndTyped ==
  ASSUME TypeOK, NEW i \in Instance
  PROVE  /\ Forgotten(i) \in [Instance -> Round]
         /\ [flight EXCEPT ![i] = NoFlight] \in [Instance -> Round]
<1>1. flight \in [Instance -> Round] /\ flight[i] \in Round
  BY DEF TypeOK
<1>2. /\ [pc |-> "round", key |-> NoOne, kept |-> flight[i].kept \ {flight[i].key}] \in Round
      /\ NoFlight \in Round
  BY <1>1 DEF Round, NoFlight
<1> QED BY <1>1, <1>2 DEF Forgotten

\* The tick thread keeps the types.
LEMMA TickTyped ==
  ASSUME TypeOK, NEW i \in Instance, TickThread(i)
  PROVE  TypeOK'
<1> USE DEF TypeOK, RunFile
<1>0. UNCHANGED wire
  BY DEF TickThread, BootSweep, Heartbeat, TakeLease, TickErrs, AccessLost, Recover, StepNothing,
         StepWaits, StepStops, StartRound
<1>1. tick' \in [Instance -> {"unborn", "sweep", "idle", "recover", "step", "dead"}]
  BY DEF TickThread, BootSweep, Heartbeat, TakeLease, TickErrs, AccessLost, Recover, StepNothing,
         StepWaits, StepStops, StartRound, SetTick
<1>2. flight' \in [Instance -> Round]
  <2>1. CASE StartRound(i)
    BY <2>1, RoundTyped DEF StartRound
  <2> QED
    BY <2>1 DEF TickThread, BootSweep, Heartbeat, TakeLease, TickErrs, AccessLost, Recover,
         StepNothing, StepWaits, StepStops
<1>3. task' \in RunFile
  <2>1. CASE BootSweep(i) \/ Recover(i)
    <3>1. \/ task' \in {task, Reconciled(i)}
          \/ \E s \in {"paused", "needs_user"} : task' = [Reconciled(i) EXCEPT !.status = s]
      BY <2>1 DEF BootSweep, Recover
    <3>2. ASSUME NEW t, t \in {task, Reconciled(i)}
          PROVE  t \in RunFile
      BY <3>2, ReconciledTyped
    <3> HIDE DEF TypeOK
    <3> QED BY <3>1, <3>2
  <2>2. CASE Heartbeat(i)
    BY <2>2 DEF Heartbeat
  <2>3. CASE TakeLease(i)
    <3> DEFINE b == task.owner \notin {NoOne, i}
    <3>1. PICK n \in (IF b THEN 0..task.restarts ELSE {task.restarts}) :
            task' = [task EXCEPT !.owner = i, !.live = TRUE,
                                 !.restarts = IF b /\ n < MaxRestarts THEN n + 1 ELSE n]
      BY <2>3 DEF TakeLease
    <3>3. n \in 0..MaxRestarts
      BY TaskTyped, LimitsAssumption
    <3>2. (IF b /\ n < MaxRestarts THEN n + 1 ELSE n) \in 0..MaxRestarts
      BY <3>3, LimitsAssumption
    <3> HIDE DEF b
    <3> QED BY <3>1, <3>2
  <2>4. CASE TickErrs(i) \/ AccessLost(i)
    BY <2>4 DEF TickErrs, AccessLost
  <2>5. CASE StepNothing(i) \/ StepWaits(i)
    BY <2>5 DEF StepNothing, StepWaits
  <2>6. CASE StepStops(i) \/ StartRound(i)
    BY <2>6 DEF StepStops, StartRound
  <2> QED BY <2>1, <2>2, <2>3, <2>4, <2>5, <2>6 DEF TickThread
<1> QED BY <1>0, <1>1, <1>2, <1>3

\* The round's thread keeps the types.
LEMMA FlightTyped ==
  ASSUME Inv, NEW i \in Instance, FlightThread(i)
  PROVE  TypeOK'
<1>0. TypeOK /\ Rounds /\ UNCHANGED tick
  BY DEF Inv, FlightThread, RefusedLease, ReuseHold, Admit, RefusedBudget, StopRefused, Send,
         FailsSilent, Breaks, Settle, SettleFails, RoundEnds, Charge, CloseOpen
<1>1. flight[i].pc \in {"admitted", "sent"} => flight[i].key \in Key
  BY <1>0 DEF Rounds
<1>2. CASE RefusedLease(i) \/ RefusedBudget(i) \/ RoundEnds(i)
  <2>1. flight' \in [Instance -> Round]
    <3>1. PICK p \in {"ended", "refused"} : flight' = [flight EXCEPT ![i].pc = p]
      BY <1>2 DEF RefusedLease, RefusedBudget, RoundEnds
    <3>2. [flight EXCEPT ![i].pc = p] \in [Instance -> Round]
      BY <1>0, RoundTyped
    <3> QED BY <3>1, <3>2
  <2> QED BY <1>0, <1>2, <2>1 DEF RefusedLease, RefusedBudget, RoundEnds, TypeOK
<1>3. CASE ReuseHold(i)
  <2>1. PICK k \in flight[i].kept : flight' = [flight EXCEPT ![i].pc = "admitted", ![i].key = k]
    BY <1>3 DEF ReuseHold
  <2>2. k \in Key
    BY <1>0 DEF TypeOK, Round
  <2>3. flight' \in [Instance -> Round]
    BY <1>0, <2>1, <2>2, RoundTyped
  <2> QED BY <1>0, <1>3, <2>3 DEF ReuseHold, TypeOK
<1>4. CASE Admit(i)
  <2>1. PICK k \in FreshKeys, h \in Amounts :
          /\ Fits(h)
          /\ task' = [task EXCEPT !.hold[k] = [st |-> "open", amount |-> h, boot |-> i]]
          /\ flight' = [flight EXCEPT ![i].pc = "admitted", ![i].key = k,
                                      ![i].kept = {o \in @ : Open(o)} \cup {k}]
    BY <1>4 DEF Admit
  <2>2. h \in 0..Cap
    BY <1>0, <2>1, SpentTyped, CapAssumption, AmountsAssumption DEF Fits
  <2>3. k \in Key
    BY DEF FreshKeys
  <2>4. flight' \in [Instance -> Round]
    <3> DEFINE R == [flight[i] EXCEPT !.pc = "admitted", !.key = k,
                                      !.kept = {o \in @ : Open(o)} \cup {k}]
    <3>1. flight[i] \in Round
      BY <1>0 DEF TypeOK
    <3>2. R \in Round
      BY <2>3, <3>1 DEF Round
    <3>3. flight' = [flight EXCEPT ![i] = R]
      BY <1>0, <2>1 DEF TypeOK
    <3> QED BY <1>0, <3>2, <3>3 DEF TypeOK
  <2>5. [st |-> "open", amount |-> h, boot |-> i] \in Row
    BY <2>2 DEF Row
  <2>6. task' = [task EXCEPT !.hold = [task.hold EXCEPT ![k] = [st |-> "open", amount |-> h, boot |-> i]]]
    BY <1>0, <2>1 DEF TypeOK, RunFile
  <2>7. wire' = wire
    BY <1>4 DEF Admit
  <2>8. task' \in RunFile
    BY <1>0, <2>3, <2>5, <2>6 DEF TypeOK, RunFile
  <2> QED BY <1>0, <2>4, <2>7, <2>8 DEF TypeOK
<1>5. CASE StopRefused(i)
  <2>1. task' \in RunFile
    BY <1>0, <1>5 DEF StopRefused, StoppedFor, TypeOK, RunFile
  <2>2. flight' \in [Instance -> Round]
    BY <1>0, <1>5, RoundTyped DEF StopRefused
  <2> QED BY <1>0, <1>5, <2>1, <2>2 DEF StopRefused, TypeOK
<1>6. CASE Send(i)
  <2> DEFINE k == flight[i].key
  <2>1. k \in Key /\ task.hold[k].amount \in 0..Cap
    BY <1>1, <1>6, <1>0, TaskTyped DEF Send, Row
  <2>2. wire' = [wire EXCEPT ![k] = [wire[k] EXCEPT !.st = "sent", !.bound = task.hold[k].amount]]
    BY <1>0, <1>6, <2>1 DEF Send, TypeOK
  <2>3. [wire[k] EXCEPT !.st = "sent", !.bound = task.hold[k].amount] \in Request
    BY <1>0, <2>1 DEF TypeOK, Request
  <2>4. flight' \in [Instance -> Round]
    BY <1>0, <1>6, RoundTyped DEF Send
  <2> QED BY <1>0, <1>6, <2>1, <2>2, <2>3, <2>4 DEF Send, TypeOK
<1>7. CASE FailsSilent(i)
  <2>1. flight' \in [Instance -> Round]
    BY <1>0, <1>7, RoundTyped DEF FailsSilent
  <2>2. [st |-> "unsent", bound |-> 0, bill |-> 0] \in Request
    BY CapAssumption DEF Request
  <2> QED BY <1>0, <1>7, <2>1, <2>2 DEF FailsSilent, TypeOK
<1>8. CASE Breaks(i) \/ SettleFails(i)
  <2>1. flight' \in [Instance -> Round]
    BY <1>0, <1>8, RoundEndTyped DEF Breaks, SettleFails
  <2>2. task' \in RunFile
    BY <1>0, <1>8, AtBoundTyped DEF Breaks, SettleFails, TypeOK, RunFile
  <2> QED BY <1>0, <1>8, <2>1, <2>2 DEF Breaks, SettleFails, TypeOK
<1>9. CASE Settle(i)
  <2>1. Forgotten(i) \in [Instance -> Round]
    BY <1>0, RoundEndTyped
  <2> DEFINE k == flight[i].key
  <2>2. k \in Key
    BY <1>1, <1>9 DEF Settle, Answered
  <2>3. PICK n \in wire[k].bill .. task.hold[k].amount : task' = SettledTo(k, n)
    BY <1>9 DEF Settle
  <2>4. n \in 0..Cap
    BY <1>0, <2>2, TaskTyped, CapAssumption DEF TypeOK, Request, Row
  <2>5. task' \in {task, [task EXCEPT !.hold = [task.hold EXCEPT ![k].st = "charged", ![k].amount = n]]}
    BY <1>0, <2>2, <2>3 DEF SettledTo, TypeOK, RunFile
  <2>6. [task.hold EXCEPT ![k].st = "charged", ![k].amount = n] \in [Key -> Row]
    <3>1. [task.hold[k] EXCEPT !.st = "charged", !.amount = n] \in Row
      BY <1>0, <2>2, <2>4, TaskTyped DEF Row
    <3>2. [task.hold EXCEPT ![k].st = "charged", ![k].amount = n]
            = [task.hold EXCEPT ![k] = [task.hold[k] EXCEPT !.st = "charged", !.amount = n]]
      BY <1>0, <2>2, TaskTyped
    <3> QED BY <1>0, <2>2, <3>1, <3>2, TaskTyped
  <2>7. flight' = Forgotten(i) /\ wire' = wire
    BY <1>9 DEF Settle
  <2> HIDE DEF k
  <2>8. task' \in RunFile
    BY <1>0, <2>5, <2>6 DEF TypeOK, RunFile
  <2> QED BY <1>0, <2>1, <2>7, <2>8 DEF TypeOK
<1>10. CASE Charge(i)
  BY <1>0, <1>10 DEF Charge, TypeOK, RunFile
<1>11. CASE CloseOpen(i)
  <2>1. flight' \in [Instance -> Round]
    BY <1>0, <1>11, RoundEndTyped DEF CloseOpen
  <2>2. task' \in RunFile
    BY <1>0, <1>11, AtBoundTyped DEF CloseOpen, TypeOK, RunFile
  <2> QED BY <1>0, <1>11, <2>1, <2>2 DEF CloseOpen, TypeOK
<1> QED
  BY <1>2, <1>3, <1>4, <1>5, <1>6, <1>7, <1>8, <1>9, <1>10, <1>11 DEF FlightThread

\* Every step keeps the types.
LEMMA StepTyped ==
  ASSUME Inv, [Next]_vars
  PROVE  TypeOK'
<1>0. TypeOK
  BY DEF Inv
<1>1. ASSUME NEW i \in Instance, Boot(i) \/ Crash(i) PROVE TypeOK'
  <2>1. flight' \in [Instance -> Round]
    BY <1>0, <1>1, RoundEndTyped DEF Boot, Crash, TypeOK
  <2> QED BY <1>0, <1>1, <2>1 DEF Boot, Crash, SetTick, TypeOK
<1>2. ASSUME NEW i \in Instance, TickThread(i) PROVE TypeOK'
  BY <1>0, <1>2, TickTyped
<1>3. ASSUME NEW i \in Instance, FlightThread(i) PROVE TypeOK'
  BY <1>3, FlightTyped
<1>4. ASSUME NEW k \in Key, Answer(k) PROVE TypeOK'
  <2>1. PICK n \in 0..wire[k].bound :
          wire' = [wire EXCEPT ![k] = [st |-> "billed", bound |-> 0, bill |-> n]]
    BY <1>4 DEF Answer
  <2>2. n \in 0..Cap
    BY <1>0, CapAssumption DEF TypeOK, Request
  <2>3. [st |-> "billed", bound |-> 0, bill |-> n] \in Request
    BY <2>2, CapAssumption DEF Request
  <2> QED BY <1>0, <1>4, <2>1, <2>3 DEF Answer, TypeOK
<1>5. CASE Lapse \/ Pause \/ Resume
  BY <1>0, <1>5 DEF Lapse, Pause, Resume, TypeOK, RunFile
<1>6. CASE UNCHANGED vars
  BY <1>0, <1>6 DEF vars, TypeOK
<1> QED BY <1>1, <1>2, <1>3, <1>4, <1>5, <1>6 DEF Next

-----------------------------------------------------------------------------
(* What a step may do to the rows and to the requests. *)

OpenHolds == {k \in Key : Open(k)}

RowsSame == task'.hold = task.hold

SettlesAtBound == \E S \in SUBSET OpenHolds : task'.hold = AtBound(S)

TakesHold ==
  \E i \in Instance, k \in FreshKeys, h \in 0..Cap :
    /\ Fits(h)
    /\ task'.hold = [task.hold EXCEPT ![k] = [st |-> "open", amount |-> h, boot |-> i]]

SettlesBilled ==
  \E k \in OpenHolds :
    /\ wire[k].st = "billed"
    /\ \E n \in wire[k].bill .. task.hold[k].amount :
         task'.hold = [task.hold EXCEPT ![k].st = "charged", ![k].amount = n]

RequestOut(k) ==
  wire' = [wire EXCEPT ![k] = [wire[k] EXCEPT !.st = "sent", !.bound = task.hold[k].amount]]

RequestEnds(k) ==
  /\ wire[k].st = "sent"
  /\ \/ wire' = [wire EXCEPT ![k] = [st |-> "unsent", bound |-> 0, bill |-> 0]]
     \/ \E n \in 0..wire[k].bound :
          wire' = [wire EXCEPT ![k] = [st |-> "billed", bound |-> 0, bill |-> n]]

\* Every step changes the rows in one of three ways, or the requests in one
\* of two, or neither.
LEMMA StepEffect ==
  ASSUME Inv, [Next]_vars
  PROVE  \/ RowsSame /\ wire' = wire
         \/ (SettlesAtBound \/ TakesHold \/ SettlesBilled) /\ wire' = wire
         \/ RowsSame /\ \E i \in Instance : Send(i) /\ RequestOut(flight[i].key)
         \/ RowsSame /\ \E k \in Key : RequestEnds(k)
<1>0. TypeOK /\ Rounds
  BY DEF Inv
<1>1. ASSUME NEW i \in Instance, Boot(i) \/ Crash(i) PROVE RowsSame /\ wire' = wire
  BY <1>1 DEF Boot, Crash, RowsSame
<1>2. ASSUME NEW i \in Instance, TickThread(i)
      PROVE  (RowsSame \/ SettlesAtBound) /\ wire' = wire
  <2>1. wire' = wire
    BY <1>2 DEF TickThread, BootSweep, Heartbeat, TakeLease, TickErrs, AccessLost, Recover,
         StepNothing, StepWaits, StepStops, StartRound
  <2>2. CASE BootSweep(i) \/ Recover(i)
    <3>1. \/ task' \in {task, Reconciled(i)}
          \/ \E s \in {"paused", "needs_user"} : task' = [Reconciled(i) EXCEPT !.status = s]
      BY <2>2 DEF BootSweep, Recover
    <3>2. Reconciled(i) \in RunFile
      BY <1>0, ReconciledTyped
    <3>3. task'.hold \in {task.hold, Reconciled(i).hold}
      BY <3>1, <3>2 DEF RunFile
    <3>4. Reconciled(i).hold \in {task.hold, AtBound(HoldsOfOthers(i))}
      BY <1>0, ReconciledTyped
    <3>5. HoldsOfOthers(i) \in SUBSET OpenHolds
      BY DEF HoldsOfOthers, OpenHolds
    <3> QED BY <2>1, <3>3, <3>4, <3>5 DEF RowsSame, SettlesAtBound
  <2>3. CASE ~BootSweep(i) /\ ~Recover(i)
    BY <1>0, <1>2, <2>1, <2>3
    DEF TickThread, Heartbeat, TakeLease, TickErrs, AccessLost, StepNothing, StepWaits, StepStops,
        StartRound, RowsSame, TypeOK, RunFile
  <2> QED BY <2>2, <2>3
<1>3. ASSUME NEW i \in Instance, FlightThread(i)
      PROVE  \/ RowsSame /\ wire' = wire
             \/ (SettlesAtBound \/ TakesHold \/ SettlesBilled) /\ wire' = wire
             \/ RowsSame /\ Send(i) /\ RequestOut(flight[i].key)
             \/ RowsSame /\ \E k \in Key : RequestEnds(k)
  <2>0. flight[i].pc \in {"admitted", "sent"} => flight[i].key \in Key
    BY <1>0 DEF Rounds
  <2>1. CASE RefusedLease(i) \/ ReuseHold(i) \/ RefusedBudget(i) \/ SettleFails(i) \/ RoundEnds(i)
    BY <2>1 DEF RefusedLease, ReuseHold, RefusedBudget, SettleFails, RoundEnds, RowsSame
  <2>2. CASE StopRefused(i) \/ Charge(i)
    BY <1>0, <2>2 DEF StopRefused, Charge, StoppedFor, RowsSame, TypeOK, RunFile
  <2>3. CASE Admit(i)
    <3>1. PICK k \in FreshKeys, h \in Amounts :
            /\ Fits(h)
            /\ task' = [task EXCEPT !.hold[k] = [st |-> "open", amount |-> h, boot |-> i]]
      BY <2>3 DEF Admit
    <3>2. h \in 0..Cap
      BY <3>1, SpentTyped, CapAssumption, AmountsAssumption DEF Fits
    <3>3. task'.hold = [task.hold EXCEPT ![k] = [st |-> "open", amount |-> h, boot |-> i]]
      BY <1>0, <3>1 DEF TypeOK, RunFile
    <3> QED BY <2>3, <3>1, <3>2, <3>3 DEF TakesHold, Admit
  <2>4. CASE Send(i)
    <3>1. flight[i].key \in Key
      BY <2>0, <2>4 DEF Send
    <3>2. RequestOut(flight[i].key)
      BY <1>0, <2>4, <3>1 DEF Send, TypeOK, RequestOut
    <3> QED BY <2>4, <3>2 DEF Send, RowsSame
  <2>5. CASE FailsSilent(i)
    BY <2>0, <2>5 DEF FailsSilent, RowsSame, RequestEnds
  <2>6. CASE Breaks(i)
    <3>1. task'.hold = AtBound({flight[i].key} \cap OpenHolds)
      BY <1>0, <2>6 DEF Breaks, OpenHolds, TypeOK, RunFile
    <3> QED BY <2>6, <3>1 DEF Breaks, SettlesAtBound
  <2>7. CASE Settle(i)
    <3> DEFINE k == flight[i].key
    <3>1. k \in Key /\ wire[k].st = "billed"
      BY <2>0, <2>7 DEF Settle, Answered
    <3>2. PICK n \in wire[k].bill .. task.hold[k].amount : task' = SettledTo(k, n)
      BY <2>7 DEF Settle
    <3>3. CASE Open(k)
      <4>1. task'.hold = [task.hold EXCEPT ![k].st = "charged", ![k].amount = n]
        BY <1>0, <3>1, <3>2, <3>3 DEF SettledTo, TypeOK, RunFile
      <4>2. k \in OpenHolds /\ wire' = wire
        BY <2>7, <3>1, <3>3 DEF Settle, OpenHolds
      <4> QED BY <3>1, <4>1, <4>2 DEF SettlesBilled
    <3>4. CASE ~Open(k)
      BY <2>7, <3>2, <3>4 DEF SettledTo, Settle, RowsSame
    <3> QED BY <3>3, <3>4
  <2>8. CASE CloseOpen(i)
    <3>1. task'.hold \in {task.hold, AtBound(HoldsOf(i))}
      BY <1>0, <2>8 DEF CloseOpen, TypeOK, RunFile
    <3>2. HoldsOf(i) \in SUBSET OpenHolds
      BY DEF HoldsOf, OpenHolds
    <3> QED BY <2>8, <3>1, <3>2 DEF CloseOpen, SettlesAtBound, RowsSame
  <2> QED
    BY <1>3, <2>1, <2>2, <2>3, <2>4, <2>5, <2>6, <2>7, <2>8 DEF FlightThread
<1>4. ASSUME NEW k \in Key, Answer(k) PROVE RowsSame /\ RequestEnds(k)
  BY <1>4 DEF Answer, RowsSame, RequestEnds
<1>5. CASE Lapse \/ Pause \/ Resume
  BY <1>0, <1>5 DEF Lapse, Pause, Resume, RowsSame, TypeOK, RunFile
<1>6. CASE UNCHANGED vars
  BY <1>6 DEF vars, RowsSame
<1> QED BY <1>1, <1>2, <1>3, <1>4, <1>5, <1>6 DEF Next

\* A row is only ever taken, settled or kept, and stays its boot's.
LEMMA RowStays ==
  ASSUME Inv, [Next]_vars, NEW k \in Key
  PROVE  /\ task.hold[k].st # "none" =>
              task'.hold[k].st # "none" /\ task'.hold[k].boot = task.hold[k].boot
         /\ task.hold[k].st = "charged" => task'.hold[k] = task.hold[k]
<1>1. TypeOK
  BY DEF Inv
<1>2. task.hold \in [Key -> Row] /\ task.hold[k] \in Row
  BY <1>1, TaskTyped
<1>3. CASE RowsSame
  BY <1>3 DEF RowsSame
<1>4. CASE SettlesAtBound
  <2>1. PICK S \in SUBSET OpenHolds : task'.hold = AtBound(S)
    BY <1>4 DEF SettlesAtBound
  <2>2. task'.hold[k] = IF k \in S THEN [task.hold[k] EXCEPT !.st = "charged"] ELSE task.hold[k]
    BY <2>1 DEF AtBound
  <2>3. k \in S => task.hold[k].st = "open"
    BY DEF OpenHolds, Open
  <2> QED BY <1>2, <2>2, <2>3 DEF Row
<1>5. CASE TakesHold
  BY <1>2, <1>5 DEF TakesHold, FreshKeys
<1>6. CASE SettlesBilled
  BY <1>2, <1>6 DEF SettlesBilled, OpenHolds, Open, Row
<1> QED BY <1>3, <1>4, <1>5, <1>6, StepEffect

-----------------------------------------------------------------------------
(* The rounds' own holds and the requests keep to the rows. *)

\* Every bill is counted after a step if it was before.
LEMMA StepWires ==
  ASSUME Inv, [Next]_vars
  PROVE  (Wires /\ EveryBillCounts)'
<1>0. TypeOK /\ Rounds /\ Wires /\ EveryBillCounts
  BY DEF Inv
<1> SUFFICES ASSUME NEW k \in Key
             PROVE  /\ task'.hold[k].st = "none" =>
                         task'.hold[k].amount = 0 /\ wire'[k].st = "unsent" /\ wire'[k].bill = 0
                    /\ wire'[k].st = "sent" => wire'[k].bound <= task'.hold[k].amount
                    /\ wire'[k].st # "billed" => wire'[k].bill = 0
                    /\ wire'[k].bill <= task'.hold[k].amount
  BY DEF Wires, EveryBillCounts
<1>1. /\ task.hold \in [Key -> Row] /\ task.hold[k] \in Row
      /\ wire \in [Key -> Request] /\ wire[k] \in Request
  BY <1>0, TaskTyped DEF TypeOK
<1>2. /\ task.hold[k].st = "none" =>
           task.hold[k].amount = 0 /\ wire[k].st = "unsent" /\ wire[k].bill = 0
      /\ wire[k].st = "sent" => wire[k].bound <= task.hold[k].amount
      /\ wire[k].st # "billed" => wire[k].bill = 0
      /\ wire[k].bill <= task.hold[k].amount
  BY <1>0 DEF Wires, EveryBillCounts
<1>3. CASE RowsSame /\ wire' = wire
  BY <1>2, <1>3 DEF RowsSame
<1>4. CASE SettlesAtBound /\ wire' = wire
  <2>1. PICK S \in SUBSET OpenHolds : task'.hold = AtBound(S)
    BY <1>4 DEF SettlesAtBound
  <2>2. task'.hold[k] \in {[task.hold[k] EXCEPT !.st = "charged"], task.hold[k]}
    BY <2>1 DEF AtBound
  <2>3. task'.hold[k].amount = task.hold[k].amount /\ task'.hold[k].st \in {"charged", task.hold[k].st}
    BY <1>1, <2>2 DEF Row
  <2> QED BY <1>2, <1>4, <2>3
<1>5. CASE TakesHold /\ wire' = wire
  <2>1. PICK i \in Instance, f \in FreshKeys, h \in 0..Cap :
          task'.hold = [task.hold EXCEPT ![f] = [st |-> "open", amount |-> h, boot |-> i]]
    BY <1>5 DEF TakesHold
  <2>2. CASE f = k
    <3>1. task.hold[k].st = "none"
      BY <2>2 DEF FreshKeys
    <3>2. task'.hold[k] = [st |-> "open", amount |-> h, boot |-> i]
      BY <1>1, <2>1, <2>2
    <3> QED BY <1>2, <1>5, <3>1, <3>2, CapAssumption
  <2>3. CASE f # k
    <3>1. task'.hold[k] = task.hold[k]
      BY <1>1, <2>1, <2>3
    <3> QED BY <1>2, <1>5, <3>1
  <2> QED BY <2>2, <2>3
<1>6. CASE SettlesBilled /\ wire' = wire
  <2>1. PICK b \in OpenHolds :
          /\ wire[b].st = "billed"
          /\ \E n \in wire[b].bill .. task.hold[b].amount :
               task'.hold = [task.hold EXCEPT ![b].st = "charged", ![b].amount = n]
    BY <1>6 DEF SettlesBilled
  <2>2. PICK n \in wire[b].bill .. task.hold[b].amount :
          task'.hold = [task.hold EXCEPT ![b].st = "charged", ![b].amount = n]
    BY <2>1
  <2>3. CASE b = k
    <3>1. task'.hold[k].st = "charged" /\ task'.hold[k].amount = n
      BY <1>1, <2>2, <2>3 DEF Row
    <3>2. wire[k].bill <= n
      BY <1>1, <2>2, <2>3 DEF Request, Row
    <3> QED BY <1>2, <1>6, <2>1, <2>3, <3>1, <3>2
  <2>4. CASE b # k
    <3>1. task'.hold[k] = task.hold[k]
      BY <1>1, <2>2, <2>4
    <3> QED BY <1>2, <1>6, <3>1
  <2> QED BY <2>3, <2>4
<1>7. CASE RowsSame /\ \E i \in Instance : Send(i) /\ RequestOut(flight[i].key)
  <2>1. PICK i \in Instance : Send(i) /\ RequestOut(flight[i].key)
    BY <1>7
  <2>2. /\ flight[i].key \in Key /\ task.hold[flight[i].key].st # "none"
        /\ wire[flight[i].key].st = "unsent"
    BY <1>0, <2>1 DEF Send, Rounds, OwnHold
  <2>3. CASE flight[i].key = k
    <3>1. wire'[k] = [wire[k] EXCEPT !.st = "sent", !.bound = task.hold[k].amount]
      BY <1>1, <2>1, <2>3 DEF RequestOut
    <3>2. wire'[k].st = "sent" /\ wire'[k].bound = task.hold[k].amount /\ wire'[k].bill = wire[k].bill
      BY <1>1, <3>1 DEF Request
    <3>3. task'.hold = task.hold /\ task.hold[k].amount \in Nat
      BY <1>1, <1>7, CapAssumption DEF RowsSame, Row
    <3> QED BY <1>2, <2>2, <2>3, <3>2, <3>3
  <2>4. CASE flight[i].key # k
    BY <1>1, <1>2, <1>7, <2>1, <2>4 DEF RequestOut, RowsSame
  <2> QED BY <2>3, <2>4
<1>8. CASE RowsSame /\ \E e \in Key : RequestEnds(e)
  <2>1. PICK e \in Key : RequestEnds(e)
    BY <1>8
  <2>2. CASE e = k
    <3>1. task'.hold[k] = task.hold[k] /\ task.hold[k].amount \in Nat /\ wire[k].st = "sent"
      BY <1>1, <1>8, <2>1, <2>2, CapAssumption DEF RowsSame, RequestEnds, Row
    <3>2. CASE wire'[k] = [st |-> "unsent", bound |-> 0, bill |-> 0]
      BY <1>2, <3>1, <3>2
    <3>3. CASE \E n \in 0..wire[k].bound : wire'[k] = [st |-> "billed", bound |-> 0, bill |-> n]
      <4>1. PICK n \in 0..wire[k].bound : wire'[k] = [st |-> "billed", bound |-> 0, bill |-> n]
        BY <3>3
      <4>2. n <= task.hold[k].amount
        BY <1>1, <1>2, <3>1 DEF Request
      <4> QED BY <1>2, <3>1, <4>1, <4>2
    <3> QED BY <1>1, <2>1, <2>2, <3>2, <3>3 DEF RequestEnds
  <2>3. CASE e # k
    BY <1>1, <1>2, <1>8, <2>1, <2>3 DEF RequestEnds, RowsSame
  <2> QED BY <2>2, <2>3
<1> QED BY <1>3, <1>4, <1>5, <1>6, <1>7, <1>8, StepEffect

\* A process's step leaves the threads of the others alone.
LEMMA OthersStay ==
  ASSUME TypeOK, NEW i \in Instance, NEW j \in Instance, i # j,
         Boot(j) \/ Crash(j) \/ TickThread(j) \/ FlightThread(j)
  PROVE  flight'[i] = flight[i] /\ tick'[i] = tick[i]
<1> USE DEF TypeOK
<1>1. CASE Boot(j) \/ Crash(j)
  BY <1>1 DEF Boot, Crash, SetTick
<1>2. CASE TickThread(j)
  BY <1>2 DEF TickThread, BootSweep, Heartbeat, TakeLease, TickErrs, AccessLost, Recover,
       StepNothing, StepWaits, StepStops, StartRound, SetTick
<1>3. CASE RefusedLease(j) \/ ReuseHold(j) \/ RefusedBudget(j) \/ StopRefused(j) \/ Send(j)
           \/ FailsSilent(j) \/ RoundEnds(j) \/ Charge(j) \/ CloseOpen(j)
  BY <1>3 DEF RefusedLease, ReuseHold, RefusedBudget, StopRefused, Send, FailsSilent, RoundEnds,
       Charge, CloseOpen
<1>4. CASE Breaks(j) \/ Settle(j) \/ SettleFails(j)
  BY <1>4 DEF Breaks, Settle, SettleFails, Forgotten
<1>5. CASE Admit(j)
  BY <1>5 DEF Admit
<1> QED BY <1>1, <1>2, <1>3, <1>4, <1>5 DEF FlightThread

\* A tick thread past the lease has no round in flight, and starts one only
\* from there.
LEMMA TickMoves ==
  ASSUME Inv, NEW i \in Instance, Boot(i) \/ Crash(i) \/ TickThread(i)
  PROVE  /\ \/ flight'[i] = flight[i]
            \/ flight'[i] = NoFlight
            \/ flight[i].pc = "none" /\ flight'[i] = [flight[i] EXCEPT !.pc = "round"]
         /\ tick'[i] \in {"recover", "step"} => flight'[i].pc = "none"
<1>0. TypeOK /\ Rounds
  BY DEF Inv
<1>1. tick \in [Instance -> {"unborn", "sweep", "idle", "recover", "step", "dead"}]
      /\ flight \in [Instance -> Round] /\ flight[i] \in Round
  BY <1>0 DEF TypeOK
<1>2. tick[i] \in {"recover", "step"} => flight[i].pc = "none"
  BY <1>0 DEF Rounds
<1>3. CASE Crash(i)
  BY <1>1, <1>3 DEF Crash, SetTick, NoFlight
<1>4. CASE StartRound(i)
  BY <1>1, <1>2, <1>4 DEF StartRound, SetTick
<1>5. CASE TakeLease(i)
  BY <1>1, <1>5 DEF TakeLease, SetTick, FlightAlive
<1>6. CASE Boot(i) \/ BootSweep(i) \/ Heartbeat(i) \/ TickErrs(i) \/ AccessLost(i) \/ StepNothing(i)
           \/ StepWaits(i) \/ StepStops(i)
  BY <1>1, <1>6 DEF Boot, BootSweep, Heartbeat, TickErrs, AccessLost, StepNothing, StepWaits,
       StepStops, SetTick
<1>7. CASE Recover(i)
  BY <1>1, <1>2, <1>7 DEF Recover, SetTick
<1> QED BY <1>3, <1>4, <1>5, <1>6, <1>7 DEF TickThread

\* What a process owns it goes on owning, and nobody else sends on it.
LEMMA OwnStays ==
  ASSUME Inv, [Next]_vars, NEW i \in Instance, NEW k \in Key, OwnHold(i, k)
  PROVE  /\ OwnHold(i, k)'
         /\ wire[k].st = "unsent" /\ ~(Send(i) /\ flight[i].key = k) => wire'[k].st = "unsent"
<1>0. TypeOK /\ Rounds
  BY DEF Inv
<1>1. wire \in [Key -> Request]
  BY <1>0 DEF TypeOK
<1>2. OwnHold(i, k)'
  BY RowStays DEF OwnHold
<1>3. ASSUME NEW j \in Instance, Send(j), RequestOut(flight[j].key), wire[k].st = "unsent",
             ~(Send(i) /\ flight[i].key = k)
      PROVE  wire'[k].st = "unsent"
  <2>1. flight[j].key \in Key /\ OwnHold(j, flight[j].key)
    BY <1>0, <1>3 DEF Send, Rounds
  <2>2. flight[j].key # k
    BY <1>3, <2>1 DEF OwnHold
  <2> QED BY <1>1, <1>3, <2>1, <2>2 DEF RequestOut
<1>4. ASSUME NEW e \in Key, RequestEnds(e), wire[k].st = "unsent"
      PROVE  wire'[k].st = "unsent"
  BY <1>1, <1>4 DEF RequestEnds
<1> QED BY <1>2, <1>3, <1>4, StepEffect

\* The rounds' holds stay their own, and unsent but for the one in flight.
LEMMA StepRounds ==
  ASSUME Inv, [Next]_vars
  PROVE  Rounds'
<1>0. TypeOK /\ Rounds
  BY DEF Inv
<1>1. /\ flight \in [Instance -> Round] /\ wire \in [Key -> Request] /\ task.hold \in [Key -> Row]
      /\ tick \in [Instance -> {"unborn", "sweep", "idle", "recover", "step", "dead"}]
  BY <1>0, TaskTyped DEF TypeOK
<1> SUFFICES ASSUME NEW i \in Instance
             PROVE  /\ flight'[i].pc \in {"admitted", "sent"} =>
                         flight'[i].key \in Key /\ OwnHold(i, flight[i].key)'
                    /\ flight'[i].pc = "admitted" => wire'[flight'[i].key].st = "unsent"
                    /\ \A k \in flight'[i].kept :
                         /\ OwnHold(i, k)'
                         /\ \/ wire'[k].st = "unsent"
                            \/ flight'[i].pc = "sent" /\ flight'[i].key = k
                    /\ tick'[i] \in {"recover", "step"} => flight'[i].pc = "none"
  BY DEF Rounds
<1> DEFINE r == flight[i]
<1>2. /\ r \in Round
      /\ r.pc \in {"admitted", "sent"} => r.key \in Key /\ OwnHold(i, r.key)
      /\ r.pc = "admitted" => wire[r.key].st = "unsent"
      /\ \A k \in r.kept : /\ k \in Key /\ OwnHold(i, k)
                           /\ wire[k].st = "unsent" \/ (r.pc = "sent" /\ r.key = k)
      /\ tick[i] \in {"recover", "step"} => r.pc = "none"
  BY <1>0, <1>1 DEF Rounds, Round
<1>3. ASSUME NEW k \in Key, OwnHold(i, k) PROVE OwnHold(i, k)'
  BY <1>3, OwnStays
<1>4. ASSUME NEW k \in Key, OwnHold(i, k), wire[k].st = "unsent", ~(Send(i) /\ r.key = k)
      PROVE  wire'[k].st = "unsent"
  BY <1>4, OwnStays
<1>5. CASE flight'[i] = r /\ ~Send(i) /\ (tick'[i] \in {"recover", "step"} => r.pc = "none")
  BY <1>2, <1>3, <1>4, <1>5
<1>6. ASSUME Boot(i) \/ Crash(i) \/ TickThread(i)
      PROVE  /\ flight'[i].pc \in {"admitted", "sent"} =>
                  flight'[i].key \in Key /\ OwnHold(i, flight[i].key)'
             /\ flight'[i].pc = "admitted" => wire'[flight'[i].key].st = "unsent"
             /\ \A k \in flight'[i].kept :
                  /\ OwnHold(i, k)'
                  /\ \/ wire'[k].st = "unsent"
                     \/ flight'[i].pc = "sent" /\ flight'[i].key = k
             /\ tick'[i] \in {"recover", "step"} => flight'[i].pc = "none"
  <2>1. /\ \/ flight'[i] = r
           \/ flight'[i] = NoFlight
           \/ r.pc = "none" /\ flight'[i] = [r EXCEPT !.pc = "round"]
        /\ tick'[i] \in {"recover", "step"} => flight'[i].pc = "none"
    BY <1>6, TickMoves
  <2>2. ~Send(i)
    <3>1. wire' = wire
      BY <1>6 DEF Boot, Crash, TickThread, BootSweep, Heartbeat, TakeLease, TickErrs, AccessLost,
           Recover, StepNothing, StepWaits, StepStops, StartRound
    <3>2. Send(i) => wire'[r.key].st = "sent" /\ wire[r.key].st = "unsent"
      BY <1>1, <1>2 DEF Send, Request
    <3> QED BY <3>1, <3>2
  <2>3. CASE flight'[i] = r
    BY <1>5, <2>1, <2>2, <2>3
  <2>4. CASE flight'[i] = NoFlight
    BY <2>1, <2>4 DEF NoFlight
  <2>5. CASE r.pc = "none" /\ flight'[i] = [r EXCEPT !.pc = "round"]
    <3>1. flight'[i].pc = "round" /\ flight'[i].kept = r.kept
      BY <1>2, <2>5 DEF Round
    <3> QED BY <1>2, <1>3, <1>4, <2>1, <2>2, <2>5, <3>1
  <2> QED BY <2>1, <2>3, <2>4, <2>5
<1>7. ASSUME FlightThread(i)
      PROVE  /\ flight'[i].pc \in {"admitted", "sent"} =>
                  flight'[i].key \in Key /\ OwnHold(i, flight[i].key)'
             /\ flight'[i].pc = "admitted" => wire'[flight'[i].key].st = "unsent"
             /\ \A k \in flight'[i].kept :
                  /\ OwnHold(i, k)'
                  /\ \/ wire'[k].st = "unsent"
                     \/ flight'[i].pc = "sent" /\ flight'[i].key = k
             /\ tick'[i] \in {"recover", "step"} => flight'[i].pc = "none"
  <2>0. r.pc # "none" /\ tick' = tick
    BY <1>7 DEF FlightThread, RefusedLease, ReuseHold, Admit, RefusedBudget, StopRefused, Send,
         FailsSilent, Breaks, Settle, SettleFails, RoundEnds, Charge, CloseOpen, Answered
  <2>1. CASE RefusedLease(i) \/ RefusedBudget(i) \/ StopRefused(i) \/ RoundEnds(i) \/ Charge(i)
             \/ CloseOpen(i)
    <3>1. /\ flight'[i].pc \in {"round", "refused", "ended", "none"}
          /\ flight'[i].kept \subseteq r.kept
          /\ r.pc # "sent" /\ ~Send(i)
      BY <1>1, <1>2, <2>1 DEF RefusedLease, RefusedBudget, StopRefused, RoundEnds, Charge, CloseOpen,
           NoFlight, Round, Send
    <3> QED BY <1>2, <1>3, <1>4, <2>0, <3>1
  <2>2. CASE ReuseHold(i)
    <3>1. PICK k \in r.kept : flight' = [flight EXCEPT ![i].pc = "admitted", ![i].key = k]
      BY <2>2 DEF ReuseHold
    <3>2. /\ flight'[i].pc = "admitted" /\ flight'[i].key = k /\ flight'[i].kept = r.kept
          /\ r.pc = "round" /\ ~Send(i) /\ k \in Key
      BY <1>1, <1>2, <2>2, <3>1 DEF ReuseHold, Round, Send
    <3> QED BY <1>2, <1>3, <1>4, <2>0, <3>2
  <2>3. CASE Admit(i)
    <3>1. PICK k \in FreshKeys, h \in Amounts :
            /\ task' = [task EXCEPT !.hold[k] = [st |-> "open", amount |-> h, boot |-> i]]
            /\ flight' = [flight EXCEPT ![i].pc = "admitted", ![i].key = k,
                                        ![i].kept = {o \in @ : Open(o)} \cup {k}]
      BY <2>3 DEF Admit
    <3>2. /\ flight'[i].pc = "admitted" /\ flight'[i].key = k
          /\ flight'[i].kept = {o \in r.kept : Open(o)} \cup {k}
      BY <1>1, <3>1 DEF Round
    <3>3. k \in Key /\ task.hold[k].st = "none" /\ wire' = wire /\ r.pc = "round" /\ ~Send(i)
      BY <2>3 DEF FreshKeys, Admit, Send
    <3>4. OwnHold(i, k)'
      <4>1. task'.hold[k] = [st |-> "open", amount |-> h, boot |-> i]
        BY <1>0, <1>1, <3>1, <3>3 DEF TypeOK, RunFile
      <4> QED BY <4>1 DEF OwnHold
    <3>5. wire'[k].st = "unsent"
      BY <3>3 DEF Inv, Wires
    <3> QED BY <1>2, <1>3, <1>4, <2>0, <3>2, <3>3, <3>4, <3>5
  <2>4. CASE Send(i)
    <3>1. /\ flight'[i].pc = "sent" /\ flight'[i].key = r.key /\ flight'[i].kept = r.kept
          /\ r.pc = "admitted"
      BY <1>1, <1>2, <2>4 DEF Send, Round
    <3> QED BY <1>2, <1>3, <1>4, <2>0, <3>1
  <2>5. CASE FailsSilent(i)
    <3>1. /\ flight'[i].pc = "round" /\ flight'[i].kept = r.kept
          /\ r.pc = "sent" /\ ~Send(i)
      BY <1>1, <1>2, <2>5 DEF FailsSilent, Round, Send
    <3>2. r.key \in Key /\ wire'[r.key].st = "unsent"
      BY <1>1, <1>2, <2>5, <3>1 DEF FailsSilent
    <3> QED BY <1>2, <1>3, <1>4, <2>0, <3>1, <3>2
  <2>6. CASE Breaks(i) \/ Settle(i) \/ SettleFails(i)
    <3>1. /\ flight'[i].pc = "round" /\ flight'[i].kept = r.kept \ {r.key}
          /\ r.pc = "sent" /\ ~Send(i)
      BY <1>1, <1>2, <2>6 DEF Breaks, Settle, SettleFails, Forgotten, Answered, Send
    <3> QED BY <1>2, <1>3, <1>4, <2>0, <3>1
  <2> QED BY <1>7, <2>1, <2>2, <2>3, <2>4, <2>5, <2>6 DEF FlightThread
<1>8. ASSUME NEW j \in Instance, j # i, Boot(j) \/ Crash(j) \/ TickThread(j) \/ FlightThread(j)
      PROVE  flight'[i] = r /\ ~Send(i) /\ (tick'[i] \in {"recover", "step"} => r.pc = "none")
  <2>1. flight'[i] = flight[i] /\ tick'[i] = tick[i]
    BY <1>0, <1>8, OthersStay
  <2>2. Send(i) => flight'[i].pc = "sent" /\ flight[i].pc = "admitted"
    BY <1>1 DEF Send, Round
  <2> QED BY <1>2, <2>1, <2>2
<1>9. ASSUME (\E k \in Key : Answer(k)) \/ Lapse \/ Pause \/ Resume \/ UNCHANGED vars
      PROVE  flight'[i] = r /\ ~Send(i) /\ (tick'[i] \in {"recover", "step"} => r.pc = "none")
  <2>1. flight' = flight /\ tick' = tick
    BY <1>9 DEF Answer, Lapse, Pause, Resume, vars
  <2>2. Send(i) => flight'[i].pc = "sent" /\ flight[i].pc = "admitted"
    BY <1>1 DEF Send, Round
  <2> QED BY <1>2, <2>1, <2>2
<1> HIDE DEF r
<1> QED BY <1>5, <1>6, <1>7, <1>8, <1>9 DEF Next

-----------------------------------------------------------------------------
(* Invariants of the specification. *)

\* The initial state is in the invariant.
LEMMA InitInv == Init => Inv
<1> SUFFICES ASSUME Init PROVE Inv
  OBVIOUS
<1>1. TypeOK
  BY InitTyped
<1>2. Rounds
  BY DEF Init, Rounds, NoFlight
<1>3. Wires /\ EveryBillCounts
  BY DEF Init, Wires, EveryBillCounts, NoHold
<1> QED BY <1>1, <1>2, <1>3 DEF Inv

\* Every step keeps the invariant.
LEMMA StepInv == Inv /\ [Next]_vars => Inv'
  BY StepTyped, StepRounds, StepWires DEF Inv

\* Every reachable state is in the invariant.
THEOREM Invariance == Spec => []Inv
  BY InitInv, StepInv, PTL DEF Spec

\* The file, the threads and the requests stay in their types.
THEOREM TypeCorrect == Spec => []TypeOK
<1>1. Inv => TypeOK
  BY DEF Inv
<1> QED BY Invariance, <1>1, PTL

\* No send the provider billed goes uncounted: not through a retry, a broken
\* stream, a crash, a late answer or a reconciliation.
THEOREM BillsCounted == Spec => []EveryBillCounts
<1>1. Inv => EveryBillCounts
  BY DEF Inv
<1> QED BY Invariance, <1>1, PTL

\* A settled row never changes again, whoever settles late.
THEOREM ChargesFinal == Spec => ChargeIsFinal
<1>1. Inv /\ [Next]_vars =>
        [\A k \in Key : task.hold[k].st = "charged" => task'.hold[k] = task.hold[k]]_vars
  BY RowStays
<1> QED BY Invariance, <1>1, PTL DEF Spec, ChargeIsFinal

\* The holds of the process with the live lease change by its own round only:
\* reconciliation, at boot or after a takeover, passes them by.
THEOREM DriverKept == Spec => DriverKeepsItsHolds
<1>1. ASSUME Inv, [Next]_vars, NEW i \in Instance, HeldLive(i), NEW k \in HoldsOf(i),
             task'.hold[k] # task.hold[k]
      PROVE  flight'[i] # flight[i]
  <2>0. /\ TypeOK /\ Rounds /\ k \in Key /\ task.hold[k].boot = i /\ task.hold[k].st = "open"
        /\ task.hold \in [Key -> Row] /\ flight \in [Instance -> Round]
    BY <1>1, TaskTyped DEF Inv, HoldsOf, Open, TypeOK
  <2>1. ASSUME NEW S, k \notin S PROVE AtBound(S)[k] = task.hold[k]
    BY <2>0, <2>1 DEF AtBound
  <2>2. ASSUME NEW j \in Instance, Boot(j) \/ Crash(j) PROVE FALSE
    BY <1>1, <2>2 DEF Boot, Crash
  <2>3. ASSUME NEW j \in Instance, TickThread(j) PROVE FALSE
    <3>1. Reconciled(j).hold[k] = task.hold[k] /\ Reconciled(j) \in RunFile
      <4>1. j # i => LiveElsewhere(j)
        BY <1>1, NoOneAssumption DEF HeldLive, LiveElsewhere
      <4>2. k \notin HoldsOfOthers(i)
        BY <2>0 DEF HoldsOfOthers
      <4> QED BY <2>0, <2>1, <4>1, <4>2, ReconciledTyped
    <3>2. CASE BootSweep(j) \/ Recover(j)
      <4>1. \/ task' \in {task, Reconciled(j)}
            \/ \E s \in {"paused", "needs_user"} : task' = [Reconciled(j) EXCEPT !.status = s]
        BY <3>2 DEF BootSweep, Recover
      <4>2. task'.hold \in {task.hold, Reconciled(j).hold}
        BY <3>1, <4>1 DEF RunFile
      <4> QED BY <1>1, <3>1, <4>2
    <3>3. CASE ~BootSweep(j) /\ ~Recover(j)
      <4>1. task'.hold = task.hold
        BY <2>0, <2>3, <3>3
        DEF TickThread, Heartbeat, TakeLease, TickErrs, AccessLost, StepNothing, StepWaits,
            StepStops, StartRound, TypeOK, RunFile
      <4> QED BY <1>1, <4>1
    <3> QED BY <3>2, <3>3
  <2>4. ASSUME NEW j \in Instance, FlightThread(j) PROVE flight'[i] # flight[i]
    <3>1. CASE RefusedLease(j) \/ ReuseHold(j) \/ RefusedBudget(j) \/ SettleFails(j) \/ RoundEnds(j)
               \/ Send(j) \/ FailsSilent(j) \/ StopRefused(j) \/ Charge(j)
      <4>1. task'.hold = task.hold
        BY <2>0, <3>1 DEF RefusedLease, ReuseHold, RefusedBudget, SettleFails, RoundEnds, Send,
             FailsSilent, StopRefused, StoppedFor, Charge, TypeOK, RunFile
      <4> QED BY <1>1, <4>1
    <3>2. CASE Admit(j)
      <4>1. PICK f \in FreshKeys, h \in Amounts :
              task' = [task EXCEPT !.hold[f] = [st |-> "open", amount |-> h, boot |-> j]]
        BY <3>2 DEF Admit
      <4>2. f # k
        BY <2>0 DEF FreshKeys
      <4>3. task'.hold[k] = task.hold[k]
        BY <2>0, <4>1, <4>2 DEF TypeOK, RunFile
      <4> QED BY <1>1, <4>3
    <3>3. CASE Breaks(j) \/ Settle(j)
      <4>1. flight[j].pc = "sent" /\ flight' = Forgotten(j)
        BY <3>3 DEF Breaks, Settle, Answered
      <4>2. flight[j].key \in Key /\ task.hold[flight[j].key].boot = j
        BY <2>0, <4>1 DEF Rounds, OwnHold
      <4>3. CASE j = i
        BY <2>0, <4>1, <4>3 DEF Forgotten
      <4>4. CASE j # i
        <5>1. flight[j].key # k
          BY <2>0, <4>2, <4>4
        <5>2. CASE Breaks(j)
          <6>1. task'.hold = AtBound({flight[j].key} \cap {o \in Key : Open(o)})
            BY <2>0, <5>2 DEF Breaks, TypeOK, RunFile
          <6> QED BY <1>1, <2>1, <5>1, <6>1
        <5>3. CASE Settle(j)
          <6>1. PICK n : task' = SettledTo(flight[j].key, n)
            BY <5>3 DEF Settle
          <6>2. task'.hold[k] = task.hold[k]
            BY <2>0, <4>2, <5>1, <6>1 DEF SettledTo, TypeOK, RunFile
          <6> QED BY <1>1, <6>2
        <5> QED BY <3>3, <5>2, <5>3
      <4> QED BY <4>3, <4>4
    <3>4. CASE CloseOpen(j)
      <4>1. CASE j = i
        BY <2>0, <3>4, <4>1 DEF CloseOpen, NoFlight
      <4>2. CASE j # i
        <5>1. task'.hold \in {task.hold, AtBound(HoldsOf(j))}
          BY <2>0, <3>4 DEF CloseOpen, TypeOK, RunFile
        <5>2. k \notin HoldsOf(j)
          BY <2>0, <4>2 DEF HoldsOf
        <5> QED BY <1>1, <2>1, <5>1, <5>2
      <4> QED BY <4>1, <4>2
    <3> QED BY <2>4, <3>1, <3>2, <3>3, <3>4 DEF FlightThread
  <2>5. ASSUME (\E a \in Key : Answer(a)) \/ Lapse \/ Pause \/ Resume \/ UNCHANGED vars PROVE FALSE
    <3>1. task'.hold = task.hold
      BY <2>0, <2>5 DEF Answer, Lapse, Pause, Resume, vars, TypeOK, RunFile
    <3> QED BY <1>1, <3>1
  <2> QED BY <1>1, <2>2, <2>3, <2>4, <2>5 DEF Next
<1>2. Inv /\ [Next]_vars =>
        [\A i \in Instance : HeldLive(i) =>
           \A k \in HoldsOf(i) : task'.hold[k] # task.hold[k] => flight'[i] # flight[i]]_vars
  BY <1>1
<1> QED BY Invariance, <1>2, PTL DEF Spec, DriverKeepsItsHolds

-----------------------------------------------------------------------------
(* The count and the cap. *)

\* The rows' amounts and the requests' bills are natural numbers.
LEMMA AmountsTyped ==
  ASSUME TypeOK
  PROVE  Amount \in [Key -> Nat] /\ Bill \in [Key -> Nat]
<1>1. \A k \in Key : task.hold[k] \in Row /\ wire[k] \in Request
  BY TaskTyped DEF TypeOK
<1> QED BY <1>1, CapAssumption DEF Amount, Bill, Row, Request

\* What the providers billed is within what is counted.
LEMMA BilledWithinSpent ==
  ASSUME TypeOK, EveryBillCounts
  PROVE  Billed <= Spent
<1>1. \A k \in Key : Bill[k] <= Amount[k]
  BY DEF Bill, Amount, EveryBillCounts
<1> QED BY <1>1, AmountsTyped, UnitsMonotone, SpentIsUnits

\* The count and the bills move only as SpendCap allows.
LEMMA CountMoves ==
  ASSUME Inv, [Next]_vars
  PROVE  \/ Spent' = Spent /\ Billed' = Billed
         \/ Billed' = Billed /\ Spent <= Spent' /\ Spent' <= Cap
         \/ Billed' = Billed /\ Spent' <= Spent
         \/ Spent' = Spent /\ Billed <= Billed'
<1>0. TypeOK /\ TypeOK' /\ Wires /\ Rounds
  BY StepInv DEF Inv
<1>1. /\ Amount \in [Key -> Nat] /\ Bill \in [Key -> Nat]
      /\ Amount' \in [Key -> Nat] /\ Bill' \in [Key -> Nat]
  <2>1. Amount' \in [Key -> Nat] /\ Bill' \in [Key -> Nat]
    <3>1. \A k \in Key : task'.hold[k] \in Row /\ wire'[k] \in Request
      BY <1>0 DEF TypeOK, RunFile
    <3> QED BY <3>1, CapAssumption DEF Amount, Bill, Row, Request
  <2> QED BY <1>0, <2>1, AmountsTyped
<1>2. /\ Spent = Cardinality(Units(Amount)) /\ Billed = Cardinality(Units(Bill))
      /\ Spent' = Cardinality(Units(Amount')) /\ Billed' = Cardinality(Units(Bill'))
  <2>1. Spent' = Cardinality(Units(Amount')) /\ Billed' = Cardinality(Units(Bill'))
    <3>1. CountedUnits' = Units(Amount')
      BY DEF CountedUnits, Units, Amount
    <3>2. BilledUnits' = Units(Bill')
      BY DEF BilledUnits, Units, Bill
    <3> QED BY <3>1, <3>2 DEF Spent, Billed
  <2> QED BY <2>1, SpentIsUnits
<1>3. wire' = wire => Billed' = Billed
  <2>1. wire' = wire => Bill' = Bill
    BY DEF Bill
  <2> QED BY <1>2, <2>1
<1>4. RowsSame => Spent' = Spent
  <2>1. RowsSame => Amount' = Amount
    BY DEF Amount, RowsSame
  <2> QED BY <1>2, <2>1
<1>5. /\ task.hold \in [Key -> Row] /\ wire \in [Key -> Request]
  BY <1>0, TaskTyped DEF TypeOK
<1>6. CASE SettlesAtBound /\ wire' = wire
  <2>1. PICK S \in SUBSET OpenHolds : task'.hold = AtBound(S)
    BY <1>6 DEF SettlesAtBound
  <2>2. ASSUME NEW k \in Key PROVE task'.hold[k].amount = task.hold[k].amount
    <3>1. task'.hold[k] \in {[task.hold[k] EXCEPT !.st = "charged"], task.hold[k]}
      BY <2>1 DEF AtBound
    <3>2. task.hold[k] \in Row
      BY <1>5
    <3> QED BY <3>1, <3>2 DEF Row
  <2>3. Amount' = Amount
    BY <2>2 DEF Amount
  <2> QED BY <1>2, <1>3, <1>6, <2>3
<1>7. CASE TakesHold /\ wire' = wire
  <2>1. PICK i \in Instance, k \in FreshKeys, h \in 0..Cap :
          /\ Fits(h)
          /\ task'.hold = [task.hold EXCEPT ![k] = [st |-> "open", amount |-> h, boot |-> i]]
    BY <1>7 DEF TakesHold
  <2>2. k \in Key /\ Amount[k] = 0
    BY <1>0 DEF FreshKeys, Wires, Amount
  <2>3. Amount' = [Amount EXCEPT ![k] = h]
    <3>1. ASSUME NEW j \in Key
          PROVE  task'.hold[j].amount = IF j = k THEN h ELSE task.hold[j].amount
      BY <1>5, <2>1, <2>2
    <3> QED BY <2>2, <3>1 DEF Amount
  <2>4. Spent' = Spent + h
    BY <1>1, <1>2, <2>2, <2>3, UnitsAdd
  <2>5. Spent + h <= Cap /\ Spent \in Nat /\ h \in Nat
    BY <2>1, SpentTyped, CapAssumption DEF Fits
  <2> QED BY <1>3, <1>7, <2>4, <2>5, CapAssumption
<1>8. CASE SettlesBilled /\ wire' = wire
  <2>1. PICK b \in OpenHolds :
          \E n \in wire[b].bill .. task.hold[b].amount :
            task'.hold = [task.hold EXCEPT ![b].st = "charged", ![b].amount = n]
    BY <1>8 DEF SettlesBilled
  <2>2. PICK n \in wire[b].bill .. task.hold[b].amount :
          task'.hold = [task.hold EXCEPT ![b].st = "charged", ![b].amount = n]
    BY <2>1
  <2>3. b \in Key /\ task.hold[b] \in Row /\ wire[b] \in Request
    BY <1>5 DEF OpenHolds
  <2>4. n <= task.hold[b].amount
    BY <2>2, <2>3 DEF Row, Request
  <2>5. ASSUME NEW k \in Key PROVE task'.hold[k].amount <= task.hold[k].amount
    <3>1. CASE k = b
      <4>1. task'.hold[k].amount = n
        BY <1>5, <2>2, <2>3, <3>1 DEF Row
      <4> QED BY <2>4, <3>1, <4>1
    <3>2. CASE k # b
      <4>1. task'.hold[k] = task.hold[k] /\ task.hold[k] \in Row
        BY <1>5, <2>2, <3>2
      <4> QED BY <4>1, CapAssumption DEF Row
    <3> QED BY <3>1, <3>2
  <2>6. \A k \in Key : (Amount')[k] <= Amount[k]
    BY <2>5 DEF Amount
  <2>7. Spent' <= Spent
    BY <1>1, <1>2, <2>6, UnitsMonotone
  <2> QED BY <1>3, <1>8, <2>7
<1>9. CASE RowsSame /\ \E i \in Instance : Send(i) /\ RequestOut(flight[i].key)
  <2>1. PICK i \in Instance : Send(i) /\ RequestOut(flight[i].key)
    BY <1>9
  <2>2. flight[i].key \in Key
    BY <1>0, <2>1 DEF Send, Rounds
  <2>3. ASSUME NEW k \in Key PROVE wire'[k].bill = wire[k].bill
    <3>1. wire[k] \in Request
      BY <1>5
    <3>2. wire'[k] \in {wire[k], [wire[k] EXCEPT !.st = "sent", !.bound = task.hold[k].amount]}
      BY <1>5, <2>1, <2>2 DEF RequestOut
    <3> QED BY <3>1, <3>2 DEF Request
  <2>4. Bill' = Bill
    BY <2>3 DEF Bill
  <2> QED BY <1>2, <1>4, <1>9, <2>4
<1>10. CASE RowsSame /\ \E e \in Key : RequestEnds(e)
  <2>1. PICK e \in Key : RequestEnds(e)
    BY <1>10
  <2>2. wire[e].bill = 0
    BY <1>0, <2>1 DEF Wires, RequestEnds
  <2>3. ASSUME NEW k \in Key PROVE wire[k].bill <= wire'[k].bill
    <3>1. CASE k = e
      BY <1>1, <2>2, <3>1 DEF Bill
    <3>2. CASE k # e
      <4>1. wire'[k] = wire[k]
        BY <1>5, <2>1, <3>2 DEF RequestEnds
      <4>2. wire[k].bill \in Nat
        BY <1>5, CapAssumption DEF Request
      <4> QED BY <4>1, <4>2
    <3> QED BY <3>1, <3>2
  <2>4. \A k \in Key : Bill[k] <= (Bill')[k]
    BY <2>3 DEF Bill
  <2>5. Billed <= Billed'
    BY <1>1, <1>2, <2>4, UnitsMonotone
  <2> QED BY <1>4, <1>10, <2>5
<1> QED BY <1>3, <1>4, <1>6, <1>7, <1>8, <1>9, <1>10, StepEffect

\* Settled charges and open holds together never exceed the cap.
THEOREM CapKept == Spec => []WithinCap
<1>1. Init => WithinCap
  <2> SUFFICES ASSUME Init PROVE WithinCap
    OBVIOUS
  <2>1. CountedUnits = {}
    BY CapAssumption DEF CountedUnits, Init, NoHold
  <2> QED BY <2>1, FS_EmptySet, CapAssumption DEF Spent, WithinCap
<1>2. Inv /\ WithinCap /\ [Next]_vars => WithinCap'
  <2> SUFFICES ASSUME Inv, WithinCap, [Next]_vars PROVE Spent' <= Cap
    BY DEF WithinCap
  <2>1. Spent \in Nat /\ Spent' \in Nat /\ Spent <= Cap
    <3>1. Spent' \in Nat
      <4>1. CountedUnits' = Units(Amount')
        BY DEF CountedUnits, Units, Amount
      <4> QED BY <4>1, UnitsFinite DEF Spent
    <3> QED BY <3>1, SpentTyped DEF WithinCap
  <2> QED BY <2>1, CountMoves, CapAssumption
<1> QED BY Invariance, <1>1, <1>2, PTL DEF Spec

\* The ledger implements SpendCap: it counts at least the bills, at most the
\* cap, and lowers its count only to what was billed.
THEOREM LedgerImplements == Spec => ImplementsSpendCap
<1>1. Init => Abstract!Init
  <2> SUFFICES ASSUME Init PROVE Spent = 0 /\ Billed = 0
    BY DEF Abstract!Init
  <2>1. CountedUnits = {} /\ BilledUnits = {}
    BY CapAssumption DEF CountedUnits, BilledUnits, Init, NoHold
  <2> QED BY <2>1, FS_EmptySet DEF Spent, Billed
<1>2. Inv /\ Inv' /\ WithinCap /\ [Next]_vars => [Abstract!Next]_(Abstract!vars)
  <2> SUFFICES ASSUME Inv, Inv', WithinCap, [Next]_vars
               PROVE  Abstract!Next \/ UNCHANGED Abstract!vars
    OBVIOUS
  <2>1. Spent \in Nat /\ Billed \in Nat /\ Billed <= Spent
    BY SpentTyped, BilledWithinSpent DEF Inv
  <2>2. Spent' \in Nat /\ Billed' \in Nat /\ Billed' <= Spent'
    <3>1. Spent' = Cardinality(Units(Amount')) /\ Billed' = Cardinality(Units(Bill'))
      <4>1. CountedUnits' = Units(Amount') /\ BilledUnits' = Units(Bill')
        BY DEF CountedUnits, BilledUnits, Units, Amount, Bill
      <4> QED BY <4>1 DEF Spent, Billed
    <3>2. Amount' \in [Key -> Nat] /\ Bill' \in [Key -> Nat]
      <4>1. \A k \in Key : task'.hold[k] \in Row /\ wire'[k] \in Request
        BY DEF Inv, TypeOK, RunFile
      <4> QED BY <4>1, CapAssumption DEF Amount, Bill, Row, Request
    <3>3. \A k \in Key : (Bill')[k] <= (Amount')[k]
      BY DEF Inv, EveryBillCounts, Amount, Bill
    <3> QED BY <3>1, <3>2, <3>3, UnitsMonotone, UnitsFinite
  <2>3. CASE Spent' = Spent /\ Billed' = Billed
    BY <2>3 DEF Abstract!vars
  <2>4. CASE Billed' = Billed /\ Spent <= Spent' /\ Spent' <= Cap
    BY <2>1, <2>2, <2>4, CapAssumption DEF Abstract!Next, Abstract!Hold
  <2>5. CASE Billed' = Billed /\ Spent' <= Spent
    BY <2>1, <2>2, <2>5 DEF Abstract!Next, Abstract!Settle
  <2>6. CASE Spent' = Spent /\ Billed <= Billed'
    BY <2>1, <2>2, <2>6 DEF Abstract!Next, Abstract!Bill
  <2> QED BY <2>3, <2>4, <2>5, <2>6, CountMoves
<1> QED BY Invariance, CapKept, <1>1, <1>2, PTL DEF Spec, Abstract!Spec, ImplementsSpendCap
=============================================================================
