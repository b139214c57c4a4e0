---------------------------- MODULE MonitorProofs ----------------------------
(***************************************************************************)
(* Theorems about the position monitor, for any positions, plans, prices   *)
(* and intervals and any number of failures and user transactions: the     *)
(* types, that the throttle keeps the messages two subscriptions are at    *)
(* work with on one position apart, that an alert is saved twice within    *)
(* its repeat interval only after two were, however slow the store is, and *)
(* that no alert is lost unless a store call fails.                        *)
(***************************************************************************)
EXTENDS PositionMonitor, TLAPS

-----------------------------------------------------------------------------
(* Types *)

Rows == Row({"none", "open", "closed"})
Handlers == [stage : Stages, rest : SUBSET Positions, at : Positions \cup {Idle.at},
             last : Prices \cup {0}, age : 0..Slow, signal : Signals,
             plans : BOOLEAN, act : Actions, hits : SUBSET Plans]

TablesOK ==
  /\ row \in [Positions -> Rows]
  /\ plan \in [Plans -> {"none", "waiting", "triggered", "gone"}]
  /\ pending \in {NoChange} \cup [row : Rows, position : Positions]
CacheOK ==
  /\ cached \subseteq Positions /\ listed \subseteq Positions /\ cachedPlans \subseteq Plans
  /\ loop \in {"listing", "loading", "sleeping", "dead"} /\ wakeup \in BOOLEAN
MemoryOK ==
  /\ lastPrice \in Prices \cup {0} /\ price \in Prices
  /\ lastAction \in [Positions -> Actions] /\ issued \in [Positions -> Actions]
  /\ sinceEval \in [Positions -> 0..LongAgo] /\ sinceIssued \in [Positions -> 0..(Repeat + Slow)]
  /\ sinceAlert \in [Positions -> [Repeatable -> 0..Never]] /\ overlapped \subseteq Positions

HandlerOK ==
  /\ handler \in [Tasks -> Handlers]
  /\ \A t \in Tasks : handler[t].stage \in Evaluating => handler[t].at \in Positions

Shape == TablesOK /\ CacheOK /\ MemoryOK /\ HandlerOK

LEMMA TypeParts == Shape => TypeOK
BY DEF Shape, TablesOK, CacheOK, MemoryOK, HandlerOK, Handlers, Rows, TypeOK

LEMMA MonitorFacts ==
  /\ MinInterval \in Nat /\ MinInterval >= 1 /\ Repeat \in Nat /\ Repeat >= 1 /\ Slow \in Nat
  /\ LongAgo = MinInterval + Slow /\ Never = Repeat + Slow + 1
  /\ Idle \in Handlers /\ Idle.stage = "idle"
  /\ OpenRows \subseteq Rows /\ Closed \in Rows /\ Unopened \in Rows
<1>1. /\ MinInterval \in Nat /\ MinInterval >= 1 /\ Repeat \in Nat /\ Repeat >= 1 /\ Slow \in Nat
      /\ LongAgo = MinInterval + Slow /\ Never = Repeat + Slow + 1
  BY BoundsAssumption DEF Never, LongAgo
<1>2. (CHOOSE s \in Signals : TRUE) \in Signals
  BY InputsAssumption
<1>3. Idle \in Handlers /\ Idle.stage = "idle"
  BY <1>1, <1>2 DEF Idle, Handlers, Stages, Actions
<1>4. OpenRows \subseteq Rows /\ Closed \in Rows /\ Unopened \in Rows
  BY InputsAssumption DEF Rows, Row, Closed, Unopened
<1> QED BY <1>1, <1>3, <1>4

LEMMA TablesStep ==
  ASSUME Shape, [Next]_vars
  PROVE  TablesOK'
<1> USE MonitorFacts DEF Shape
<1>1. ASSUME NEW i \in Positions, NEW x \in OpenRows \cup {Closed}, BeginChange(i, x)
      PROVE  TablesOK'
  BY <1>1 DEF BeginChange, TablesOK
<1>2. CASE CommitChange
  <2>1. pending.row \in Rows /\ pending.position \in Positions
    BY <1>2 DEF CommitChange, TablesOK
  <2> QED BY <1>2, <2>1 DEF CommitChange, TablesOK
<1>3. ASSUME NEW rows \in [Positions -> Rows], Silently(rows)
      PROVE  TablesOK'
  BY <1>3 DEF Silently, TablesOK
<1>4. ASSUME NEW i \in Positions, ProtectPosition(i) \/ \E x \in OpenRows : ImportPosition(i, x)
      PROVE  TablesOK'
  <2>1. [row EXCEPT ![i] = [@ EXCEPT !.protected = TRUE, !.levels = "all"]] \in [Positions -> Rows]
    BY DEF TablesOK, Rows, Row
  <2>2. \A x \in OpenRows : [row EXCEPT ![i] = x] \in [Positions -> Rows]
    BY DEF TablesOK
  <2> QED BY <1>3, <1>4, <2>1, <2>2 DEF ProtectPosition, ImportPosition
<1>5. ASSUME NEW agrees \in BOOLEAN, ReconcileHoldings(agrees)
      PROVE  TablesOK'
  <2>1. \A i \in Positions : [row[i] EXCEPT !.reconciled = agrees] \in Rows
    BY DEF TablesOK, Rows, Row
  <2>2. [i \in Positions |-> IF i \in Open THEN [row[i] EXCEPT !.reconciled = agrees] ELSE row[i]]
          \in [Positions -> Rows]
    BY <2>1 DEF TablesOK
  <2> QED BY <1>3, <1>5, <2>2 DEF ReconcileHoldings
<1>6. ASSUME NEW p \in Plans, PlanAppears(p) \/ PlanLeaves(p)
      PROVE  TablesOK'
  BY <1>6 DEF PlanAppears, PlanLeaves, TablesOK
<1>7. ASSUME NEW t \in Tasks, CommitHit(t)
      PROVE  TablesOK'
  BY <1>7 DEF CommitHit, TablesOK
<1>8. CASE UNCHANGED <<row, plan, pending>>
  BY <1>8 DEF TablesOK
<1>9. ASSUME \/ CacheStep \/ RefreshFails \/ CacheTaskDies \/ Tick \/ UNCHANGED vars
             \/ \E x \in Prices : MarketMoves(x)
             \/ \E t \in Tasks : \/ StoreFails(t) \/ \E s \in Signals : Receive(t, s)
                                 \/ \E i \in Positions : NextPosition(t, i)
                                 \/ NoMorePositions(t) \/ Evaluate(t) \/ Compare(t) \/ AppendEvent(t) \/ QueueAlert(t)
                                 \/ \E stale \in BOOLEAN, expired \in SUBSET Plans : CheckTrigger(t, stale, expired)
                                 \/ RecordHit(t) \/ SkipHit(t)
      PROVE  UNCHANGED <<row, plan, pending>>
  BY <1>9 DEF CacheStep, ListPositions, LoadCache, WakeLoop, RefreshFails, CacheTaskDies, Tick, vars, tables, MarketMoves, StoreFails,
              Receive, NextPosition, NoMorePositions, Evaluate, Compare, AppendEvent, QueueAlert, CheckTrigger,
              RecordHit, SkipHit
<1> QED BY <1>1, <1>2, <1>4, <1>5, <1>6, <1>7, <1>8, <1>9 DEF Next, HandlerStep

LEMMA CacheStepTypes ==
  ASSUME Shape, [Next]_vars
  PROVE  CacheOK'
<1> USE DEF Shape
<1>1. CASE Invalidate
  BY <1>1 DEF Invalidate, CacheOK
<1>2. CASE CacheStep \/ RefreshFails \/ CacheTaskDies
  BY <1>2 DEF CacheStep, ListPositions, LoadCache, WakeLoop, RefreshFails, CacheTaskDies, CacheOK, Open, Waiting
<1>3. ASSUME NEW t \in Tasks, SkipHit(t) \/ CommitHit(t)
      PROVE  CacheOK'
  BY <1>3 DEF SkipHit, CommitHit, CacheOK
<1>4. CASE UNCHANGED cache
  BY <1>4 DEF cache, CacheOK
<1>5. ASSUME \/ \E i \in Positions, x \in OpenRows \cup {Closed} : BeginChange(i, x)
             \/ \E t \in Tasks : RecordHit(t)
      PROVE  Invalidate
  BY <1>5 DEF BeginChange, RecordHit
<1>6. ASSUME \/ \E i \in Positions : ProtectPosition(i) \/ \E x \in OpenRows : ImportPosition(i, x)
             \/ \E agrees \in BOOLEAN : ReconcileHoldings(agrees)
             \/ CommitChange \/ Tick \/ UNCHANGED vars
             \/ \E p \in Plans : PlanAppears(p) \/ PlanLeaves(p)
             \/ \E x \in Prices : MarketMoves(x)
             \/ \E t \in Tasks : \/ StoreFails(t) \/ \E s \in Signals : Receive(t, s)
                                 \/ \E i \in Positions : NextPosition(t, i)
                                 \/ NoMorePositions(t) \/ Evaluate(t) \/ Compare(t) \/ AppendEvent(t) \/ QueueAlert(t)
                                 \/ \E stale \in BOOLEAN, expired \in SUBSET Plans : CheckTrigger(t, stale, expired)
      PROVE  UNCHANGED cache
  BY <1>6 DEF ProtectPosition, ImportPosition, ReconcileHoldings, Silently, CommitChange, Tick, vars, PlanAppears,
              PlanLeaves, MarketMoves, StoreFails, Receive, NextPosition, NoMorePositions, Evaluate, Compare,
              AppendEvent, QueueAlert, CheckTrigger
<1> QED BY <1>1, <1>2, <1>3, <1>4, <1>5, <1>6 DEF Next, HandlerStep

\* The fields of a handler that its current stage makes use of.
LEMMA HandlerParts ==
  ASSUME HandlerOK, NEW t \in Tasks
  PROVE  /\ handler[t] \in Handlers
         /\ handler[t].stage \in Evaluating => handler[t].at \in Positions
         /\ handler[t].act \in Actions /\ handler[t].last \in Prices \cup {0}
         /\ handler[t].rest \subseteq Positions /\ handler[t].hits \subseteq Plans
         /\ handler[t].age \in 0..Slow
BY DEF HandlerOK, Handlers

\* Ages count up to the interval they are compared with.
LEMMA Ageing ==
  ASSUME NEW n \in Nat, NEW most \in Nat
  PROVE  Capped(n + 1, most) \in 0..most
BY DEF Capped

LEMMA MemoryStep ==
  ASSUME Shape, [Next]_vars
  PROVE  MemoryOK'
<1> USE MonitorFacts DEF Shape
<1>1. ASSUME NEW t \in Tasks, NEW i \in Positions, NextPosition(t, i)
      PROVE  MemoryOK'
  <2>1. handler[t].age \in 0..LongAgo
    BY HandlerParts
  <2>2. sinceEval' \in [Positions -> 0..LongAgo]
    BY <1>1, <2>1 DEF NextPosition, MemoryOK
  <2> QED BY <1>1, <2>2 DEF NextPosition, MemoryOK
<1>2. ASSUME NEW t \in Tasks, AppendEvent(t)
      PROVE  MemoryOK'
  <2>1. handler[t].act \in Actions /\ "NONE" \in Actions
    BY HandlerParts DEF Actions
  <2> QED BY <1>2, <2>1 DEF AppendEvent, MemoryOK
<1>3. ASSUME NEW t \in Tasks, QueueAlert(t)
      PROVE  MemoryOK'
  <2>1. handler[t].act \in Actions /\ handler[t].age \in 0..Never /\ handler[t].age \in 0..(Repeat + Slow)
    BY HandlerParts
  <2>2. sinceAlert' \in [Positions -> [Repeatable -> 0..Never]]
    BY <1>3, <2>1 DEF QueueAlert, MemoryOK, AlertStamp
  <2>3. issued' \in [Positions -> Actions] /\ sinceIssued' \in [Positions -> 0..(Repeat + Slow)]
    BY <1>3, <2>1 DEF QueueAlert, MemoryOK
  <2> QED BY <1>3, <2>2, <2>3 DEF QueueAlert, MemoryOK
<1>4. ASSUME NEW t \in Tasks, NEW stale \in BOOLEAN, NEW expired \in SUBSET Plans, CheckTrigger(t, stale, expired)
      PROVE  MemoryOK'
  <2>1. handler[t].last \in Prices \cup {0}
    BY HandlerParts
  <2> QED BY <1>4, <2>1 DEF CheckTrigger, MemoryOK, memory, alerts
<1>5. ASSUME NEW x \in Prices, MarketMoves(x)
      PROVE  MemoryOK'
  BY <1>5 DEF MarketMoves, MemoryOK, memory, alerts
<1>6. CASE Tick
  <2>1. \A i \in Positions : Capped(sinceEval[i] + 1, LongAgo) \in 0..LongAgo
    BY Ageing DEF MemoryOK
  <2>2. \A i \in Positions : Capped(sinceIssued[i] + 1, Repeat + Slow) \in 0..(Repeat + Slow)
    BY Ageing DEF MemoryOK
  <2>3. \A i \in Positions, a \in Repeatable :
          (IF sinceAlert[i][a] = Never THEN Never ELSE Capped(sinceAlert[i][a] + 1, Repeat + Slow)) \in 0..Never
    <3> SUFFICES ASSUME NEW i \in Positions, NEW a \in Repeatable
                 PROVE  (IF sinceAlert[i][a] = Never THEN Never ELSE Capped(sinceAlert[i][a] + 1, Repeat + Slow)) \in 0..Never
      OBVIOUS
    <3>1. sinceAlert[i][a] \in Nat
      BY DEF MemoryOK
    <3>2. Capped(sinceAlert[i][a] + 1, Repeat + Slow) \in 0..(Repeat + Slow)
      BY <3>1, Ageing
    <3> QED BY <3>2 DEF Never
  <2> QED BY <1>6, <2>1, <2>2, <2>3 DEF Tick, MemoryOK
<1>7. CASE UNCHANGED <<lastPrice, price, memory, alerts>>
  BY <1>7 DEF memory, alerts, MemoryOK
<1>8. ASSUME \/ \E i \in Positions, x \in OpenRows \cup {Closed} : BeginChange(i, x)
             \/ \E i \in Positions : ProtectPosition(i) \/ \E x \in OpenRows : ImportPosition(i, x)
             \/ \E agrees \in BOOLEAN : ReconcileHoldings(agrees)
             \/ CommitChange \/ CacheStep \/ RefreshFails \/ CacheTaskDies \/ UNCHANGED vars
             \/ \E p \in Plans : PlanAppears(p) \/ PlanLeaves(p)
             \/ \E t \in Tasks : \/ StoreFails(t) \/ \E s \in Signals : Receive(t, s)
                                 \/ NoMorePositions(t) \/ Evaluate(t) \/ Compare(t)
                                 \/ RecordHit(t) \/ SkipHit(t) \/ CommitHit(t)
      PROVE  UNCHANGED <<lastPrice, price, memory, alerts>>
  BY <1>8 DEF BeginChange, ProtectPosition, ImportPosition, ReconcileHoldings, Silently, CommitChange, CacheStep,
              ListPositions, LoadCache, WakeLoop, RefreshFails, CacheTaskDies, vars, PlanAppears, PlanLeaves, StoreFails, Receive,
              NoMorePositions, Evaluate, Compare, RecordHit, SkipHit, CommitHit
<1> QED BY <1>1, <1>2, <1>3, <1>4, <1>5, <1>6, <1>7, <1>8 DEF Next, HandlerStep

LEMMA HandlerReplaced ==
  ASSUME HandlerOK, NEW t \in Tasks, NEW h \in Handlers,
         h.stage \in Evaluating => h.at \in Positions,
         handler' = [handler EXCEPT ![t] = h]
  PROVE  HandlerOK'
BY DEF HandlerOK

LEMMA HandlerGoes ==
  ASSUME HandlerOK, NEW t \in Tasks, NEW s \in Stages,
         s \in Evaluating => handler[t].at \in Positions,
         Goes(t, s)
  PROVE  HandlerOK'
<1> DEFINE h == [handler[t] EXCEPT !.stage = s]
<1>1. h \in Handlers /\ h.stage = s /\ h.at = handler[t].at
  BY HandlerParts DEF Handlers
<1>2. handler' = [handler EXCEPT ![t] = h]
  BY DEF Goes
<1> HIDE DEF h
<1> QED BY <1>1, <1>2, HandlerReplaced

\* After a hit the handler goes on with the next one or is idle.
LEMMA HandlerAfter ==
  ASSUME HandlerOK, NEW t \in Tasks, handler' = After(t)
  PROVE  HandlerOK'
<1> DEFINE left == handler[t].hits \ {Hit(t)}
           more == [handler[t] EXCEPT !.stage = "record", !.hits = left]
           h == IF left = {} THEN Idle ELSE more
<1>1. more \in Handlers /\ more.stage = "record"
  BY HandlerParts DEF Handlers, Stages
<1>2. handler' = [handler EXCEPT ![t] = h]
  BY DEF After
<1>3. h \in Handlers /\ h.stage \notin Evaluating
  BY <1>1, MonitorFacts DEF Evaluating
<1> HIDE DEF h
<1> QED BY <1>2, <1>3, HandlerReplaced

\* A tick ages the messages in handling.
LEMMA HandlerTick ==
  ASSUME HandlerOK, Tick
  PROVE  /\ HandlerOK'
         /\ \A t \in Tasks : /\ handler'[t].stage = handler[t].stage /\ handler'[t].at = handler[t].at
                             /\ handler'[t].act = handler[t].act
                             /\ handler[t].stage # "idle" => handler'[t].age = handler[t].age + 1
<1> USE MonitorFacts
<1>1. ASSUME NEW t \in Tasks
      PROVE  /\ handler'[t] \in Handlers
             /\ handler'[t].stage = handler[t].stage /\ handler'[t].at = handler[t].at
             /\ handler'[t].act = handler[t].act
             /\ handler[t].stage # "idle" => handler'[t].age = handler[t].age + 1
  <2>1. CASE handler[t] = Idle
    BY <2>1 DEF Tick
  <2>2. CASE handler[t] # Idle
    <3>1. handler[t].age \in 0..Slow /\ handler[t].age < Slow /\ handler[t] \in Handlers
      BY <2>2 DEF Tick, HandlerOK, Handlers
    <3>2. handler'[t] = [handler[t] EXCEPT !.age = handler[t].age + 1]
      BY <2>2 DEF Tick
    <3>3. handler[t].age + 1 \in 0..Slow
      BY <3>1
    <3> QED BY <3>1, <3>2, <3>3 DEF Handlers
  <2> QED BY <2>1, <2>2
<1>2. handler' \in [Tasks -> Handlers]
  <2> DEFINE aged(t) == IF handler[t] = Idle THEN Idle ELSE [handler[t] EXCEPT !.age = @ + 1]
  <2>1. handler' = [t \in Tasks |-> aged(t)]
    BY DEF Tick
  <2> HIDE DEF aged
  <2>2. \A t \in Tasks : aged(t) \in Handlers
    BY <1>1, <2>1
  <2> QED BY <2>1, <2>2
<1> QED BY <1>1, <1>2 DEF HandlerOK

LEMMA HandlerStepTypes ==
  ASSUME Shape, [Next]_vars
  PROVE  HandlerOK'
<1> USE MonitorFacts DEF Shape
<1>1. ASSUME NEW t \in Tasks, NEW s \in Signals, Receive(t, s)
      PROVE  HandlerOK'
  <2> DEFINE h == [Idle EXCEPT !.stage = "next", !.rest = cached, !.last = price, !.signal = s,
                               !.plans = t = "trade" /\ cachedPlans # {}]
  <2>1. h \in Handlers /\ h.stage = "next"
    BY DEF Handlers, Stages, Idle, CacheOK, MemoryOK
  <2>2. handler' = [handler EXCEPT ![t] = h]
    BY <1>1 DEF Receive
  <2> HIDE DEF h
  <2> QED BY <2>1, <2>2, HandlerReplaced DEF Evaluating
<1>2. ASSUME NEW t \in Tasks, NEW i \in Positions, NextPosition(t, i)
      PROVE  HandlerOK'
  <2> DEFINE h == [handler[t] EXCEPT !.rest = @ \ {i}, !.at = i,
                                     !.stage = IF Throttled(t, i) THEN "next" ELSE "evaluate"]
  <2>1. h \in Handlers /\ h.at = i
    BY HandlerParts DEF Handlers, Stages
  <2>2. handler' = [handler EXCEPT ![t] = h]
    BY <1>2 DEF NextPosition
  <2> HIDE DEF h
  <2> QED BY <2>1, <2>2, HandlerReplaced
<1>3. ASSUME NEW t \in Tasks, NoMorePositions(t)
      PROVE  HandlerOK'
  <2> DEFINE h == IF handler[t].plans THEN [handler[t] EXCEPT !.stage = "trigger"] ELSE Idle
  <2>1. h \in Handlers /\ h.stage \notin Evaluating
    BY HandlerParts DEF Handlers, Stages, Evaluating
  <2>2. handler' = [handler EXCEPT ![t] = h]
    BY <1>3 DEF NoMorePositions
  <2> HIDE DEF h
  <2> QED BY <2>1, <2>2, HandlerReplaced
<1>4. ASSUME NEW t \in Tasks, Evaluate(t)
      PROVE  HandlerOK'
  <2> DEFINE a == ActionFor(row[handler[t].at], handler[t].last, handler[t].signal)
             h == [handler[t] EXCEPT !.stage = "compare", !.act = a]
  <2>1. a \in Actions
    BY DEF ActionFor, Actions, Actionable, Repeatable
  <2> HIDE DEF a
  <2>2. h \in Handlers /\ h.at = handler[t].at
    BY <2>1, HandlerParts DEF Handlers, Stages
  <2>3. handler' = [handler EXCEPT ![t] = h]
    BY <1>4 DEF Evaluate, a
  <2>4. h.at \in Positions
    BY <1>4, <2>2, HandlerParts DEF Evaluate, Evaluating
  <2> HIDE DEF h
  <2> QED BY <2>2, <2>3, <2>4, HandlerReplaced
<1>5. ASSUME NEW t \in Tasks, Compare(t) \/ AppendEvent(t) \/ QueueAlert(t)
      PROVE  HandlerOK'
  <2>1. handler[t].at \in Positions
    BY <1>5, HandlerParts DEF Compare, AppendEvent, QueueAlert, Evaluating
  <2>2. Goes(t, "append") \/ Goes(t, "queue") \/ Goes(t, "next")
    BY <1>5 DEF Compare, AppendEvent, QueueAlert
  <2> QED BY <2>1, <2>2, HandlerGoes DEF Stages
<1>6. ASSUME NEW t \in Tasks, StoreFails(t)
      PROVE  HandlerOK'
  <2>1. handler' = [handler EXCEPT ![t] = Idle] /\ Idle.stage \notin Evaluating
    BY <1>6 DEF StoreFails, Evaluating
  <2> QED BY <2>1, HandlerReplaced
<1>7. ASSUME NEW t \in Tasks, NEW stale \in BOOLEAN, NEW expired \in SUBSET Plans, CheckTrigger(t, stale, expired)
      PROVE  HandlerOK'
  <2> DEFINE hit == [handler[t] EXCEPT !.stage = "record", !.hits = cachedPlans \ expired]
  <2>1. hit \in Handlers /\ hit.stage = "record"
    BY HandlerParts DEF Handlers, Stages, CacheOK
  <2>2. handler' = [handler EXCEPT ![t] = hit] \/ handler' = [handler EXCEPT ![t] = Idle]
    BY <1>7 DEF CheckTrigger
  <2> HIDE DEF hit
  <2> QED BY <2>1, <2>2, HandlerReplaced DEF Evaluating
<1>8. ASSUME NEW t \in Tasks, RecordHit(t)
      PROVE  HandlerOK'
  BY <1>8, HandlerGoes DEF RecordHit, Stages, Evaluating
<1>9. ASSUME NEW t \in Tasks, SkipHit(t) \/ CommitHit(t)
      PROVE  HandlerOK'
  BY <1>9, HandlerAfter DEF SkipHit, CommitHit
<1>10. CASE UNCHANGED handler
  BY <1>10 DEF HandlerOK
<1>11. ASSUME \/ \E i \in Positions, x \in OpenRows \cup {Closed} : BeginChange(i, x)
              \/ \E i \in Positions : ProtectPosition(i) \/ \E x \in OpenRows : ImportPosition(i, x)
              \/ \E agrees \in BOOLEAN : ReconcileHoldings(agrees)
              \/ CommitChange \/ CacheStep \/ RefreshFails \/ CacheTaskDies \/ UNCHANGED vars
              \/ \E p \in Plans : PlanAppears(p) \/ PlanLeaves(p)
              \/ \E x \in Prices : MarketMoves(x)
       PROVE  UNCHANGED handler
  BY <1>11 DEF BeginChange, ProtectPosition, ImportPosition, ReconcileHoldings, Silently, CommitChange, CacheStep,
               ListPositions, LoadCache, WakeLoop, RefreshFails, CacheTaskDies, vars, PlanAppears, PlanLeaves, MarketMoves
<1>12. CASE Tick
  BY <1>12, HandlerTick
<1> QED BY <1>1, <1>2, <1>3, <1>4, <1>5, <1>6, <1>7, <1>8, <1>9, <1>10, <1>11, <1>12 DEF Next, HandlerStep

LEMMA ShapeInit == Init => Shape
<1> SUFFICES ASSUME Init PROVE Shape
  OBVIOUS
<1> USE MonitorFacts DEF Init
<1>1. TablesOK /\ CacheOK
  BY DEF TablesOK, CacheOK
<1>2. MemoryOK
  BY DEF MemoryOK, Actions, Never
<1>3. HandlerOK
  BY DEF HandlerOK, Evaluating
<1> QED BY <1>1, <1>2, <1>3 DEF Shape

LEMMA ShapeStep == Shape /\ [Next]_vars => Shape'
BY TablesStep, CacheStepTypes, MemoryStep, HandlerStepTypes DEF Shape

\* Rows, the cache, the memory of past alerts and the messages being handled are of
\* their types, whatever the stores and the user do.
THEOREM MonitorTypeCorrect == Spec => []TypeOK
BY ShapeInit, ShapeStep, TypeParts, PTL DEF Spec

-----------------------------------------------------------------------------
(* The throttle and the alerts that repeat *)

\* A position two tasks are at work on is among the overlapped ones.
Apart == \A t, u \in Tasks : \A i \in Positions : t # u /\ AtWorkOn(t, i) /\ AtWorkOn(u, i) => i \in overlapped

\* No message a task is at work with is later than the one that evaluated last.
Timed == \A t \in Tasks : handler[t].stage \in Evaluating => sinceEval[handler[t].at] <= handler[t].age

\* What a task at work alone on its position found in its memory still holds.
AtWork(t) ==
  LET h == handler[t]
      i == h.at
  IN  /\ h.stage \in {"compare", "append", "queue"} => h.act # "NONE"
      /\ i \notin overlapped =>
           /\ h.stage = "append" => lastAction[i] # h.act
           /\ h.stage = "queue" => lastAction[i] = h.act
           /\ h.stage = "queue" /\ issued[i] = h.act => RepeatDue(i, h.act, h.age)

\* The memory of a position agrees with the alerts that were saved for it.
Remembered(i) ==
  i \notin overlapped =>
    /\ issued[i] \in {"NONE", lastAction[i]}
    /\ \A a \in Repeatable : issued[i] = a => sinceAlert[i][a] = sinceIssued[i]

Accurate ==
  /\ Apart /\ Timed /\ ThrottleSeparates
  /\ \A t \in Tasks : AtWork(t)
  /\ \A i \in Positions : Remembered(i)

\* A handler is not disturbed by a step that leaves it and its position alone, or that
\* another task takes on a position which is then overlapped.
LEMMA Undisturbed ==
  ASSUME NEW t \in Tasks, AtWork(t), handler'[t] = handler[t],
         handler[t].stage \in Evaluating =>
           LET i == handler[t].at
           IN  \/ i \in overlapped'
               \/ /\ i \notin overlapped
                  /\ lastAction'[i] = lastAction[i]
                  /\ issued'[i] = issued[i] /\ sinceAlert'[i] = sinceAlert[i]
  PROVE  AtWork(t)'
BY DEF AtWork, RepeatDue, Evaluating

\* A task that is at work nowhere new disturbs neither the separation nor the times.
LEMMA Stays ==
  ASSUME Accurate, HandlerOK, NEW t \in Tasks, NEW h,
         h.stage \in Evaluating =>
           handler[t].stage \in Evaluating /\ h.at = handler[t].at /\ h.age = handler[t].age,
         handler' = [handler EXCEPT ![t] = h], sinceEval' = sinceEval
  PROVE  /\ Timed' /\ ThrottleSeparates'
         /\ overlapped \subseteq overlapped' => Apart'
<1>1. \A u \in Tasks : u # t => handler'[u] = handler[u]
  BY DEF HandlerOK
<1>2. handler'[t] = h
  BY DEF HandlerOK
<1>3. \A u \in Tasks : handler'[u].stage \in Evaluating =>
        /\ handler[u].stage \in Evaluating
        /\ handler'[u].at = handler[u].at /\ handler'[u].age = handler[u].age
  BY <1>1, <1>2
<1>4. \A u \in Tasks : \A i \in Positions : AtWorkOn(u, i)' => AtWorkOn(u, i)
  BY <1>3 DEF AtWorkOn
<1>5. Timed'
  BY <1>3 DEF Accurate, Timed
<1>6. ThrottleSeparates'
  <2> SUFFICES ASSUME NEW v \in Tasks, NEW u \in Tasks, NEW i \in Positions, v # u,
                      AtWorkOn(v, i)', AtWorkOn(u, i)'
               PROVE  \/ handler'[v].age - handler'[u].age >= MinInterval
                      \/ handler'[u].age - handler'[v].age >= MinInterval
    BY DEF ThrottleSeparates
  <2>1. handler'[v].age = handler[v].age /\ handler'[u].age = handler[u].age
    BY <1>3 DEF AtWorkOn
  <2> QED BY <1>4, <2>1 DEF Accurate, ThrottleSeparates
<1>7. ASSUME overlapped \subseteq overlapped' PROVE Apart'
  BY <1>4, <1>7 DEF Accurate, Apart
<1> QED BY <1>5, <1>6, <1>7

\* A task that is no longer at work, and its position, need nothing.
LEMMA Withdrawn ==
  ASSUME Accurate, HandlerOK, NEW t \in Tasks, NEW h \in Handlers, h.stage \notin Evaluating,
         handler' = [handler EXCEPT ![t] = h], UNCHANGED <<memory, alerts>>
  PROVE  Accurate'
<1> USE DEF HandlerOK, memory, alerts
<1>1. Apart' /\ Timed' /\ ThrottleSeparates'
  BY Stays
<1>2. ASSUME NEW u \in Tasks
      PROVE  AtWork(u)'
  <2>1. CASE u = t
    BY <2>1 DEF AtWork, Evaluating
  <2>2. CASE u # t
    BY <2>2, Undisturbed DEF Accurate
  <2> QED BY <2>1, <2>2
<1>3. ASSUME NEW i \in Positions
      PROVE  Remembered(i)'
  BY DEF Remembered, Accurate
<1> QED BY <1>1, <1>2, <1>3 DEF Accurate

LEMMA ActionKnown ==
  ASSUME NEW x, NEW last, NEW signal
  PROVE  ActionFor(x, last, signal) \in Actions \ {"NONE"}
BY DEF ActionFor, Actions, Actionable, Repeatable

\* A task comes to a position another one is at work on only with a message later by the
\* interval, and the position is overlapped from then on.
LEMMA AccurateNextPosition ==
  ASSUME Shape, Accurate, NEW t \in Tasks, NEW i \in Positions, NextPosition(t, i)
  PROVE  Accurate'
<1> USE DEF Shape, HandlerOK
<1> DEFINE h == [handler[t] EXCEPT !.rest = @ \ {i}, !.at = i,
                                   !.stage = IF Throttled(t, i) THEN "next" ELSE "evaluate"]
           age == handler[t].age
<1>1. /\ h \in Handlers /\ h.at = i /\ h.stage = IF Throttled(t, i) THEN "next" ELSE "evaluate"
      /\ h.age = age
  BY HandlerParts DEF Handlers, Stages
<1>2. handler' = [handler EXCEPT ![t] = h] /\ handler[t].stage \notin Evaluating
  BY DEF NextPosition, Evaluating
<1> HIDE DEF h
<1>3. CASE Throttled(t, i)
  <2>1. UNCHANGED <<memory, alerts>> /\ h.stage \notin Evaluating
    BY <1>1, <1>3 DEF NextPosition, memory, alerts, Evaluating
  <2> QED BY <1>1, <1>2, <2>1, Withdrawn
<1>4. CASE ~Throttled(t, i)
  <2>1. /\ h.stage = "evaluate" /\ sinceEval' = [sinceEval EXCEPT ![i] = age]
        /\ overlapped' = (IF \E u \in Tasks \ {t} : AtWorkOn(u, i) THEN overlapped \cup {i} ELSE overlapped)
        /\ UNCHANGED <<lastAction, sinceAlert, issued, sinceIssued>>
    BY <1>1, <1>4 DEF NextPosition
  <2>2. \A u \in Tasks : u # t => handler'[u] = handler[u]
    BY <1>2
  <2>3. handler'[t] = h
    BY <1>2
  <2>4. age \in Nat /\ sinceEval[i] \in Nat /\ sinceEval[i] - age >= MinInterval
    BY <1>4, HandlerParts, MonitorFacts DEF Throttled, MemoryOK
  <2>5. ASSUME NEW u \in Tasks, u # t, AtWorkOn(u, i)
        PROVE  handler[u].age \in Nat /\ handler[u].age - age >= MinInterval
    <3>1. sinceEval[i] <= handler[u].age /\ handler[u].age \in Nat
      BY <2>5, HandlerParts DEF AtWorkOn, Accurate, Timed
    <3> QED BY <2>4, <3>1, MonitorFacts
  <2>6. Timed'
    <3> SUFFICES ASSUME NEW u \in Tasks, handler'[u].stage \in Evaluating
                 PROVE  sinceEval'[handler'[u].at] <= handler'[u].age
      BY DEF Timed
    <3>1. CASE u = t
      BY <1>1, <2>1, <2>3, <2>4, <3>1 DEF MemoryOK
    <3>2. CASE u # t /\ handler[u].at = i
      <4>1. AtWorkOn(u, i)
        BY <2>2, <3>2 DEF AtWorkOn
      <4>2. sinceEval'[i] = age
        BY <2>1 DEF MemoryOK
      <4> QED BY <2>2, <2>4, <2>5, <3>2, <4>1, <4>2, MonitorFacts
    <3>3. CASE u # t /\ handler[u].at # i
      <4>1. handler[u].at \in Positions
        BY <2>2, <3>3, HandlerParts
      <4> QED BY <2>1, <2>2, <3>3, <4>1 DEF Accurate, Timed, MemoryOK
    <3> QED BY <3>1, <3>2, <3>3
  <2>7. \A u \in Tasks : \A j \in Positions : u # t => (AtWorkOn(u, j)' <=> AtWorkOn(u, j))
    BY <2>2 DEF AtWorkOn
  <2>8. \A j \in Positions : AtWorkOn(t, j)' => j = i
    BY <1>1, <2>3 DEF AtWorkOn
  <2>9. ThrottleSeparates'
    <3> SUFFICES ASSUME NEW v \in Tasks, NEW u \in Tasks, NEW j \in Positions, v # u,
                        AtWorkOn(v, j)', AtWorkOn(u, j)'
                 PROVE  \/ handler'[v].age - handler'[u].age >= MinInterval
                        \/ handler'[u].age - handler'[v].age >= MinInterval
      BY DEF ThrottleSeparates
    <3>1. CASE v = t
      BY <1>1, <2>2, <2>3, <2>5, <2>7, <2>8, <3>1
    <3>2. CASE u = t
      BY <1>1, <2>2, <2>3, <2>5, <2>7, <2>8, <3>2
    <3>3. CASE v # t /\ u # t
      BY <2>2, <2>7, <3>3 DEF Accurate, ThrottleSeparates
    <3> QED BY <3>1, <3>2, <3>3
  <2>10. Apart'
    <3> SUFFICES ASSUME NEW v \in Tasks, NEW u \in Tasks, NEW j \in Positions, v # u,
                        AtWorkOn(v, j)', AtWorkOn(u, j)'
                 PROVE  j \in overlapped'
      BY DEF Apart
    <3>1. CASE v = t \/ u = t
      BY <2>1, <2>7, <2>8, <3>1
    <3>2. CASE v # t /\ u # t
      BY <2>1, <2>7, <3>2 DEF Accurate, Apart
    <3> QED BY <3>1, <3>2
  <2>11. ASSUME NEW u \in Tasks
         PROVE  AtWork(u)'
    <3>1. CASE u = t
      BY <1>1, <2>1, <2>3, <3>1 DEF AtWork
    <3>2. CASE u # t
      <4>1. AtWork(u) /\ handler'[u] = handler[u]
        BY <2>2, <3>2 DEF Accurate
      <4>2. overlapped \subseteq overlapped'
        BY <2>1
      <4> QED BY <2>1, <4>1, <4>2, Undisturbed
    <3> QED BY <3>1, <3>2
  <2>12. ASSUME NEW j \in Positions
         PROVE  Remembered(j)'
    <3>1. j \notin overlapped' => j \notin overlapped
      BY <2>1
    <3> QED BY <2>1, <3>1 DEF Accurate, Remembered
  <2> QED BY <2>6, <2>9, <2>10, <2>11, <2>12 DEF Accurate
<1> QED BY <1>3, <1>4

LEMMA AccurateEvaluate ==
  ASSUME Shape, Accurate, NEW t \in Tasks, Evaluate(t)
  PROVE  Accurate'
<1> USE DEF Shape, HandlerOK
<1> DEFINE a == ActionFor(row[handler[t].at], handler[t].last, handler[t].signal)
           h == [handler[t] EXCEPT !.stage = "compare", !.act = a]
<1>1. a # "NONE"
  BY ActionKnown
<1> HIDE DEF a
<1>2. h.at = handler[t].at /\ h.stage = "compare" /\ h.act = a /\ h.age = handler[t].age
  BY HandlerParts DEF Handlers
<1>3. handler' = [handler EXCEPT ![t] = h] /\ UNCHANGED <<memory, alerts>> /\ handler[t].stage = "evaluate"
  BY DEF Evaluate, a
<1> HIDE DEF h
<1>4. Apart' /\ Timed' /\ ThrottleSeparates'
  BY <1>2, <1>3, Stays DEF Evaluating, memory, alerts
<1>5. ASSUME NEW u \in Tasks
      PROVE  AtWork(u)'
  <2>1. CASE u = t
    BY <1>1, <1>2, <1>3, <2>1 DEF AtWork
  <2>2. CASE u # t
    BY <1>3, <2>2, Undisturbed DEF Accurate, memory, alerts
  <2> QED BY <2>1, <2>2
<1>6. ASSUME NEW i \in Positions
      PROVE  Remembered(i)'
  BY <1>3 DEF Accurate, Remembered, memory, alerts
<1> QED BY <1>4, <1>5, <1>6 DEF Accurate

LEMMA AccurateCompare ==
  ASSUME Shape, Accurate, NEW t \in Tasks, Compare(t)
  PROVE  Accurate'
<1> USE DEF Shape, HandlerOK
<1> DEFINE i == handler[t].at
           next == IF Changed(i, handler[t].act) THEN "append"
                   ELSE IF RepeatDue(i, handler[t].act, handler[t].age) THEN "queue" ELSE "next"
           h == [handler[t] EXCEPT !.stage = next]
<1>1. h \in Handlers /\ h.at = i /\ h.act = handler[t].act /\ h.stage = next /\ h.age = handler[t].age
  BY HandlerParts DEF Handlers, Stages
<1>2. handler' = [handler EXCEPT ![t] = h] /\ UNCHANGED <<memory, alerts>> /\ handler[t].stage = "compare"
  BY DEF Compare, Goes
<1> HIDE DEF h
<1>4. Apart' /\ Timed' /\ ThrottleSeparates'
  BY <1>1, <1>2, Stays DEF Evaluating, memory, alerts
<1>5. ASSUME NEW u \in Tasks
      PROVE  AtWork(u)'
  <2>1. CASE u = t
    BY <1>1, <1>2, <2>1 DEF Accurate, AtWork, memory, alerts, Changed, RepeatDue
  <2>2. CASE u # t
    BY <1>2, <2>2, Undisturbed DEF Accurate, memory, alerts
  <2> QED BY <2>1, <2>2
<1>6. ASSUME NEW j \in Positions
      PROVE  Remembered(j)'
  BY <1>2 DEF Accurate, Remembered, memory, alerts
<1> QED BY <1>4, <1>5, <1>6 DEF Accurate

\* The other task is not at work on a position that is not overlapped.
LEMMA Alone ==
  ASSUME Accurate, HandlerOK, NEW t \in Tasks, NEW u \in Tasks, t # u,
         handler[t].stage \in Evaluating, handler[u].stage \in Evaluating,
         handler[t].at \notin overlapped
  PROVE  handler[u].at # handler[t].at
BY HandlerParts DEF Accurate, Apart, AtWorkOn

LEMMA AccurateAppend ==
  ASSUME Shape, Accurate, NEW t \in Tasks, AppendEvent(t)
  PROVE  Accurate'
<1> USE DEF Shape, HandlerOK
<1> DEFINE i == handler[t].at
           act == handler[t].act
           h == [handler[t] EXCEPT !.stage = IF act \in Actionable THEN "queue" ELSE "next"]
<1>1. h \in Handlers /\ h.at = i /\ h.act = act /\ h.stage \in {"queue", "next"} /\ h.age = handler[t].age
  BY HandlerParts DEF Handlers, Stages
<1>2. handler' = [handler EXCEPT ![t] = h] /\ handler[t].stage = "append" /\ handler[t].stage \in Evaluating
  BY DEF AppendEvent, Goes, Evaluating
<1>3. i \in Positions /\ act # "NONE" /\ (i \notin overlapped => lastAction[i] # act)
  BY <1>2, HandlerParts DEF Accurate, AtWork
<1>4. /\ lastAction' = [lastAction EXCEPT ![i] = act]
      /\ issued' = [issued EXCEPT ![i] = IF act = issued[i] THEN issued[i] ELSE "NONE"]
      /\ UNCHANGED <<sinceEval, sinceAlert, sinceIssued, overlapped>>
  BY DEF AppendEvent
<1>5. lastAction'[i] = act /\ (i \notin overlapped => issued'[i] = "NONE")
  BY <1>3, <1>4 DEF Accurate, Remembered, MemoryOK
<1> HIDE DEF h
<1>6. Apart' /\ Timed' /\ ThrottleSeparates'
  BY <1>1, <1>2, <1>4, Stays
<1>7. ASSUME NEW u \in Tasks
      PROVE  AtWork(u)'
  <2>1. CASE u = t
    BY <1>1, <1>2, <1>3, <1>4, <1>5, <2>1 DEF AtWork
  <2>2. CASE u # t
    <3>1. handler[u].stage \in Evaluating => i \in overlapped \/ (handler[u].at # i /\ handler[u].at \in Positions)
      BY <1>2, <2>2, Alone, HandlerParts
    <3>2. handler'[u] = handler[u] /\ AtWork(u)
      BY <1>2, <2>2 DEF Accurate
    <3>3. \A j \in Positions : j # i => lastAction'[j] = lastAction[j] /\ issued'[j] = issued[j]
      BY <1>4 DEF MemoryOK
    <3>4. handler[u].stage \in Evaluating => handler[u].at \in Positions
      BY HandlerParts
    <3> QED BY <1>4, <3>1, <3>2, <3>3, <3>4, Undisturbed
  <2> QED BY <2>1, <2>2
<1>8. ASSUME NEW j \in Positions
      PROVE  Remembered(j)'
  <2>1. CASE j = i
    BY <1>4, <1>5, <2>1 DEF Remembered, Repeatable
  <2>2. CASE j # i
    BY <1>4, <2>2 DEF Accurate, Remembered, MemoryOK
  <2> QED BY <2>1, <2>2
<1> QED BY <1>6, <1>7, <1>8 DEF Accurate

\* An alert saved without disturbance sets the memory of its position right.
LEMMA AccurateQueue ==
  ASSUME Shape, Accurate, NEW t \in Tasks, QueueAlert(t)
  PROVE  Accurate'
<1> USE DEF Shape, HandlerOK
<1> DEFINE i == handler[t].at
           act == handler[t].act
           age == handler[t].age
           h == [handler[t] EXCEPT !.stage = "next"]
           undisturbed == lastAction[i] = act /\ \A u \in Tasks \ {t} : ~AtWorkOn(u, i)
<1>1. h \in Handlers /\ h.stage = "next" /\ h.stage \notin Evaluating
  BY HandlerParts DEF Handlers, Stages, Evaluating
<1>2. handler' = [handler EXCEPT ![t] = h] /\ handler[t].stage = "queue" /\ handler[t].stage \in Evaluating
  BY DEF QueueAlert, Goes, Evaluating
<1>3. i \in Positions /\ (i \notin overlapped => lastAction[i] = act)
  BY <1>2, HandlerParts DEF Accurate, AtWork
<1>4. /\ issued' = [issued EXCEPT ![i] = act] /\ sinceIssued' = [sinceIssued EXCEPT ![i] = age]
      /\ sinceAlert' = (IF act \in Repeatable THEN [sinceAlert EXCEPT ![i][act] = age] ELSE sinceAlert)
      /\ overlapped' = (IF undisturbed THEN overlapped \ {i} ELSE overlapped)
      /\ UNCHANGED <<lastAction, sinceEval>>
  BY DEF QueueAlert, AlertStamp
<1> HIDE DEF h
<1>5. Timed' /\ ThrottleSeparates'
  BY <1>1, <1>2, <1>4, Stays
<1>6. \A u \in Tasks : u # t => handler'[u] = handler[u]
  BY <1>2
<1>7. \A j \in Positions : ~AtWorkOn(t, j)'
  BY <1>1, <1>2 DEF AtWorkOn
<1>8. Apart'
  <2> SUFFICES ASSUME NEW v \in Tasks, NEW u \in Tasks, NEW j \in Positions, v # u,
                      AtWorkOn(v, j)', AtWorkOn(u, j)'
               PROVE  j \in overlapped'
    BY DEF Apart
  <2>1. v # t /\ u # t
    BY <1>7
  <2>2. AtWorkOn(v, j) /\ AtWorkOn(u, j)
    BY <1>6, <2>1 DEF AtWorkOn
  <2>3. j \in overlapped
    BY <2>2 DEF Accurate, Apart
  <2> QED BY <1>4, <2>1, <2>2, <2>3
<1>9. ASSUME NEW u \in Tasks
      PROVE  AtWork(u)'
  <2>1. CASE u = t
    BY <1>1, <1>2, <2>1 DEF AtWork, Evaluating
  <2>2. CASE u # t
    <3>1. handler'[u] = handler[u] /\ AtWork(u)
      BY <1>6, <2>2 DEF Accurate
    <3>2. handler[u].stage \in Evaluating => handler[u].at \in Positions
      BY HandlerParts
    <3>3. ASSUME handler[u].stage \in Evaluating, handler[u].at = i
          PROVE  i \in overlapped'
      <4>1. AtWorkOn(u, i) /\ AtWorkOn(t, i)
        BY <1>2, <3>3 DEF AtWorkOn
      <4>2. i \in overlapped
        BY <1>3, <2>2, <4>1 DEF Accurate, Apart
      <4> QED BY <1>4, <2>2, <4>1, <4>2
    <3>4. ASSUME NEW j \in Positions, j # i
          PROVE  /\ lastAction'[j] = lastAction[j] /\ issued'[j] = issued[j] /\ sinceAlert'[j] = sinceAlert[j]
                 /\ j \in overlapped' <=> j \in overlapped
      BY <1>4, <3>4 DEF MemoryOK
    <3> QED BY <3>1, <3>2, <3>3, <3>4, Undisturbed
  <2> QED BY <2>1, <2>2
<1>10. ASSUME NEW j \in Positions
       PROVE  Remembered(j)'
  <2>1. CASE j = i
    <3>1. issued'[i] = act /\ sinceIssued'[i] = age
      BY <1>3, <1>4 DEF MemoryOK
    <3>2. act \in Repeatable => sinceAlert'[i][act] = age
      BY <1>3, <1>4 DEF MemoryOK
    <3>3. i \notin overlapped' => lastAction'[i] = act
      BY <1>3, <1>4
    <3> QED BY <2>1, <3>1, <3>2, <3>3 DEF Remembered
  <2>2. CASE j # i
    <3>1. /\ lastAction'[j] = lastAction[j] /\ issued'[j] = issued[j]
          /\ sinceAlert'[j] = sinceAlert[j] /\ sinceIssued'[j] = sinceIssued[j]
          /\ j \in overlapped' <=> j \in overlapped
      BY <1>4, <2>2 DEF MemoryOK
    <3> QED BY <3>1 DEF Accurate, Remembered
  <2> QED BY <2>1, <2>2
<1> QED BY <1>5, <1>8, <1>9, <1>10 DEF Accurate

\* Ages that are compared grow alike while none has reached its cap.
LEMMA AccurateTick ==
  ASSUME Shape, Accurate, Tick
  PROVE  Accurate'
<1>0. /\ HandlerOK'
      /\ \A t \in Tasks : /\ handler'[t].stage = handler[t].stage /\ handler'[t].at = handler[t].at
                          /\ handler'[t].act = handler[t].act
                          /\ handler[t].stage # "idle" => handler'[t].age = handler[t].age + 1
  <2>1. HandlerOK
    BY DEF Shape
  <2> QED BY <2>1, HandlerTick, Zenon
<1> USE MonitorFacts DEF Shape
<1>1. ASSUME NEW t \in Tasks
      PROVE  /\ handler'[t].stage = handler[t].stage /\ handler'[t].at = handler[t].at
             /\ handler'[t].act = handler[t].act
             /\ handler[t].stage \in Evaluating =>
                  /\ handler'[t].age = handler[t].age + 1
                  /\ handler[t].age \in Nat /\ handler[t].age + 1 <= Slow /\ handler[t].at \in Positions
  <2>1. handler'[t].age \in 0..Slow
    BY <1>0 DEF HandlerOK, Handlers
  <2>2. handler[t].age \in 0..Slow /\ (handler[t].stage \in Evaluating => handler[t].at \in Positions)
    BY HandlerParts
  <2>3. handler[t].stage \in Evaluating => handler[t].stage # "idle"
    BY DEF Evaluating
  <2>4. handler[t].stage \in Evaluating => handler'[t].age = handler[t].age + 1
    BY <1>0, <2>3
  <2>5. /\ handler'[t].stage = handler[t].stage /\ handler'[t].at = handler[t].at
        /\ handler'[t].act = handler[t].act
    BY <1>0
  <2> QED BY <2>1, <2>2, <2>4, <2>5
<1>2. /\ sinceEval' = [i \in Positions |-> Capped(sinceEval[i] + 1, LongAgo)]
      /\ sinceAlert' = [i \in Positions |-> [a \in Repeatable |->
           IF sinceAlert[i][a] = Never THEN Never ELSE Capped(sinceAlert[i][a] + 1, Repeat + Slow)]]
      /\ sinceIssued' = [i \in Positions |-> Capped(sinceIssued[i] + 1, Repeat + Slow)]
      /\ UNCHANGED <<lastAction, issued, overlapped>>
  BY DEF Tick
<1>3. \A t \in Tasks : \A i \in Positions : AtWorkOn(t, i)' <=> AtWorkOn(t, i)
  BY <1>1 DEF AtWorkOn
<1>4. Apart'
  BY <1>2, <1>3 DEF Accurate, Apart
<1>5. ThrottleSeparates'
  <2> SUFFICES ASSUME NEW v \in Tasks, NEW u \in Tasks, NEW i \in Positions, v # u,
                      AtWorkOn(v, i), AtWorkOn(u, i)
               PROVE  \/ handler'[v].age - handler'[u].age >= MinInterval
                      \/ handler'[u].age - handler'[v].age >= MinInterval
    BY <1>3 DEF ThrottleSeparates
  <2>1. \/ handler[v].age - handler[u].age >= MinInterval
        \/ handler[u].age - handler[v].age >= MinInterval
    BY DEF Accurate, ThrottleSeparates
  <2>2. /\ handler'[v].age = handler[v].age + 1 /\ handler[v].age \in Nat
        /\ handler'[u].age = handler[u].age + 1 /\ handler[u].age \in Nat
    BY <1>1 DEF AtWorkOn
  <2> QED BY <2>1, <2>2
<1>6. Timed'
  <2> SUFFICES ASSUME NEW t \in Tasks, handler'[t].stage \in Evaluating
               PROVE  sinceEval'[handler'[t].at] <= handler'[t].age
    BY DEF Timed
  <2> DEFINE i == handler[t].at
  <2>1. /\ i \in Positions /\ handler'[t].at = i /\ handler'[t].age = handler[t].age + 1
        /\ handler[t].age \in Nat
    BY <1>1
  <2>2. sinceEval[i] \in Nat /\ sinceEval[i] <= handler[t].age
    BY <1>1, <2>1 DEF Accurate, Timed, MemoryOK
  <2>3. Capped(sinceEval[i] + 1, LongAgo) <= sinceEval[i] + 1
    BY <2>2 DEF Capped
  <2>4. Capped(sinceEval[i] + 1, LongAgo) \in Nat
    BY <2>2 DEF Capped
  <2> QED BY <1>2, <2>1, <2>2, <2>3, <2>4
<1>7. ASSUME NEW t \in Tasks
      PROVE  AtWork(t)'
  <2> DEFINE i == handler[t].at
             act == handler[t].act
  <2>1. ASSUME handler[t].stage = "queue", RepeatDue(i, act, handler[t].age)
        PROVE  /\ act \in Repeatable /\ sinceAlert'[i][act] # Never
               /\ sinceAlert'[i][act] - handler'[t].age >= Repeat
    <3>1. /\ i \in Positions /\ handler'[t].age = handler[t].age + 1
          /\ handler[t].age \in Nat /\ handler[t].age + 1 <= Slow
      BY <1>1, <2>1 DEF Evaluating
    <3>2. /\ act \in Repeatable /\ sinceAlert[i][act] # Never
          /\ sinceAlert[i][act] - handler[t].age >= Repeat /\ sinceAlert[i][act] \in Nat
      BY <2>1, <3>1 DEF RepeatDue, MemoryOK
    <3>3. sinceAlert'[i][act] = Capped(sinceAlert[i][act] + 1, Repeat + Slow)
      BY <1>2, <3>1, <3>2
    <3>4. sinceAlert'[i][act] - (handler[t].age + 1) >= Repeat /\ sinceAlert'[i][act] # Never
      BY <3>1, <3>2, <3>3 DEF Capped
    <3> QED BY <3>1, <3>2, <3>4
  <2>2. AtWork(t)
    BY DEF Accurate
  <2>3. /\ handler'[t].stage = handler[t].stage /\ handler'[t].at = i /\ handler'[t].act = act
        /\ lastAction' = lastAction /\ issued' = issued /\ overlapped' = overlapped
    BY <1>1, <1>2
  <2> QED BY <2>1, <2>2, <2>3 DEF AtWork, RepeatDue
<1>8. ASSUME NEW i \in Positions
      PROVE  Remembered(i)'
  <2>1. ASSUME NEW a \in Repeatable, issued[i] = a, i \notin overlapped
        PROVE  sinceAlert'[i][a] = sinceIssued'[i]
    <3>1. sinceAlert[i][a] = sinceIssued[i] /\ sinceIssued[i] \in 0..(Repeat + Slow)
      BY <2>1 DEF Accurate, Remembered, MemoryOK
    <3>2. sinceIssued[i] # Never
      BY <3>1
    <3> QED BY <1>2, <3>1, <3>2
  <2> QED BY <1>2, <2>1 DEF Accurate, Remembered
<1> QED BY <1>4, <1>5, <1>6, <1>7, <1>8 DEF Accurate

\* The other steps of a task leave it at no position and the memories as they are.
LEMMA Withdrawing ==
  ASSUME Shape, NEW t \in Tasks,
         \/ \E s \in Signals : Receive(t, s)
         \/ NoMorePositions(t) \/ StoreFails(t) \/ \E stale \in BOOLEAN, expired \in SUBSET Plans : CheckTrigger(t, stale, expired)
         \/ RecordHit(t) \/ SkipHit(t) \/ CommitHit(t)
  PROVE  /\ UNCHANGED <<memory, alerts>> /\ handler'[t].stage \notin Evaluating
         /\ handler' = [handler EXCEPT ![t] = handler'[t]]
<1> USE MonitorFacts DEF Shape, HandlerOK, Evaluating
<1>1. UNCHANGED <<memory, alerts>>
  BY DEF Receive, NoMorePositions, StoreFails, CheckTrigger, RecordHit, SkipHit, CommitHit
<1>2. ASSUME NEW h, handler' = [handler EXCEPT ![t] = h], h.stage \notin Evaluating
      PROVE  handler'[t].stage \notin Evaluating /\ handler' = [handler EXCEPT ![t] = handler'[t]]
  BY <1>2
<1>3. CASE \E s \in Signals : Receive(t, s)
  <2> PICK s \in Signals : Receive(t, s)
    BY <1>3
  <2> DEFINE h == [Idle EXCEPT !.stage = "next", !.rest = cached, !.last = price, !.signal = s,
                               !.plans = t = "trade" /\ cachedPlans # {}]
  <2>1. handler' = [handler EXCEPT ![t] = h]
    BY DEF Receive
  <2>2. h.stage \notin Evaluating
    BY DEF Handlers
  <2> HIDE DEF h
  <2> QED BY <1>1, <1>2, <2>1, <2>2
<1>4. CASE NoMorePositions(t)
  <2>1. [handler[t] EXCEPT !.stage = "trigger"].stage = "trigger"
    BY DEF Handlers
  <2> QED BY <1>4, <2>1 DEF NoMorePositions
<1>5. CASE StoreFails(t)
  BY <1>2, <1>5 DEF StoreFails
<1>6. CASE \E stale \in BOOLEAN, expired \in SUBSET Plans : CheckTrigger(t, stale, expired)
  <2> PICK stale \in BOOLEAN, expired \in SUBSET Plans : CheckTrigger(t, stale, expired)
    BY <1>6
  <2> DEFINE hit == [handler[t] EXCEPT !.stage = "record", !.hits = cachedPlans \ expired]
  <2>1. hit.stage = "record"
    BY DEF Handlers
  <2>2. handler' = [handler EXCEPT ![t] = hit] \/ handler' = [handler EXCEPT ![t] = Idle]
    BY DEF CheckTrigger
  <2> HIDE DEF hit
  <2> QED BY <1>1, <1>2, <2>1, <2>2
<1>7. CASE RecordHit(t)
  <2>1. handler' = [handler EXCEPT ![t] = [handler[t] EXCEPT !.stage = "commit"]]
    BY <1>7 DEF RecordHit, Goes
  <2>2. [handler[t] EXCEPT !.stage = "commit"].stage = "commit"
    BY DEF Handlers
  <2> QED BY <1>1, <1>2, <2>1, <2>2
<1>8. CASE SkipHit(t) \/ CommitHit(t)
  <2> DEFINE left == handler[t].hits \ {Hit(t)}
             more == [handler[t] EXCEPT !.stage = "record", !.hits = left]
             h == IF left = {} THEN Idle ELSE more
  <2>1. more.stage = "record"
    BY DEF Handlers
  <2>2. handler' = [handler EXCEPT ![t] = h]
    BY <1>8 DEF SkipHit, CommitHit, After
  <2> HIDE DEF more
  <2>3. h.stage \notin Evaluating
    BY <2>1
  <2> HIDE DEF h
  <2> QED BY <1>1, <1>2, <2>2, <2>3
<1> QED BY <1>1, <1>3, <1>4, <1>5, <1>6, <1>7, <1>8

LEMMA AccurateInit == Init => Accurate
<1> SUFFICES ASSUME Init PROVE Accurate
  OBVIOUS
<1>1. \A t \in Tasks : handler[t] = Idle /\ Idle.stage = "idle"
  BY MonitorFacts DEF Init
<1>2. Apart /\ Timed /\ ThrottleSeparates /\ \A t \in Tasks : AtWork(t)
  BY <1>1 DEF Apart, Timed, ThrottleSeparates, AtWorkOn, AtWork, Evaluating
<1>3. \A i \in Positions : Remembered(i)
  BY DEF Init, Remembered, Repeatable
<1> QED BY <1>2, <1>3 DEF Accurate

LEMMA AccurateStep ==
  ASSUME Shape, Accurate, [Next]_vars
  PROVE  Accurate'
<1>1. ASSUME NEW t \in Tasks,
             \/ \E s \in Signals : Receive(t, s)
             \/ NoMorePositions(t) \/ StoreFails(t)
             \/ \E stale \in BOOLEAN, expired \in SUBSET Plans : CheckTrigger(t, stale, expired)
             \/ RecordHit(t) \/ SkipHit(t) \/ CommitHit(t)
      PROVE  Accurate'
  <2>1. HandlerOK /\ handler'[t] \in Handlers
    BY HandlerStepTypes DEF Shape, HandlerOK
  <2> QED BY <1>1, <2>1, Withdrawing, Withdrawn
<1>2. ASSUME NEW t \in Tasks, \/ \E i \in Positions : NextPosition(t, i)
                              \/ Evaluate(t) \/ Compare(t) \/ AppendEvent(t) \/ QueueAlert(t)
      PROVE  Accurate'
  BY <1>2, AccurateNextPosition, AccurateEvaluate, AccurateCompare, AccurateAppend, AccurateQueue
<1>3. CASE Tick
  BY <1>3, AccurateTick
<1>4. CASE UNCHANGED <<handler, memory, alerts>>
  BY <1>4 DEF Accurate, Apart, Timed, ThrottleSeparates, AtWorkOn, AtWork, Remembered, RepeatDue, memory, alerts
<1>5. ASSUME \/ \E i \in Positions, x \in OpenRows \cup {Closed} : BeginChange(i, x)
             \/ \E i \in Positions : ProtectPosition(i) \/ \E x \in OpenRows : ImportPosition(i, x)
             \/ \E agrees \in BOOLEAN : ReconcileHoldings(agrees)
             \/ CommitChange \/ CacheStep \/ RefreshFails \/ CacheTaskDies \/ UNCHANGED vars
             \/ \E p \in Plans : PlanAppears(p) \/ PlanLeaves(p)
             \/ \E x \in Prices : MarketMoves(x)
      PROVE  UNCHANGED <<handler, memory, alerts>>
  BY <1>5 DEF BeginChange, ProtectPosition, ImportPosition, ReconcileHoldings, Silently, CommitChange, CacheStep,
              ListPositions, LoadCache, WakeLoop, RefreshFails, CacheTaskDies, vars, PlanAppears, PlanLeaves, MarketMoves
<1> QED BY <1>1, <1>2, <1>3, <1>4, <1>5 DEF Next, HandlerStep

\* monitor_min_interval_seconds: two subscriptions are at work on one position only with
\* messages that lie the interval apart, however long their store calls take.
THEOREM ThrottleKeepsApart == Spec => []ThrottleSeparates
BY ShapeInit, ShapeStep, AccurateInit, AccurateStep, PTL DEF Spec, Accurate

\* alert_repeat_minutes: whatever the failures, the cache, the user and the time store
\* calls take, an alert is saved again early only for a position that both subscriptions
\* were at work on at once and that no undisturbed alert has followed since.
THEOREM AlertsRepeatEarlyOnlyByOverlap == Spec => RepeatsOnlyByOverlap
<1>1. ASSUME Shape, Accurate, NEW t \in Tasks, SavedAgain(t), handler[t].at \notin overlapped
      PROVE  Due(t)
  <2>1. handler[t].stage = "queue" /\ issued[handler[t].at] = handler[t].act /\ handler[t].at \in Positions
    BY <1>1, HandlerParts DEF Shape, SavedAgain, Evaluating
  <2>2. RepeatDue(handler[t].at, handler[t].act, handler[t].age)
    BY <1>1, <2>1 DEF Accurate, AtWork
  <2> QED BY <1>1, <2>1, <2>2 DEF Accurate, Remembered, RepeatDue, Due
<1>2. Shape /\ Accurate /\ [Next]_vars
        => [\A t \in Tasks : SavedAgain(t) /\ handler[t].at \notin overlapped => Due(t)]_vars
  BY <1>1
<1> QED BY <1>2, ShapeInit, ShapeStep, AccurateInit, AccurateStep, PTL DEF Spec, RepeatsOnlyByOverlap

-----------------------------------------------------------------------------
(* No alert is lost but to a failure *)

\* A task is about to save the alert of position i.
Delivering(i) == \E t \in Tasks : handler[t].stage = "queue" /\ handler[t].at = i

\* Unless a store call has failed, every action remembered that calls for an alert has
\* had it or is about to (_handle_position remembers the action before queue_alert).
NoAlertLost ==
  failures = 0 => \A i \in Positions \ overlapped :
                    lastAction[i] \in Actionable => issued[i] = lastAction[i] \/ Delivering(i)

\* ... and if it is one to repeat, there is an earlier alert to repeat, or a task is
\* about to save one, also for a position that two tasks are at work on at once.
ToRepeat(i) ==
  \/ sinceAlert[i][lastAction[i]] # Never
  \/ \E t \in Tasks : handler[t].stage = "queue" /\ handler[t].at = i /\ handler[t].act = lastAction[i]
NoneSilenced ==
  failures = 0 => \A i \in Positions : lastAction[i] \in Repeatable => ToRepeat(i)

Delivered == failures \in Nat /\ NoAlertLost /\ NoneSilenced

\* What leaves the memories and the tasks about to save an alert alone loses none.
LEMMA Kept ==
  ASSUME Delivered, failures' = failures, UNCHANGED <<lastAction, issued>>, overlapped \subseteq overlapped',
         \A i \in Positions : \A a \in Repeatable : sinceAlert[i][a] # Never => sinceAlert'[i][a] # Never,
         \A t \in Tasks : handler[t].stage = "queue" =>
           handler'[t].stage = "queue" /\ handler'[t].at = handler[t].at /\ handler'[t].act = handler[t].act
  PROVE  Delivered'
<1>1. \A i \in Positions : Delivering(i) => Delivering(i)'
  BY DEF Delivering
<1>2. \A i \in Positions : lastAction[i] \in Repeatable /\ ToRepeat(i) => ToRepeat(i)'
  BY DEF ToRepeat
<1>3. NoAlertLost'
  BY <1>1 DEF Delivered, NoAlertLost
<1>4. NoneSilenced'
  BY <1>2 DEF Delivered, NoneSilenced
<1> QED BY <1>3, <1>4 DEF Delivered

\* Nor does another stage of a task.
LEMMA KeptGoing ==
  ASSUME Delivered, HandlerOK, failures' = failures, UNCHANGED <<lastAction, issued, sinceAlert>>,
         overlapped \subseteq overlapped',
         NEW t \in Tasks, handler[t].stage # "queue",
         NEW h, handler' = [handler EXCEPT ![t] = h]
  PROVE  Delivered'
<1>1. \A u \in Tasks : u # t => handler'[u] = handler[u]
  BY DEF HandlerOK
<1> QED BY <1>1, Kept

LEMMA DeliveredAppend ==
  ASSUME Shape, Accurate, Delivered, NEW t \in Tasks, AppendEvent(t)
  PROVE  Delivered'
<1> USE DEF Shape, HandlerOK
<1> DEFINE i == handler[t].at
           act == handler[t].act
           h == [handler[t] EXCEPT !.stage = IF act \in Actionable THEN "queue" ELSE "next"]
<1>1. h.at = i /\ h.act = act /\ h.stage = IF act \in Actionable THEN "queue" ELSE "next"
  BY HandlerParts DEF Handlers
<1>2. handler' = [handler EXCEPT ![t] = h] /\ handler[t].stage = "append" /\ failures' = failures
  BY DEF AppendEvent, Goes
<1>3. i \in Positions
  BY <1>2, HandlerParts DEF Evaluating
<1>4. /\ lastAction' = [lastAction EXCEPT ![i] = act]
      /\ \A j \in Positions : j # i => issued'[j] = issued[j]
      /\ UNCHANGED <<sinceAlert, overlapped>>
  BY DEF AppendEvent, MemoryOK
<1>5. lastAction'[i] = act /\ \A j \in Positions : j # i => lastAction'[j] = lastAction[j]
  BY <1>3, <1>4 DEF MemoryOK
<1> HIDE DEF h
<1>6. act \in Actionable => handler'[t].stage = "queue" /\ handler'[t].at = i /\ handler'[t].act = act
  BY <1>1, <1>2
<1>7. \A u \in Tasks : handler[u].stage = "queue" => handler'[u] = handler[u]
  BY <1>2
<1>8. ASSUME NEW j \in Positions \ overlapped, failures' = 0, lastAction'[j] \in Actionable
      PROVE  issued'[j] = lastAction'[j] \/ Delivering(j)'
  <2>1. CASE j = i
    BY <1>5, <1>6, <1>8, <2>1 DEF Delivering
  <2>2. CASE j # i
    <3>1. Delivering(j) => Delivering(j)'
      BY <1>7 DEF Delivering
    <3> QED BY <1>2, <1>4, <1>5, <1>8, <2>2, <3>1 DEF Delivered, NoAlertLost
  <2> QED BY <2>1, <2>2
<1>9. ASSUME NEW j \in Positions, failures' = 0, lastAction'[j] \in Repeatable
      PROVE  ToRepeat(j)'
  <2>1. CASE j = i
    BY <1>5, <1>6, <1>9, <2>1 DEF ToRepeat, Actionable
  <2>2. CASE j # i
    <3>1. ToRepeat(j)
      BY <1>2, <1>5, <1>9, <2>2 DEF Delivered, NoneSilenced
    <3> QED BY <1>4, <1>5, <1>7, <2>2, <3>1 DEF ToRepeat
  <2> QED BY <2>1, <2>2
<1>10. NoAlertLost'
  BY <1>4, <1>8 DEF NoAlertLost
<1>11. NoneSilenced'
  BY <1>9 DEF NoneSilenced
<1> QED BY <1>2, <1>10, <1>11 DEF Delivered

LEMMA DeliveredQueue ==
  ASSUME Shape, Accurate, Delivered, NEW t \in Tasks, QueueAlert(t)
  PROVE  Delivered'
<1> USE DEF Shape, HandlerOK
<1> DEFINE i == handler[t].at
           act == handler[t].act
           age == handler[t].age
           h == [handler[t] EXCEPT !.stage = "next"]
<1>1. handler' = [handler EXCEPT ![t] = h] /\ handler[t].stage = "queue" /\ failures' = failures
  BY DEF QueueAlert, Goes
<1>2. i \in Positions /\ age \in 0..Slow /\ age # Never
  BY <1>1, HandlerParts, MonitorFacts DEF Evaluating
<1>3. /\ issued' = [issued EXCEPT ![i] = act] /\ lastAction' = lastAction
      /\ sinceAlert' = (IF act \in Repeatable THEN [sinceAlert EXCEPT ![i][act] = age] ELSE sinceAlert)
      /\ i \notin overlapped' => lastAction[i] = act
      /\ \A j \in Positions : j # i => (j \in overlapped' <=> j \in overlapped)
  BY <1>1, <1>2 DEF QueueAlert, AlertStamp, Accurate, AtWork
<1> HIDE DEF h
<1>4. \A u \in Tasks : u # t => handler'[u] = handler[u]
  BY <1>1
<1>5. ASSUME NEW j \in Positions \ overlapped', failures' = 0, lastAction'[j] \in Actionable
      PROVE  issued'[j] = lastAction'[j] \/ Delivering(j)'
  <2>1. CASE j = i
    BY <1>2, <1>3, <1>5, <2>1 DEF MemoryOK
  <2>2. CASE j # i
    <3>1. issued'[j] = issued[j]
      BY <1>3, <2>2 DEF MemoryOK
    <3>2. Delivering(j) => Delivering(j)'
      BY <1>4, <2>2 DEF Delivering
    <3> QED BY <1>1, <1>3, <1>5, <2>2, <3>1, <3>2 DEF Delivered, NoAlertLost
  <2> QED BY <2>1, <2>2
<1>6. act \in Repeatable => sinceAlert'[i][act] # Never
  BY <1>2, <1>3 DEF MemoryOK
<1>7. \A j \in Positions : \A a \in Repeatable : sinceAlert[j][a] # Never => sinceAlert'[j][a] # Never
  BY <1>2, <1>3 DEF MemoryOK
<1>8. ASSUME NEW j \in Positions, failures' = 0, lastAction'[j] \in Repeatable
      PROVE  ToRepeat(j)'
  <2>1. ToRepeat(j)
    BY <1>1, <1>3, <1>8 DEF Delivered, NoneSilenced
  <2>2. CASE sinceAlert[j][lastAction[j]] # Never
    BY <1>3, <1>7, <1>8, <2>2 DEF ToRepeat
  <2>3. ASSUME NEW u \in Tasks, handler[u].stage = "queue", handler[u].at = j, handler[u].act = lastAction[j]
        PROVE  ToRepeat(j)'
    BY <1>3, <1>4, <1>6, <1>8, <2>3 DEF ToRepeat
  <2> QED BY <2>1, <2>2, <2>3 DEF ToRepeat
<1>9. NoAlertLost'
  BY <1>5 DEF NoAlertLost
<1>10. NoneSilenced'
  BY <1>8 DEF NoneSilenced
<1> QED BY <1>1, <1>9, <1>10 DEF Delivered

LEMMA DeliveredTick ==
  ASSUME Shape, Delivered, Tick
  PROVE  Delivered'
<1>1. HandlerOK
  BY DEF Shape
<1>2. \A t \in Tasks : /\ handler'[t].stage = handler[t].stage /\ handler'[t].at = handler[t].at
                       /\ handler'[t].act = handler[t].act
  BY <1>1, HandlerTick, Zenon
<1>3. ASSUME NEW i \in Positions, NEW a \in Repeatable, sinceAlert[i][a] # Never
      PROVE  sinceAlert'[i][a] # Never
  <2>1. sinceAlert'[i][a] = Capped(sinceAlert[i][a] + 1, Repeat + Slow) /\ sinceAlert[i][a] \in Nat
    BY <1>3 DEF Tick, Shape, MemoryOK
  <2> QED BY <2>1, MonitorFacts DEF Capped
<1>4. failures' = failures /\ UNCHANGED <<lastAction, issued, overlapped>>
  BY DEF Tick
<1> QED BY <1>2, <1>3, <1>4, Kept

LEMMA DeliveredStep ==
  ASSUME Shape, Accurate, Delivered, [Next]_vars
  PROVE  Delivered'
<1> USE DEF Shape
<1>1. ASSUME NEW t \in Tasks, HandlerStep(t) \/ \E s \in Signals : Receive(t, s)
      PROVE  Delivered'
  <2>1. CASE \/ \E s \in Signals : Receive(t, s)
             \/ NoMorePositions(t)
             \/ \E stale \in BOOLEAN, expired \in SUBSET Plans : CheckTrigger(t, stale, expired)
             \/ RecordHit(t) \/ SkipHit(t) \/ CommitHit(t)
    <3>1. UNCHANGED <<memory, alerts>> /\ handler' = [handler EXCEPT ![t] = handler'[t]]
      BY <2>1, Withdrawing
    <3>2. handler[t].stage # "queue" /\ failures' = failures
      BY <2>1, MonitorFacts DEF Receive, NoMorePositions, CheckTrigger, RecordHit, SkipHit, CommitHit
    <3> QED BY <3>1, <3>2, KeptGoing DEF memory, alerts
  <2>2. CASE (\E i \in Positions : NextPosition(t, i)) \/ Evaluate(t) \/ Compare(t)
    <3>1. /\ handler[t].stage # "queue" /\ failures' = failures /\ UNCHANGED <<lastAction, issued, sinceAlert>>
          /\ overlapped \subseteq overlapped' /\ \E h : handler' = [handler EXCEPT ![t] = h]
      BY <2>2 DEF NextPosition, Evaluate, Compare, Goes, memory, alerts
    <3> QED BY <3>1, KeptGoing
  <2> QED BY <1>1, <2>1, <2>2, DeliveredAppend, DeliveredQueue DEF HandlerStep
<1>2. ASSUME failures' = failures + 1 PROVE Delivered'
  <2>1. failures' \in Nat /\ failures' # 0
    BY <1>2 DEF Delivered
  <2> QED BY <2>1 DEF Delivered, NoAlertLost, NoneSilenced
<1>3. ASSUME RefreshFails \/ CacheTaskDies \/ \E t \in Tasks : StoreFails(t)
      PROVE  Delivered'
  BY <1>2, <1>3 DEF RefreshFails, CacheTaskDies, StoreFails
<1>4. CASE Tick
  BY <1>4, DeliveredTick
<1>5. ASSUME \/ \E i \in Positions, x \in OpenRows \cup {Closed} : BeginChange(i, x)
             \/ \E i \in Positions : ProtectPosition(i) \/ \E x \in OpenRows : ImportPosition(i, x)
             \/ \E agrees \in BOOLEAN : ReconcileHoldings(agrees)
             \/ CommitChange \/ CacheStep \/ UNCHANGED vars
             \/ \E p \in Plans : PlanAppears(p) \/ PlanLeaves(p)
             \/ \E x \in Prices : MarketMoves(x)
      PROVE  Delivered'
  <2>1. UNCHANGED <<handler, lastAction, issued, sinceAlert, overlapped, failures>>
    BY <1>5 DEF BeginChange, ProtectPosition, ImportPosition, ReconcileHoldings, Silently, CommitChange, CacheStep,
                ListPositions, LoadCache, WakeLoop, vars, PlanAppears, PlanLeaves, MarketMoves, memory, alerts
  <2> QED BY <2>1, Kept
<1> QED BY <1>1, <1>3, <1>4, <1>5 DEF Next

LEMMA DeliveredInit == Init => Delivered
BY DEF Init, Delivered, NoAlertLost, NoneSilenced, Actionable, Repeatable

\* Neither the throttle nor slow calls nor the user lose an alert: unless a store call has
\* failed, the action remembered for a position that was not overlapped has its alert.
THEOREM OnlyFailuresLoseAlerts == Spec => []NoAlertLost
BY DeliveredInit, ShapeInit, ShapeStep, AccurateInit, AccurateStep, DeliveredStep, PTL DEF Spec, Delivered

\* Two subscriptions at work on one position at once may save an alert too often, but
\* never silence it: unless a store call has failed, there is an alert to repeat.
THEOREM OnlyFailuresSilence == Spec => []NoneSilenced
BY DeliveredInit, ShapeInit, ShapeStep, AccurateInit, AccurateStep, DeliveredStep, PTL DEF Spec, Delivered

=============================================================================
