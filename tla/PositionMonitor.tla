--------------------------- MODULE PositionMonitor ---------------------------
(***************************************************************************)
(* The position monitor of the API process (runtime/position_monitor.py):  *)
(* market messages of one symbol arrive on two subscriptions, each handled *)
(* one message at a time by its own task; a third task keeps a cache of    *)
(* the open positions and waiting plans, which service transactions        *)
(* invalidate through a hook they call before they commit.  Every await is *)
(* a step of its own.                                                      *)
(*                                                                         *)
(* All positions and plans are of the one symbol: the monitor keeps no     *)
(* state that two symbols share.  Time is relative: ages of messages,      *)
(* evaluations and alerts count up as far as they are compared.  No store  *)
(* call has a timeout, so ticks pass while messages are handled; what a    *)
(* handler remembers and compares is the time of its message.              *)
(*                                                                         *)
(* An operator whose name ends in Slip is not part of the model: it is a   *)
(* mistake the definition after it could contain, kept to show that the    *)
(* properties would notice it.                                             *)
(***************************************************************************)
EXTENDS Integers, FiniteSets

CONSTANTS
  Positions,    \* position identifiers
  Plans,        \* plan identifiers, not yet triggered
  Prices,       \* prices a message can carry
  Signals,      \* what else it can show: [broken, late], see ActionFor
  OpenRows,     \* what an open position's row can say, see Row
  Stop, Tp1, Tp2,  \* levels of every position
  Trigger,      \* entry_trigger of every plan
  MinInterval,  \* monitor_min_interval_seconds, in ticks
  Repeat,       \* alert_repeat_minutes, in ticks
  Slow,         \* bound of the model: ticks a message may be in handling
  MaxFailures,  \* bound of the model: failing store calls of the handlers
  MaxChanges    \* bound of the model: new plans and transactions of the user

Tasks == {"trade", "quote"}

ASSUME LevelsAssumption ==
  /\ Prices \subseteq Nat \ {0} /\ Prices # {}
  /\ {Stop, Tp1, Tp2, Trigger} \subseteq Nat /\ Stop < Tp1 /\ Tp1 <= Tp2
ASSUME BoundsAssumption ==
  /\ {MinInterval, Repeat} \subseteq Nat \ {0} /\ MinInterval <= Repeat
  /\ {MaxFailures, MaxChanges, Slow} \subseteq Nat

VARIABLES
  \* the tables, and the transaction the user has open
  row,          \* per position: is it open, does it have a stop order, is it reconciled
  plan,         \* per plan: not issued, ACTIVE without trigger, triggered, or over
  pending,      \* the uncommitted row of a fill or an exit, or NoChange
  changes,      \* counts towards MaxChanges
  \* the monitor
  cached,       \* _positions_by_symbol of the symbol
  cachedPlans,  \* _plans_by_symbol of the symbol
  wakeup,       \* _cache_wakeup is set
  loop,         \* where _cache_loop is; "dead" after an exception it does not catch
  listed,       \* the positions list_positions returned to refresh_cache
  lastPrice,    \* _last_price of the symbol, 0 for none
  lastAction,   \* _last_action per position, "NONE" if there is none
  sinceEval,    \* time since _last_eval_at, at most LongAgo
  sinceAlert,   \* time since _last_alert_at, at most Repeat + Slow; Never
  handler,      \* the message each subscription task is handling
  \* the environment
  price,        \* where the market trades
  heard,        \* the subscriptions that had their message of this tick
  issued,       \* per position: the action its latest alert was saved for, "NONE"
                \* before and when another action was remembered since
  sinceIssued,  \* time since the message of that alert, at most Repeat + Slow
  overlapped,   \* positions that two tasks were at work on at once, and whose memory no
                \* undisturbed alert has set right since
  failures      \* counts towards MaxFailures

tables  == <<row, plan, pending, changes>>
cache   == <<cached, cachedPlans, wakeup, loop, listed>>
memory  == <<lastAction, sinceEval, sinceAlert>>
alerts  == <<issued, sinceIssued, overlapped>>
vars    == <<tables, cache, lastPrice, memory, handler, heard, price, alerts, failures>>

Repeatable == {"SELL_NOW", "PLACE_STOP_NOW"}
Actionable == Repeatable \cup {"RECONCILE_REQUIRED", "TAKE_PROFIT", "TRIM"}
Actions    == Actionable \cup {"HOLD", "UNKNOWN_POSITION", "NONE"}
LongAgo    == MinInterval + Slow
Never      == Repeat + Slow + 1

\* levels: an imported position has no stop, or a stop and no targets above it.
Row(s)   == [status : s, protected : BOOLEAN, reconciled : BOOLEAN, levels : {"none", "stop", "all"}]
Unopened == [status |-> "none", protected |-> FALSE, reconciled |-> FALSE, levels |-> "none"]
Closed   == [Unopened EXCEPT !.status = "closed"]
NoChange == [row |-> Unopened, position |-> "none"]
Open     == {i \in Positions : row[i].status = "open"}

ASSUME InputsAssumption ==
  /\ Signals \subseteq [broken : BOOLEAN, late : BOOLEAN] /\ Signals # {}
  /\ OpenRows \subseteq Row({"open"}) /\ OpenRows # {}

Waiting  == {p \in Plans : plan[p] = "waiting"}

Idle == [stage |-> "idle", rest |-> {}, at |-> CHOOSE i \in Positions : TRUE, last |-> 0, age |-> 0,
         signal |-> CHOOSE s \in Signals : TRUE, plans |-> FALSE, act |-> "NONE", hits |-> {}]
Evaluating == {"evaluate", "compare", "append", "queue"}
AtWorkOn(t, i) == handler[t].stage \in Evaluating /\ handler[t].at = i
Stages == {"idle", "next", "evaluate", "compare", "append", "queue", "trigger", "record", "commit"}

CappedSlip(x, most) == x
Capped(x, most)     == IF x < most THEN x ELSE most

-----------------------------------------------------------------------------
(* evaluate_position (engines/position.py).  A signal is broken when the price *)
(* is below VWAP and the breakout has failed, late when time_stop_at has       *)
(* passed and the price is below the average fill.                             *)
ActionFor(x, last, signal) ==
  IF x.status # "open" THEN "UNKNOWN_POSITION"
  ELSE IF (x.levels # "none" /\ last <= Stop) \/ signal.broken THEN "SELL_NOW"
  ELSE IF ~x.protected THEN "PLACE_STOP_NOW"
  ELSE IF x.levels # "all" \/ ~x.reconciled THEN "RECONCILE_REQUIRED"
  ELSE IF signal.late THEN "SELL_NOW"
  ELSE IF last >= Tp2 THEN "TAKE_PROFIT"
  ELSE IF last >= Tp1 THEN "TRIM" ELSE "HOLD"

-----------------------------------------------------------------------------
(* The user's transactions and the hook *)

\* invalidate_cache(symbol)
Invalidate ==
  /\ cached' = {} /\ cachedPlans' = {}
  /\ wakeup' = TRUE
  /\ UNCHANGED <<loop, listed>>

\* confirm_fill and confirm_exit write, call the hook, and commit afterwards.
BeginChange(i, x) ==
  /\ pending = NoChange /\ changes < MaxChanges
  /\ \/ row[i] = Unopened /\ x \in OpenRows /\ x.levels = "all"   \* confirm_fill opens the twin
     \/ i \in Open /\ x = Closed             \* confirm_exit closes it
  /\ pending' = [row |-> x, position |-> i]
  /\ changes' = changes + 1
  /\ Invalidate
  /\ UNCHANGED <<row, plan, lastPrice, memory, handler, heard, price, alerts, failures>>

CommitChange ==
  /\ pending # NoChange
  /\ row' = [row EXCEPT ![pending.position] = pending.row]
  /\ pending' = NoChange
  /\ UNCHANGED <<plan, changes, cache, lastPrice, memory, handler, heard, price, alerts, failures>>

\* protect_position, import_position and reconcile_holdings do not call the hook.
Silently(rows) ==
  /\ changes < MaxChanges
  /\ row' = rows /\ row' # row
  /\ changes' = changes + 1
  /\ UNCHANGED <<plan, pending, cache, lastPrice, memory, handler, heard, price, alerts, failures>>

ProtectPosition(i) ==
  /\ i \in Open /\ pending.position # i /\ row[i].levels # "none"
  /\ Silently([row EXCEPT ![i] = [@ EXCEPT !.protected = TRUE, !.levels = "all"]])

ImportPosition(i, x) ==
  /\ row[i] = Unopened /\ pending.position # i /\ Open = {}
  /\ x.reconciled /\ (x.protected <=> x.levels # "none")
  /\ Silently([row EXCEPT ![i] = x])

\* The quantity declared for the symbol is that of its open twins together, or not.
ReconcileHoldings(agrees) ==
  /\ pending.position \notin Open
  /\ Silently([i \in Positions |-> IF i \in Open THEN [row[i] EXCEPT !.reconciled = agrees] ELSE row[i]])

\* build_plan does not call the hook either; a plan ends by expiry or activation.
PlanAppears(p) ==
  /\ plan[p] = "none" /\ changes < MaxChanges
  /\ plan' = [plan EXCEPT ![p] = "waiting"]
  /\ changes' = changes + 1
  /\ UNCHANGED <<row, pending, cache, lastPrice, memory, handler, heard, price, alerts, failures>>

PlanLeaves(p) ==
  /\ plan[p] = "waiting"
  /\ plan' = [plan EXCEPT ![p] = "gone"]
  /\ UNCHANGED <<row, pending, changes, cache, lastPrice, memory, handler, heard, price, alerts, failures>>

-----------------------------------------------------------------------------
(* The cache task *)

ListPositions ==
  /\ loop = "listing"
  /\ listed' = Open
  /\ loop' = "loading"
  /\ UNCHANGED <<tables, cached, cachedPlans, wakeup, lastPrice, memory, handler, heard, price, alerts, failures>>

\* list_plans returns: the cache is replaced, and the wake-up cleared after it.
LoadCache ==
  /\ loop = "loading"
  /\ cached' = listed
  /\ cachedPlans' = Waiting
  /\ wakeup' = FALSE
  /\ loop' = "sleeping"
  /\ UNCHANGED <<tables, listed, lastPrice, memory, handler, heard, price, alerts, failures>>

\* Either read raises: the old cache stays, the wake-up is cleared all the same.
RefreshFails ==
  /\ loop \in {"listing", "loading"} /\ failures < MaxFailures
  /\ wakeup' = FALSE
  /\ loop' = "sleeping"
  /\ failures' = failures + 1
  /\ UNCHANGED <<tables, cached, cachedPlans, listed, lastPrice, memory, handler, heard, price, alerts>>

\* An exception that _cache_loop does not catch, of asyncpg say, ends it for good.
CacheTaskDies ==
  /\ loop \in {"listing", "loading"} /\ failures < MaxFailures
  /\ loop' = "dead"
  /\ failures' = failures + 1
  /\ UNCHANGED <<tables, cached, cachedPlans, wakeup, listed, lastPrice, memory, handler, heard, price, alerts>>

\* The wait ends with the wake-up or after monitor_cache_refresh_seconds.
WaitEndsSlip == wakeup
WaitEnds     == TRUE

WakeLoop ==
  /\ loop = "sleeping" /\ WaitEnds
  /\ loop' = "listing"
  /\ UNCHANGED <<tables, cached, cachedPlans, wakeup, listed, lastPrice, memory, handler, heard, price, alerts, failures>>

-----------------------------------------------------------------------------
(* The subscription tasks *)

Goes(t, stage) == handler' = [handler EXCEPT ![t].stage = stage]

\* handle_message: a trade or quote arrives and there is something to look at.  More
\* than one message of a kind in a tick would find every position throttled.
Receive(t, signal) ==
  /\ handler[t] = Idle /\ t \notin heard
  /\ cached # {} \/ (t = "trade" /\ cachedPlans # {})
  /\ handler' = [handler EXCEPT ![t] =
       [Idle EXCEPT !.stage = "next", !.rest = cached, !.last = price, !.signal = signal,
                    !.plans = t = "trade" /\ cachedPlans # {}]]
  /\ heard' = heard \cup {t}
  /\ UNCHANGED <<tables, cache, lastPrice, memory, price, alerts, failures>>

ThrottledSlip(t, i) == FALSE
Throttled(t, i)     == sinceEval[i] - handler[t].age < MinInterval

\* The loop of _handle_position comes to position i.
NextPosition(t, i) ==
  /\ handler[t].stage = "next" /\ i \in handler[t].rest
  /\ handler' = [handler EXCEPT ![t].rest = @ \ {i}, ![t].at = i,
                                ![t].stage = IF Throttled(t, i) THEN "next" ELSE "evaluate"]
  /\ sinceEval' = IF Throttled(t, i) THEN sinceEval ELSE [sinceEval EXCEPT ![i] = handler[t].age]
  /\ overlapped' = IF ~Throttled(t, i) /\ \E u \in Tasks \ {t} : AtWorkOn(u, i)
                   THEN overlapped \cup {i} ELSE overlapped
  /\ UNCHANGED <<tables, cache, lastPrice, lastAction, sinceAlert, heard, price, issued, sinceIssued, failures>>

\* All positions are done: _handle_trigger follows, or the message is finished.
NoMorePositions(t) ==
  /\ handler[t].stage = "next" /\ handler[t].rest = {}
  /\ handler' = [handler EXCEPT ![t] = IF @.plans THEN [@ EXCEPT !.stage = "trigger"] ELSE Idle]
  /\ UNCHANGED <<tables, cache, lastPrice, memory, heard, price, alerts, failures>>

\* evaluate_position of the service reads the position's committed row.
Evaluate(t) ==
  LET h == handler[t]
  IN  /\ h.stage = "evaluate"
      /\ handler' = [handler EXCEPT ![t].stage = "compare",
                       ![t].act = ActionFor(row[h.at], h.last, h.signal)]
      /\ UNCHANGED <<tables, cache, lastPrice, memory, heard, price, alerts, failures>>

Changed(i, act)   == lastAction[i] # act
RepeatDueSlip(i, act, age) == act \in Repeatable /\ sinceAlert[i][act] # Never
RepeatDue(i, act, age) ==
  act \in Repeatable /\ sinceAlert[i][act] # Never /\ sinceAlert[i][act] - age >= Repeat

\* The action is compared with the one remembered.
Compare(t) ==
  LET h == handler[t]
  IN  /\ h.stage = "compare"
      /\ Goes(t, IF Changed(h.at, h.act) THEN "append"
                 ELSE IF RepeatDue(h.at, h.act, h.age) THEN "queue" ELSE "next")
      /\ UNCHANGED <<tables, cache, lastPrice, memory, heard, price, alerts, failures>>

\* POSITION_EVALUATED is appended and the action remembered.
AppendEvent(t) ==
  LET h == handler[t]
  IN  /\ h.stage = "append"
      /\ lastAction' = [lastAction EXCEPT ![h.at] = h.act]
      /\ issued' = [issued EXCEPT ![h.at] = IF h.act = @ THEN @ ELSE "NONE"]
      /\ Goes(t, IF h.act \in Actionable THEN "queue" ELSE "next")
      /\ UNCHANGED <<tables, cache, lastPrice, sinceEval, sinceAlert, heard, price, sinceIssued, overlapped, failures>>

\* The time the alert is remembered with is that of the message.
AlertStampSlip(t) == Never
AlertStamp(t)     == handler[t].age

QueueAlert(t) ==
  LET h == handler[t]
  IN  /\ h.stage = "queue"
      /\ sinceAlert' = IF h.act \in Repeatable
                       THEN [sinceAlert EXCEPT ![h.at][h.act] = AlertStamp(t)] ELSE sinceAlert
      /\ issued' = [issued EXCEPT ![h.at] = h.act]
      /\ sinceIssued' = [sinceIssued EXCEPT ![h.at] = h.age]
      /\ overlapped' = IF lastAction[h.at] = h.act /\ \A u \in Tasks \ {t} : ~AtWorkOn(u, h.at)
                       THEN overlapped \ {h.at} ELSE overlapped
      /\ Goes(t, "next")
      /\ UNCHANGED <<tables, cache, lastPrice, lastAction, sinceEval, heard, price, failures>>

\* The store raises: the message is abandoned, with the positions after this one.
StoreFails(t) ==
  /\ handler[t].stage \in {"evaluate", "append", "queue", "record", "commit"}
  /\ failures < MaxFailures
  /\ handler' = [handler EXCEPT ![t] = Idle]
  /\ failures' = failures + 1
  /\ UNCHANGED <<tables, cache, lastPrice, memory, heard, price, alerts>>

\* _handle_trigger: stale says the quote is too old, expired which plans have passed
\* their expires_at; crossing needs a previous price.
Crossed(previous, last) == previous # 0 /\ previous < Trigger /\ Trigger <= last

CheckTrigger(t, stale, expired) ==
  LET h == handler[t]
      look == cachedPlans # {} /\ ~stale
  IN  /\ h.stage = "trigger"
      /\ lastPrice' = IF look THEN h.last ELSE lastPrice
      /\ handler' = [handler EXCEPT ![t] =
           IF look /\ Crossed(lastPrice, h.last) /\ ~(cachedPlans \subseteq expired)
           THEN [@ EXCEPT !.stage = "record", !.hits = cachedPlans \ expired] ELSE Idle]
      /\ UNCHANGED <<tables, cache, memory, heard, price, alerts, failures>>

\* The plan the loop of _handle_trigger is at, and the loop going on after it.
Hit(t)   == CHOOSE p \in handler[t].hits : TRUE
After(t) ==
  LET left == handler[t].hits \ {Hit(t)}
  IN  [handler EXCEPT ![t] = IF left = {} THEN Idle ELSE [handler[t] EXCEPT !.stage = "record", !.hits = left]]

\* record_trigger_hit writes, calls the hook and commits later ...
RecordHit(t) ==
  /\ handler[t].stage = "record" /\ plan[Hit(t)] = "waiting"
  /\ Goes(t, "commit")
  /\ Invalidate
  /\ UNCHANGED <<tables, lastPrice, memory, heard, price, alerts, failures>>

\* ... or returns False for a plan that no longer waits.
SkipHit(t) ==
  /\ handler[t].stage = "record" /\ plan[Hit(t)] # "waiting"
  /\ cachedPlans' = cachedPlans \ {Hit(t)}
  /\ handler' = After(t)
  /\ UNCHANGED <<tables, cached, wakeup, loop, listed, lastPrice, memory, heard, price, alerts, failures>>

CommitHit(t) ==
  /\ handler[t].stage = "commit"
  /\ plan' = [plan EXCEPT ![Hit(t)] = "triggered"]
  /\ cachedPlans' = cachedPlans \ {Hit(t)}
  /\ handler' = After(t)
  /\ UNCHANGED <<row, pending, changes, cached, wakeup, loop, listed,
                 lastPrice, memory, heard, price, alerts, failures>>

-----------------------------------------------------------------------------
(* The environment *)

MarketMoves(x) ==
  /\ price' = x
  /\ UNCHANGED <<tables, cache, lastPrice, memory, handler, heard, alerts, failures>>

\* One tick.  It may pass while messages are handled.
Tick ==
  /\ \A t \in Tasks : handler[t] = Idle \/ handler[t].age < Slow
  /\ handler' = [t \in Tasks |-> IF handler[t] = Idle THEN Idle ELSE [handler[t] EXCEPT !.age = @ + 1]]
  /\ sinceEval' = [i \in Positions |-> Capped(sinceEval[i] + 1, LongAgo)]
  /\ sinceAlert' = [i \in Positions |-> [a \in Repeatable |->
                      IF sinceAlert[i][a] = Never THEN Never ELSE Capped(sinceAlert[i][a] + 1, Repeat + Slow)]]
  /\ sinceIssued' = [i \in Positions |-> Capped(sinceIssued[i] + 1, Repeat + Slow)]
  /\ heard' = {}
  /\ UNCHANGED <<tables, cache, lastPrice, lastAction, price, issued, overlapped, failures>>

-----------------------------------------------------------------------------
\* run() has loaded the cache once before it subscribes.
Init ==
  /\ row = [i \in Positions |-> Unopened]
  /\ plan = [p \in Plans |-> "none"]
  /\ pending = NoChange /\ changes = 0
  /\ cached = {} /\ cachedPlans = {} /\ wakeup = FALSE
  /\ loop = "listing" /\ listed = {}
  /\ lastPrice = 0
  /\ lastAction = [i \in Positions |-> "NONE"]
  /\ sinceEval = [i \in Positions |-> LongAgo]
  /\ sinceAlert = [i \in Positions |-> [a \in Repeatable |-> Never]]
  /\ handler = [t \in Tasks |-> Idle] /\ heard = {}
  /\ price \in Prices
  /\ issued = [i \in Positions |-> "NONE"]
  /\ sinceIssued = [i \in Positions |-> Repeat + Slow] /\ overlapped = {}
  /\ failures = 0

CacheStep == ListPositions \/ LoadCache \/ WakeLoop
HandlerStep(t) ==
  \/ \E i \in Positions : NextPosition(t, i)
  \/ NoMorePositions(t) \/ Evaluate(t) \/ Compare(t) \/ AppendEvent(t) \/ QueueAlert(t)
  \/ \E stale \in BOOLEAN, expired \in SUBSET Plans : CheckTrigger(t, stale, expired)
  \/ RecordHit(t) \/ SkipHit(t) \/ CommitHit(t)

Next ==
  \/ \E i \in Positions, x \in OpenRows \cup {Closed} : BeginChange(i, x)
  \/ \E i \in Positions : ProtectPosition(i) \/ \E x \in OpenRows : ImportPosition(i, x)
  \/ \E agrees \in BOOLEAN : ReconcileHoldings(agrees)
  \/ CommitChange
  \/ \E p \in Plans : PlanAppears(p) \/ PlanLeaves(p)
  \/ CacheStep \/ RefreshFails \/ CacheTaskDies
  \/ \E t \in Tasks : HandlerStep(t) \/ StoreFails(t) \/ \E s \in Signals : Receive(t, s)
  \/ \E x \in Prices : MarketMoves(x)
  \/ Tick

Spec == Init /\ [][Next]_vars

\* The tasks of a live process go on as long as their exceptions are caught, store calls
\* return in the end, time passes, and the symbol keeps trading.  Nothing is assumed of
\* prices, of the user or of how long a call takes.
FairSpec ==
  /\ Spec
  /\ WF_vars(CacheStep) /\ WF_vars(CommitChange) /\ WF_vars(Tick)
  /\ \A t \in Tasks : WF_vars(HandlerStep(t))
  /\ SF_vars(\E s \in Signals : Receive("trade", s))

-----------------------------------------------------------------------------
(* Properties *)

\* Rows, caches, memories and handlers are of their types.
TypeOK ==
  /\ row \in [Positions -> Row({"none", "open", "closed"})]
  /\ plan \in [Plans -> {"none", "waiting", "triggered", "gone"}]
  /\ cached \subseteq Positions /\ listed \subseteq Positions /\ cachedPlans \subseteq Plans
  /\ loop \in {"listing", "loading", "sleeping", "dead"} /\ wakeup \in BOOLEAN
  /\ lastPrice \in Prices \cup {0} /\ price \in Prices
  /\ lastAction \in [Positions -> Actions] /\ issued \in [Positions -> Actions]
  /\ sinceEval \in [Positions -> 0..LongAgo]
  /\ sinceAlert \in [Positions -> [Repeatable -> 0..Never]]
  /\ \A t \in Tasks : handler[t].stage \in Stages /\ handler[t].rest \subseteq Positions /\ handler[t].age \in 0..Slow
  /\ overlapped \subseteq Positions

\* Two tasks are at work on one position only if the throttle's interval lies between the
\* messages they handle: the first restarts it before its first await, and a message that
\* is older than another one's never counts as later (_handle_position).
ThrottleSeparates ==
  \A t, u \in Tasks : \A i \in Positions :
    t # u /\ AtWorkOn(t, i) /\ AtWorkOn(u, i) =>
      \/ handler[t].age - handler[u].age >= MinInterval
      \/ handler[u].age - handler[t].age >= MinInterval

\* An alert is saved for the action the position's last alert was saved for.
SavedAgain(t) ==
  /\ handler[t].stage = "queue" /\ handler'[t].stage = "next"
  /\ issued[handler[t].at] = handler[t].act
\* ... for an action to repeat, by a message the interval later than that of the last one.
Due(t) ==
  /\ handler[t].act \in Repeatable
  /\ sinceIssued[handler[t].at] - handler[t].age >= Repeat

\* alert_repeat_minutes: an alert is saved again early only for a position that two tasks
\* were at work on at once, since an alert was saved that nothing disturbed; failures, the
\* cache, other actions in between and slow calls alone do not bring it about.
RepeatsOnlyByOverlap == [][\A t \in Tasks : SavedAgain(t) /\ handler[t].at \notin overlapped => Due(t)]_vars

\* The hook runs before the commit, some methods do not call it, and a wake-up set
\* during a refresh is cleared unseen: the cache still ends up equal to the tables, unless
\* an exception ended its task.
CacheConverges == <>(loop = "dead") \/ <>[](cached = Open /\ cachedPlans = Waiting)

UnderStop(i) == i \in Open /\ row[i].levels # "none" /\ price <= Stop

\* A position that stays open at or under its stop is alerted again and again, if no
\* store call failed: neither the throttle nor the memory of the last action nor the
\* cache silences it, nor two tasks at work on it at once.
SellNowRepeats ==
  \A i \in Positions :
    <>[](UnderStop(i) /\ failures = 0) => []<>(issued[i] = "SELL_NOW" /\ sinceIssued[i] <= Slow)

\* "When an exit condition fires, an Exit Action is issued" (docs/ARCHITECTURE.md): a
\* position that stays open at or under its stop has a SELL_NOW alert eventually.
ExitActionIssued ==
  \A i \in Positions : <>[]UnderStop(i) => <>(issued[i] = "SELL_NOW")

=============================================================================
