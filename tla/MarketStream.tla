---------------------------- MODULE MarketStream ----------------------------
(***************************************************************************)
(* The market stream: the worker that keeps the subscriptions of a         *)
(* streaming connection in step with positions, plans and the watchlist    *)
(* and reconnects when the connection breaks or goes silent                *)
(* (runtime/stream_worker.py, providers/alpaca_stream.py), and the monitor *)
(* in the API process that announces a silent stream during the market     *)
(* session (runtime/stream_health.py).                                     *)
(*                                                                         *)
(* Time is counted in units longer than a synchronisation, the throttle of *)
(* stream_last_message_at and the monitor's poll; the jitter of the sleep  *)
(* is left out.  Every unit of the last day is followed by nights without  *)
(* end, so that time never stops.  Messages have no content: any message,  *)
(* an acknowledgement or a refusal included, counts as life on the         *)
(* connection, and parse_message drops what is no market event.            *)
(***************************************************************************)
EXTENDS Integers, FiniteSets, Sequences

CONSTANTS
  Symbols, Watchlist,       \* STREAM_SYMBOLS
  Cap,                      \* stream_max_symbols
  Limit,                    \* symbols the provider's plan allows on a connection
  Refresh,                  \* stream_subscription_refresh_seconds
  StaleAfter,               \* stream_stale_seconds
  AlertAfter,               \* stream_stale_alert_seconds
  MaxDelay,                 \* the longest sleep between connections
  DayLength, Opens, Closes, \* a day and its regular session
  Days,                     \* market days
  MaxChanges, MaxFailures   \* bound the changes of the tables and the failing calls

ASSUME StreamAssumption ==
  /\ IsFiniteSet(Symbols) /\ Watchlist \subseteq Symbols
  /\ Cap \in Nat \ {0} /\ Limit \in Nat /\ Cap <= Limit  \* validate in settings.py
  /\ {Refresh, StaleAfter, AlertAfter, MaxDelay, Days} \subseteq Nat \ {0}
  /\ {DayLength, Opens, Closes, MaxChanges, MaxFailures} \subseteq Nat
  /\ Opens < Closes /\ Closes < DayLength

VARIABLES
  now, positions, plans, changes, failures,
  phase,      \* where the worker is
  seen,       \* positions it has read for the synchronisation in progress
  desired,    \* the selection of that synchronisation
  subscribed, \* _subscribed
  server,     \* what the provider streams on this connection
  refused,    \* it has refused a request of this connection
  silent,     \* units since the last message of this connection
  left,       \* units until next_refresh
  delay, wait,\* delay of run; units left to sleep
  connected, lastAt, shown, \* rows: stream_connected, stream_last_message_at, subscribed_symbols
  flag,       \* rows: stream_stale, stream_stale_session_date
  pending,    \* what the check that is running will announce
  polled,     \* a check has ended in this unit
  up,         \* the monitor's task runs
  alerts      \* the alerts it saved

worker  == <<phase, seen, desired, subscribed, server, refused, silent, left, delay, wait, connected, shown>>
monitor == <<flag, pending, polled, up, alerts>>
tables  == <<positions, plans, changes>>
vars    == <<now, tables, failures, worker, lastAt, monitor>>

Never   == -1
Horizon == Days * DayLength
Phases  == {"connect", "positions", "plans", "subscribe", "unsubscribe", "listen", "sleep", "dead"}
Lesser(a, b) == IF a <= b THEN a ELSE b

-----------------------------------------------------------------------------
(* Subscriptions *)

\* select_subscription_symbols: positions, then live plans, then the watchlist, cut at the
\* cap.  The store's order within a class is arbitrary.
RankSlip(s) == IF s \in plans THEN 0 ELSE IF s \in seen THEN 1 ELSE 2
Rank(s)     == IF s \in seen THEN 0 ELSE IF s \in plans THEN 1 ELSE 2
Wanted      == seen \cup plans \cup Watchlist
SizeSlip    == Cardinality(Wanted)
Size        == Lesser(Cap, Cardinality(Wanted))
Selected(S) ==
  /\ S \subseteq Wanted /\ Cardinality(S) = Size
  /\ \A s \in S, r \in Wanted \ S : Rank(s) <= Rank(r)

\* Positions and plans are read one after the other; a fill may fall between.
ReadPositions ==
  /\ phase = "positions" /\ phase' = "plans"
  /\ seen' = positions
  /\ UNCHANGED <<now, tables, failures, desired, subscribed, server, refused, silent, left, delay, wait,
                 connected, shown, lastAt, monitor>>

ReadPlans ==
  /\ phase = "plans" /\ phase' = "subscribe"
  /\ \E S \in SUBSET Symbols : Selected(S) /\ desired' = S
  /\ UNCHANGED <<now, tables, failures, seen, subscribed, server, refused, silent, left, delay, wait,
                 connected, shown, lastAt, monitor>>

\* What is new is added before what is gone is removed.  The request is only sent: the
\* provider may refuse what exceeds its plan, and the worker goes on as if it had not.
Asked == server \cup (desired \ subscribed)
Subscribe ==
  /\ phase = "subscribe" /\ phase' = "unsubscribe"
  /\ \/ server' = Asked /\ UNCHANGED refused
     \/ Cardinality(Asked) > Limit /\ refused' = TRUE /\ UNCHANGED server
  /\ UNCHANGED <<now, tables, failures, seen, desired, subscribed, silent, left, delay, wait,
                 connected, shown, lastAt, monitor>>

Unsubscribe ==
  /\ phase = "unsubscribe" /\ phase' = "listen"
  /\ server' = server \ (subscribed \ desired)
  /\ subscribed' = desired /\ shown' = desired
  /\ UNCHANGED <<now, tables, failures, seen, desired, refused, silent, left, delay, wait,
                 connected, lastAt, monitor>>

-----------------------------------------------------------------------------
(* The connection *)

\* Connected and authenticated; the provider streams nothing yet.
KeptSlip == subscribed
Kept     == {}
Connect ==
  /\ phase = "connect" /\ phase' = "positions"
  /\ subscribed' = Kept /\ server' = {} /\ connected' = TRUE
  /\ silent' = 0 /\ left' = Refresh
  /\ UNCHANGED <<now, tables, failures, seen, desired, refused, delay, wait, shown, lastAt, monitor>>

Receive ==
  /\ phase = "listen"
  /\ silent' = 0 /\ lastAt' = now
  /\ UNCHANGED <<now, tables, failures, phase, seen, desired, subscribed, server, refused, left, delay, wait,
                 connected, shown, monitor>>

\* next_refresh has come, after a message or a timeout.
RefreshDue ==
  /\ phase = "listen" /\ left = 0 /\ silent < StaleAfter
  /\ phase' = "positions" /\ left' = Refresh
  /\ UNCHANGED <<now, tables, failures, seen, desired, subscribed, server, refused, silent, delay, wait,
                 connected, shown, lastAt, monitor>>

\* run's handlers: the row is written, the connection closed, and the worker sleeps.
Disconnected ==
  /\ phase' = "sleep" /\ connected' = FALSE /\ server' = {} /\ refused' = FALSE
  /\ wait' = Lesser(delay, MaxDelay) /\ delay' = Lesser(2 * delay, MaxDelay)
  /\ UNCHANGED <<now, tables, seen, desired, subscribed, silent, left, shown, monitor>>

Online == phase \notin {"connect", "sleep", "dead"}

\* STREAM_STALE: the connection was silent for too long.
GoneSilent ==
  /\ phase = "listen" /\ silent >= StaleAfter
  /\ Disconnected /\ UNCHANGED <<failures, lastAt>>

\* A call of the connection or the store raises, possibly after the effect of a message.
Disconnect ==
  /\ (Online \/ phase = "connect") /\ failures < MaxFailures
  /\ failures' = failures + 1
  /\ Disconnected
  /\ lastAt' = lastAt \/ (phase = "listen" /\ lastAt' = now)

\* The process dies, by an exception run does not catch or by a crash.  The row is
\* written only if the finally clause runs.
Die ==
  /\ phase # "dead" /\ failures < MaxFailures
  /\ failures' = failures + 1
  /\ phase' = "dead" /\ server' = {} /\ refused' = FALSE /\ subscribed' = {} /\ seen' = {} /\ desired' = {}
  /\ silent' = 0 /\ left' = 0 /\ wait' = 0 /\ delay' = 1
  /\ connected' \in {FALSE, connected}
  /\ UNCHANGED <<now, tables, shown, lastAt, monitor>>

Wake ==
  /\ phase = "dead" \/ (phase = "sleep" /\ wait = 0)
  /\ phase' = "connect"
  /\ UNCHANGED <<now, tables, failures, seen, desired, subscribed, server, refused, silent, left, delay, wait,
                 connected, shown, lastAt, monitor>>

-----------------------------------------------------------------------------
(* The stale monitor *)

Day       == now \div DayLength
InSession == now < Horizon /\ now % DayLength \in Opens..(Closes - 1)
OpenAt    == Day * DayLength + Opens

\* The last message, or the opening when that is later.
ReferenceSlip == IF lastAt = Never THEN OpenAt ELSE lastAt
Reference     == IF lastAt > OpenAt THEN lastAt ELSE OpenAt
Quiet         == now - Reference > AlertAfter

\* A flag of an earlier session does not count.
WasStaleSlip == flag.stale
WasStale     == flag.stale /\ flag.on = Day

\* The rows are read and the decision taken.
Check ==
  /\ up /\ InSession /\ pending = "none"
  /\ pending' = IF Quiet = WasStale THEN "none" ELSE IF Quiet THEN "STREAM_STALE" ELSE "STREAM_RECOVERED"
  /\ polled' = TRUE
  /\ UNCHANGED <<now, tables, failures, worker, lastAt, flag, up, alerts>>

\* The flag, the alert and the event, in one transaction.
Announce ==
  /\ pending # "none"
  /\ flag' = [stale |-> pending = "STREAM_STALE", on |-> Day]
  /\ alerts' = Append(alerts, [kind |-> pending, day |-> Day])
  /\ pending' = "none"
  /\ UNCHANGED <<now, tables, failures, worker, lastAt, polled, up>>

\* The check raises and is repeated at the next poll, or the task or the process dies.
CheckFails(caught) ==
  /\ up /\ InSession /\ failures < MaxFailures
  /\ failures' = failures + 1
  /\ pending' = "none" /\ polled' = FALSE /\ up' = caught
  /\ UNCHANGED <<now, tables, worker, lastAt, flag, alerts>>

MonitorRestarts ==
  /\ ~up /\ up' = TRUE
  /\ UNCHANGED <<now, tables, failures, worker, lastAt, flag, pending, polled, alerts>>

-----------------------------------------------------------------------------
(* Environment *)

Changed == changes < MaxChanges /\ changes' = changes + 1
           /\ UNCHANGED <<now, failures, worker, lastAt, monitor>>

\* A holding is imported, or a plan is filled, in full or in part.
OpenPosition(s) ==
  /\ s \notin positions /\ Changed
  /\ positions' = positions \cup {s} /\ plans' \in {plans, plans \ {s}}
ClosePosition(s) == s \in positions /\ Changed /\ positions' = positions \ {s} /\ UNCHANGED plans
IssuePlan(s)     == s \notin plans /\ Changed /\ plans' = plans \cup {s} /\ UNCHANGED positions
EndPlan(s)       == s \in plans /\ Changed /\ plans' = plans \ {s} /\ UNCHANGED positions

\* No unit passes during a synchronisation or a check, or unseen by who waits for it.
Tick ==
  /\ phase \in {"connect", "dead"} \/ (phase = "sleep" /\ wait > 0)
       \/ (phase = "listen" /\ silent < StaleAfter /\ left > 0)
  /\ pending = "none" /\ (up /\ InSession => polled)
  /\ now' = Lesser(now + 1, Horizon) /\ polled' = FALSE
  /\ IF phase = "listen" THEN silent' = silent + 1 /\ left' = left - 1 ELSE UNCHANGED <<silent, left>>
  /\ wait' = IF phase = "sleep" THEN wait - 1 ELSE wait
  /\ UNCHANGED <<tables, failures, phase, seen, desired, subscribed, server, refused, delay, connected, shown,
                 lastAt, flag, pending, up, alerts>>

-----------------------------------------------------------------------------
Init ==
  /\ now = 0 /\ positions = {} /\ plans = {} /\ changes = 0 /\ failures = 0
  /\ phase = "connect" /\ seen = {} /\ desired = {} /\ subscribed = {} /\ server = {}
  /\ refused = FALSE /\ silent = 0 /\ left = 0 /\ delay = 1 /\ wait = 0
  /\ connected = FALSE /\ lastAt = Never /\ shown = {}
  /\ flag = [stale |-> FALSE, on |-> Never] /\ pending = "none" /\ polled = FALSE
  /\ up = TRUE /\ alerts = <<>>

WorkerStep == ReadPositions \/ ReadPlans \/ Subscribe \/ Unsubscribe \/ Connect \/ RefreshDue \/ GoneSilent \/ Wake

Next ==
  \/ WorkerStep \/ Receive \/ Disconnect \/ Die
  \/ Check \/ Announce \/ MonitorRestarts \/ \E caught \in BOOLEAN : CheckFails(caught)
  \/ \E s \in Symbols : OpenPosition(s) \/ ClosePosition(s) \/ IssuePlan(s) \/ EndPlan(s)
  \/ Tick

Spec == Init /\ [][Next]_vars

\* The worker's own steps go on, a connection attempt is answered, the container is
\* started again, the monitor polls and time passes.
FairSpec == Spec /\ WF_vars(WorkerStep) /\ WF_vars(Check) /\ WF_vars(Announce) /\ WF_vars(Tick)

-----------------------------------------------------------------------------
(* Properties *)

\* Shapes; no more symbols are kept than the cap, although the provider may be asked for
\* more between subscribe and unsubscribe.
TypeOK ==
  /\ now \in 0..Horizon /\ positions \subseteq Symbols /\ plans \subseteq Symbols
  /\ changes \in 0..MaxChanges /\ failures \in 0..MaxFailures /\ phase \in Phases
  /\ seen \subseteq Symbols /\ desired \subseteq Symbols /\ server \subseteq Symbols /\ shown \subseteq Symbols
  /\ subscribed \subseteq Symbols /\ Cardinality(subscribed) <= Cap /\ refused \in BOOLEAN
  /\ silent \in 0..StaleAfter /\ left \in 0..Refresh
  /\ delay \in 1..MaxDelay /\ wait \in 0..MaxDelay
  /\ connected \in BOOLEAN /\ lastAt \in {Never} \cup 0..Horizon
  /\ flag \in [stale : BOOLEAN, on : {Never} \cup 0..Days]
  /\ pending \in {"none", "STREAM_STALE", "STREAM_RECOVERED"} /\ polled \in BOOLEAN /\ up \in BOOLEAN
  /\ alerts \in Seq([kind : {"STREAM_STALE", "STREAM_RECOVERED"}, day : 0..Days])

\* Whenever the worker listens, /health shows what it believes, the provider streams
\* nothing else, and all of it unless it refused a request of this very connection:
\* however often a connection broke in the middle of a synchronisation
\* (_sync_subscriptions, _consume_connection).
SubscriptionsTrue ==
  phase = "listen" => shown = subscribed /\ server \subseteq subscribed /\ (server = subscribed \/ refused)

\* An open position comes to be streamed, or is closed, or there are more positions than
\* the cap allows, or the provider refuses a request: whatever plans and watchlist ask
\* for, whenever connections break and whatever is filled during a synchronisation
\* (select_subscription_symbols, run).
PositionsWatched ==
  \A s \in Symbols :
    s \in positions ~> (s \in server \/ s \notin positions \/ Cardinality(positions) > Cap \/ refused)

\* Each session's alerts start with stale and alternate, whatever flag the day before left
\* and whoever restarts; stale says that nothing came for the whole threshold, none of it
\* before the opening, unless a message came during the check itself; recovered that
\* something came within the threshold (StreamStaleMonitor.check).
AlarmsTrue ==
  [][alerts' # alerts =>
       LET open  == Len(alerts) > 0 /\ alerts[Len(alerts)] = [kind |-> "STREAM_STALE", day |-> Day]
           stale == alerts'[Len(alerts')].kind = "STREAM_STALE"
       IN
       /\ stale <=> ~open
       /\ stale => now - OpenAt > AlertAfter /\ (now - lastAt > AlertAfter \/ lastAt = now)
       /\ ~stale => now - lastAt <= AlertAfter]_vars

\* And none is missed: after a check the flag is that of today's session and set exactly
\* when the stream was quiet for longer than the threshold, unless a message came since.
StaleNoticed ==
  up /\ InSession /\ polled /\ pending = "none" /\ lastAt # now =>
    (flag = [stale |-> TRUE, on |-> Day] <=> (now - OpenAt > AlertAfter /\ now - lastAt > AlertAfter))
=============================================================================
