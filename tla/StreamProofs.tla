---------------------------- MODULE StreamProofs ----------------------------
(***************************************************************************)
(* Theorems about the market stream, for any symbols, cap, thresholds and  *)
(* calendar and any number of failures: the types with the cap, that the   *)
(* worker believes what the provider streams unless that refused a         *)
(* request, and that the stale monitor announces what happened and misses  *)
(* nothing.                                                                *)
(***************************************************************************)
EXTENDS MarketStream, FiniteSetTheorems, TLAPS

-----------------------------------------------------------------------------
(* Constants and days *)

LEMMA StreamFacts ==
  /\ IsFiniteSet(Symbols) /\ Watchlist \subseteq Symbols
  /\ Cap \in Nat /\ Limit \in Nat /\ Refresh \in Nat /\ StaleAfter \in Nat /\ AlertAfter \in Nat
  /\ MaxDelay \in Nat /\ MaxDelay >= 1 /\ Days \in Nat /\ Opens \in Nat
  /\ DayLength \in Nat /\ DayLength >= 1 /\ MaxChanges \in Nat /\ MaxFailures \in Nat
  /\ Horizon \in Nat
BY StreamAssumption DEF Horizon

\* The number of a day, given its length.
LEMMA DivFacts ==
  ASSUME NEW n \in Nat, NEW d \in Nat, d >= 1
  PROVE  /\ n \div d \in Nat
         /\ d * (n \div d) <= n /\ n < d * (n \div d) + d
OBVIOUS

LEMMA DivBound ==
  ASSUME NEW n \in Nat, NEW d \in Nat, d >= 1, NEW m \in Nat, n <= m * d
  PROVE  n \div d <= m
<1> DEFINE q == n \div d
<1>1. q \in Nat /\ d * q <= n
  BY DivFacts
<1> HIDE DEF q
<1>2. SUFFICES ASSUME q >= m + 1 PROVE FALSE
  BY <1>1 DEF q
<1>3. d * q >= d * (m + 1)
  BY <1>1, <1>2
<1>4. d * (m + 1) = m * d + d
  OBVIOUS
<1> QED BY <1>1, <1>3, <1>4

LEMMA DivGrows ==
  ASSUME NEW n \in Nat, NEW d \in Nat, d >= 1
  PROVE  (n + 1) \div d >= n \div d
<1> DEFINE q == n \div d
           r == (n + 1) \div d
<1>1. q \in Nat /\ r \in Nat /\ d * q <= n /\ n + 1 < d * r + d
  BY DivFacts
<1> HIDE DEF q, r
<1>2. SUFFICES ASSUME r + 1 <= q PROVE FALSE
  BY <1>1 DEF q, r
<1>3. d * (r + 1) <= d * q
  BY <1>1, <1>2
<1>4. d * (r + 1) = d * r + d
  BY <1>1
<1> QED BY <1>1, <1>3, <1>4

LEMMA DayFacts ==
  ASSUME now \in 0..Horizon
  PROVE  /\ Day \in 0..Days /\ OpenAt \in Nat
         /\ now' = Lesser(now + 1, Horizon) => now' \in 0..Horizon /\ now' >= now /\ Day' >= Day
<1> USE StreamFacts
<1>1. Day \in 0..Days
  BY DivFacts, DivBound DEF Day, Horizon
<1>2. OpenAt \in Nat
  BY <1>1 DEF OpenAt
<1>3. ASSUME now' = Lesser(now + 1, Horizon)
      PROVE  now' \in 0..Horizon /\ now' >= now /\ Day' >= Day
  <2>1. now' \in 0..Horizon /\ (now' = now + 1 \/ now' = now)
    BY <1>3 DEF Lesser
  <2>2. (now + 1) \div DayLength >= now \div DayLength
    BY DivGrows
  <2>3. CASE now' = now
    BY <1>1, <2>1, <2>3 DEF Day
  <2>4. CASE now' = now + 1
    BY <2>1, <2>2, <2>4 DEF Day
  <2> QED BY <2>1, <2>3, <2>4
<1> QED BY <1>1, <1>2, <1>3

-----------------------------------------------------------------------------
(* Types *)

\* TypeOK with what Cap bounds already while a synchronisation is prepared, and when a
\* check can be pending.
TablesOK ==
  /\ now \in 0..Horizon /\ positions \subseteq Symbols /\ plans \subseteq Symbols
  /\ changes \in 0..MaxChanges /\ failures \in 0..MaxFailures
WorkerOK ==
  /\ phase \in Phases
  /\ seen \subseteq Symbols /\ desired \subseteq Symbols /\ server \subseteq Symbols /\ shown \subseteq Symbols
  /\ subscribed \subseteq Symbols /\ Cardinality(subscribed) <= Cap /\ Cardinality(desired) <= Cap
  /\ silent \in 0..StaleAfter /\ left \in 0..Refresh
  /\ delay \in 1..MaxDelay /\ wait \in 0..MaxDelay
  /\ connected \in BOOLEAN /\ refused \in BOOLEAN
MonitorOK ==
  /\ lastAt \in {Never} \cup 0..Horizon
  /\ flag \in [stale : BOOLEAN, on : {Never} \cup 0..Days]
  /\ pending \in {"none", "STREAM_STALE", "STREAM_RECOVERED"} /\ polled \in BOOLEAN /\ up \in BOOLEAN
  /\ alerts \in Seq([kind : {"STREAM_STALE", "STREAM_RECOVERED"}, day : 0..Days])
Shape == TablesOK /\ WorkerOK /\ MonitorOK

LEMMA TypeParts == Shape => TypeOK
BY DEF Shape, TablesOK, WorkerOK, MonitorOK, TypeOK

\* A selection is never larger than the cap.
LEMMA SelectedSize ==
  ASSUME Shape, NEW S \in SUBSET Symbols, Selected(S)
  PROVE  Cardinality(S) <= Cap
<1>1. Wanted \in SUBSET Symbols
  BY StreamFacts DEF Wanted, Shape, TablesOK, WorkerOK
<1>2. Cardinality(Wanted) \in Nat
  BY <1>1, StreamFacts, FS_Subset, FS_CardinalityType
<1> QED BY <1>2, StreamFacts DEF Selected, Size, Lesser

LEMMA TablesStep ==
  ASSUME Shape, [Next]_vars
  PROVE  TablesOK'
<1> USE StreamFacts DEF Shape
<1>1. CASE UNCHANGED <<now, tables>> /\ (failures' = failures \/ (failures < MaxFailures /\ failures' = failures + 1))
  BY <1>1 DEF tables, TablesOK
<1>2. ASSUME NEW s \in Symbols, OpenPosition(s) \/ ClosePosition(s) \/ IssuePlan(s) \/ EndPlan(s)
      PROVE  TablesOK'
  BY <1>2 DEF OpenPosition, ClosePosition, IssuePlan, EndPlan, Changed, TablesOK
<1>3. CASE Tick
  BY <1>3, DayFacts DEF Tick, tables, TablesOK
<1>4. ASSUME WorkerStep \/ Receive \/ Disconnect \/ Die \/ Check \/ Announce \/ MonitorRestarts
             \/ (\E caught \in BOOLEAN : CheckFails(caught)) \/ UNCHANGED vars
      PROVE  UNCHANGED <<now, tables>> /\ (failures' = failures \/ (failures < MaxFailures /\ failures' = failures + 1))
  BY <1>4 DEF WorkerStep, ReadPositions, ReadPlans, Subscribe, Unsubscribe, Connect, RefreshDue, GoneSilent, Wake,
              Receive, Disconnect, Disconnected, Die, Check, Announce, MonitorRestarts, CheckFails, vars
<1> QED BY <1>1, <1>2, <1>3, <1>4 DEF Next

LEMMA WorkerStepOK ==
  ASSUME Shape, [Next]_vars
  PROVE  WorkerOK'
<1> USE StreamFacts DEF Shape
<1>0. Cardinality({}) = 0
  BY FS_EmptySet
<1>1. CASE UNCHANGED worker
  BY <1>1 DEF worker, WorkerOK
<1>2. CASE ReadPositions
  BY <1>2 DEF ReadPositions, WorkerOK, TablesOK, Phases
<1>3. CASE ReadPlans
  <2>1. desired' \subseteq Symbols /\ Cardinality(desired') <= Cap
    BY <1>3, SelectedSize DEF ReadPlans
  <2> QED BY <1>3, <2>1 DEF ReadPlans, WorkerOK, Phases
<1>4. CASE Subscribe \/ Unsubscribe \/ Wake
  BY <1>4 DEF Subscribe, Asked, Unsubscribe, Wake, WorkerOK, Phases
<1>5. CASE Connect
  BY <1>0, <1>5 DEF Connect, Kept, WorkerOK, Phases
<1>6. CASE Receive \/ RefreshDue
  BY <1>6 DEF Receive, RefreshDue, WorkerOK, Phases
<1>7. CASE Disconnected
  <2>1. delay \in 1..MaxDelay
    BY DEF WorkerOK
  <2>2. wait' \in 0..MaxDelay /\ delay' \in 1..MaxDelay
    BY <1>7, <2>1 DEF Disconnected, Lesser
  <2>3. phase' \in Phases
    BY <1>7 DEF Disconnected, Phases
  <2> QED BY <1>7, <2>2, <2>3 DEF Disconnected, WorkerOK
<1>8. CASE Die
  <2>1. phase' \in Phases /\ connected' \in BOOLEAN
    BY <1>8 DEF Die, WorkerOK, Phases
  <2>2. /\ server' = {} /\ refused' = FALSE /\ subscribed' = {} /\ seen' = {} /\ desired' = {}
        /\ silent' = 0 /\ left' = 0 /\ wait' = 0 /\ delay' = 1 /\ shown' = shown
    BY <1>8 DEF Die
  <2>3. Cardinality(subscribed') <= Cap /\ Cardinality(desired') <= Cap
    BY <1>0, <2>2
  <2>4. silent' \in 0..StaleAfter /\ left' \in 0..Refresh /\ delay' \in 1..MaxDelay /\ wait' \in 0..MaxDelay
    BY <2>2
  <2> QED BY <2>1, <2>2, <2>3, <2>4 DEF WorkerOK
<1>9. CASE Tick
  BY <1>9 DEF Tick, WorkerOK
<1>10. Disconnect \/ GoneSilent => Disconnected
  BY DEF Disconnect, GoneSilent
<1>11. ASSUME \/ Check \/ Announce \/ MonitorRestarts \/ \E caught \in BOOLEAN : CheckFails(caught)
              \/ \E s \in Symbols : OpenPosition(s) \/ ClosePosition(s) \/ IssuePlan(s) \/ EndPlan(s)
              \/ UNCHANGED vars
       PROVE  UNCHANGED worker
  BY <1>11 DEF Check, Announce, MonitorRestarts, CheckFails, OpenPosition, ClosePosition, IssuePlan, EndPlan,
               Changed, vars
<1> QED BY <1>1, <1>2, <1>3, <1>4, <1>5, <1>6, <1>7, <1>8, <1>9, <1>10, <1>11 DEF Next, WorkerStep

LEMMA MonitorStepOK ==
  ASSUME Shape, [Next]_vars
  PROVE  MonitorOK'
<1> USE StreamFacts DEF Shape
<1>1. CASE UNCHANGED monitor /\ (lastAt' = lastAt \/ lastAt' = now)
  BY <1>1 DEF monitor, MonitorOK, TablesOK
<1>2. CASE Check
  BY <1>2 DEF Check, MonitorOK
<1>3. CASE Announce
  <2>1. Day \in 0..Days /\ pending \in {"STREAM_STALE", "STREAM_RECOVERED"}
    BY <1>3, DayFacts DEF Announce, MonitorOK, TablesOK
  <2>2. [kind |-> pending, day |-> Day] \in [kind : {"STREAM_STALE", "STREAM_RECOVERED"}, day : 0..Days]
    BY <2>1
  <2>3. alerts' \in Seq([kind : {"STREAM_STALE", "STREAM_RECOVERED"}, day : 0..Days])
    BY <1>3, <2>2 DEF Announce, MonitorOK
  <2>4. flag' \in [stale : BOOLEAN, on : {Never} \cup 0..Days]
    BY <1>3, <2>1 DEF Announce
  <2> QED BY <1>3, <2>3, <2>4 DEF Announce, MonitorOK
<1>4. CASE MonitorRestarts \/ \E caught \in BOOLEAN : CheckFails(caught)
  BY <1>4 DEF MonitorRestarts, CheckFails, MonitorOK
<1>5. CASE Tick
  BY <1>5 DEF Tick, MonitorOK
<1>6. ASSUME \/ WorkerStep \/ Receive \/ Disconnect \/ Die \/ UNCHANGED vars
             \/ \E s \in Symbols : OpenPosition(s) \/ ClosePosition(s) \/ IssuePlan(s) \/ EndPlan(s)
      PROVE  UNCHANGED monitor /\ (lastAt' = lastAt \/ lastAt' = now)
  BY <1>6 DEF WorkerStep, ReadPositions, ReadPlans, Subscribe, Unsubscribe, Connect, RefreshDue, GoneSilent, Wake,
              Receive, Disconnect, Disconnected, Die, OpenPosition, ClosePosition, IssuePlan, EndPlan, Changed, vars
<1> QED BY <1>1, <1>2, <1>3, <1>4, <1>5, <1>6 DEF Next

LEMMA ShapeInit == Init => Shape
<1>1. Cardinality({}) = 0
  BY FS_EmptySet
<1> SUFFICES ASSUME Init PROVE Shape
  OBVIOUS
<1> USE StreamFacts
<1>2. TablesOK
  BY DEF Init, TablesOK
<1>3. WorkerOK
  <2>1. delay = 1 /\ wait = 0 /\ silent = 0 /\ left = 0 /\ phase = "connect" /\ connected = FALSE
         /\ refused = FALSE
    BY DEF Init
  <2>2. seen = {} /\ desired = {} /\ server = {} /\ shown = {} /\ subscribed = {}
    BY DEF Init
  <2>3. phase \in Phases /\ connected \in BOOLEAN /\ refused \in BOOLEAN
    BY <2>1 DEF Phases
  <2>4. silent \in 0..StaleAfter /\ left \in 0..Refresh /\ delay \in 1..MaxDelay /\ wait \in 0..MaxDelay
    BY <2>1
  <2>5. Cardinality(subscribed) <= Cap /\ Cardinality(desired) <= Cap
    BY <1>1, <2>2
  <2> QED BY <2>2, <2>3, <2>4, <2>5 DEF WorkerOK
<1>4. MonitorOK
  <2>1. flag \in [stale : BOOLEAN, on : {Never} \cup 0..Days]
    BY DEF Init
  <2>2. alerts \in Seq([kind : {"STREAM_STALE", "STREAM_RECOVERED"}, day : 0..Days])
    BY DEF Init
  <2> QED BY <2>1, <2>2 DEF Init, MonitorOK
<1> QED BY <1>2, <1>3, <1>4 DEF Shape

LEMMA ShapeStep == Shape /\ [Next]_vars => Shape'
BY TablesStep, WorkerStepOK, MonitorStepOK DEF Shape

\* The stream keeps its types, and no more symbols are ever kept than the cap, whatever
\* positions, plans and watchlist ask for (select_subscription_symbols, _sync_subscriptions).
THEOREM StreamTypeCorrect == Spec => []TypeOK
BY ShapeInit, ShapeStep, TypeParts, PTL DEF Spec

-----------------------------------------------------------------------------
(* Subscriptions *)

\* Before a synchronisation the provider streams what was kept, and in the middle of it
\* what is new as well; less when it refused a request.
SyncOK ==
  /\ phase \in {"positions", "plans", "subscribe", "listen"} =>
       server \subseteq subscribed /\ (server = subscribed \/ refused)
  /\ phase = "unsubscribe" =>
       server \subseteq subscribed \cup desired /\ (server = subscribed \cup desired \/ refused)
  /\ phase = "listen" => shown = subscribed

LEMMA SyncStep == SyncOK /\ [Next]_vars => SyncOK'
<1> SUFFICES ASSUME SyncOK, [Next]_vars PROVE SyncOK'
  OBVIOUS
<1>1. CASE UNCHANGED worker
  BY <1>1 DEF worker, SyncOK
<1>2. CASE WorkerStep \/ Receive \/ Disconnect \/ Die \/ Tick
  BY <1>2 DEF WorkerStep, ReadPositions, ReadPlans, Subscribe, Asked, Unsubscribe, Connect, Kept, RefreshDue, GoneSilent,
              Wake, Receive, Disconnect, Disconnected, Die, Tick, SyncOK
<1>3. ASSUME \/ Check \/ Announce \/ MonitorRestarts \/ \E caught \in BOOLEAN : CheckFails(caught)
             \/ \E s \in Symbols : OpenPosition(s) \/ ClosePosition(s) \/ IssuePlan(s) \/ EndPlan(s)
             \/ UNCHANGED vars
      PROVE  UNCHANGED worker
  BY <1>3 DEF Check, Announce, MonitorRestarts, CheckFails, OpenPosition, ClosePosition, IssuePlan, EndPlan,
              Changed, vars
<1> QED BY <1>1, <1>2, <1>3 DEF Next

\* While the worker listens the provider streams only what the worker believes and /health
\* shows, and all of it unless it refused a request of this very connection: however often
\* the connection broke in the middle of a synchronisation (_sync_subscriptions,
\* _consume_connection).
THEOREM SubscriptionsAreTrue == Spec => []SubscriptionsTrue
<1>1. Init => SyncOK
  BY DEF Init, SyncOK
<1>2. SyncOK => SubscriptionsTrue
  BY DEF SyncOK, SubscriptionsTrue
<1> QED BY <1>1, <1>2, SyncStep, PTL DEF Spec

\* What a synchronisation asks for fits in twice the cap.
LEMMA AskedFits ==
  ASSUME Shape, SyncOK, phase = "subscribe"
  PROVE  Cardinality(Asked) <= 2 * Cap
<1>1. Asked \subseteq subscribed \cup desired
  BY DEF SyncOK, Asked
<1>2. IsFiniteSet(subscribed) /\ IsFiniteSet(desired)
  BY StreamFacts, FS_Subset DEF Shape, WorkerOK
<1>3. /\ IsFiniteSet(subscribed \cup desired)
      /\ Cardinality(subscribed \cup desired) =
           Cardinality(subscribed) + Cardinality(desired) - Cardinality(subscribed \cap desired)
  BY <1>2, FS_Union
<1>4. Cardinality(Asked) <= Cardinality(subscribed \cup desired)
  BY <1>1, <1>3, FS_Subset
<1>5. IsFiniteSet(Asked) /\ IsFiniteSet(subscribed \cap desired)
  BY <1>1, <1>2, <1>3, FS_Subset
<1>6. /\ Cardinality(Asked) \in Nat /\ Cardinality(subscribed \cap desired) \in Nat
      /\ Cardinality(subscribed) \in Nat /\ Cardinality(desired) \in Nat
  BY <1>2, <1>5, FS_CardinalityType
<1>7. Cardinality(subscribed) <= Cap /\ Cardinality(desired) <= Cap
  BY DEF Shape, WorkerOK
<1> QED BY <1>3, <1>4, <1>6, <1>7, StreamFacts

\* A plan that allows twice the cap refuses nothing: then what the worker believes is
\* streamed, although it adds before it removes (_sync_subscriptions).
THEOREM RoomForBoth ==
  ASSUME 2 * Cap <= Limit
  PROVE  Spec => [](phase = "listen" => server = subscribed)
<1> DEFINE Accepted == Shape /\ SyncOK /\ ~refused
<1>1. Init => Accepted
  BY ShapeInit DEF Init, SyncOK
<1>2. Accepted /\ [Next]_vars => Accepted'
  <2> SUFFICES ASSUME Accepted, [Next]_vars PROVE Accepted'
    OBVIOUS
  <2>1. Shape' /\ SyncOK'
    BY ShapeStep, SyncStep
  <2>2. CASE Subscribe
    <3>1. Cardinality(Asked) \in Nat /\ Cardinality(Asked) <= 2 * Cap
      <4>1. Asked \subseteq Symbols
        BY DEF Asked, Shape, WorkerOK
      <4>2. Cardinality(Asked) \in Nat
        BY <4>1, StreamFacts, FS_Subset, FS_CardinalityType
      <4> QED BY <2>2, <4>2, AskedFits DEF Subscribe
    <3>2. ~(Cardinality(Asked) > Limit)
      BY <3>1, StreamFacts
    <3> QED BY <2>1, <2>2, <3>2 DEF Subscribe
  <2>3. refused' => Subscribe
    BY DEF Next, vars, worker, WorkerStep, ReadPositions, ReadPlans, Unsubscribe, Connect, RefreshDue, GoneSilent,
           Wake, Receive, Disconnect, Disconnected, Die, Tick, Check, Announce, MonitorRestarts, CheckFails,
           OpenPosition, ClosePosition, IssuePlan, EndPlan, Changed
  <2> QED BY <2>1, <2>2, <2>3
<1>3. Accepted => (phase = "listen" => server = subscribed)
  BY DEF SyncOK
<1> QED BY <1>1, <1>2, <1>3, PTL DEF Spec

-----------------------------------------------------------------------------
(* The stale monitor *)

\* The flag is what the last alert said, of its day; a flag that is set today was set after
\* the threshold.  No day comes before that of the flag.
FlagOK ==
  /\ flag.on <= Day
  /\ \/ flag = [stale |-> FALSE, on |-> Never] /\ alerts = <<>>
     \/ /\ Len(alerts) > 0
        /\ alerts[Len(alerts)] = [kind |-> IF flag.stale THEN "STREAM_STALE" ELSE "STREAM_RECOVERED",
                                  day |-> flag.on]
  /\ WasStale => now - OpenAt > AlertAfter

\* What a check of this unit found and has not announced yet contradicts the flag; unless a
\* message came since, it is still so.
PendingOK ==
  /\ pending # "none" => polled /\ (pending = "STREAM_STALE" <=> ~WasStale)
  /\ pending = "STREAM_STALE" => now - OpenAt > AlertAfter
  /\ pending = "STREAM_RECOVERED" => now - lastAt <= AlertAfter
  /\ polled /\ lastAt # now => (Quiet <=> IF pending = "none" THEN WasStale ELSE pending = "STREAM_STALE")

Sound == Shape /\ FlagOK /\ PendingOK

\* The stream is quiet when nothing came for the threshold, none of it before the opening.
LEMMA QuietMeans ==
  ASSUME Shape
  PROVE  Quiet <=> now - OpenAt > AlertAfter /\ now - lastAt > AlertAfter
<1>1. now \in Nat /\ lastAt \in Int /\ OpenAt \in Nat /\ AlertAfter \in Nat
  BY DayFacts, StreamFacts DEF Shape, TablesOK, MonitorOK, Never
<1> QED BY <1>1 DEF Quiet, Reference

\* A threshold that is passed stays so as time goes on.
LEMMA LongerStill ==
  ASSUME NEW n \in Nat, NEW m \in Nat, m >= n, NEW start \in Nat, NEW limit \in Nat, n - start > limit
  PROVE  m - start > limit
OBVIOUS

LEMMA SoundInit == Init => Sound
<1> SUFFICES ASSUME Init PROVE Sound
  OBVIOUS
<1>1. Day \in 0..Days
  BY ShapeInit, DayFacts DEF Shape, TablesOK
<1>2. flag.on < 0 /\ ~flag.stale
  BY DEF Init, Never
<1>3. FlagOK
  BY <1>1, <1>2 DEF Init, FlagOK, WasStale, Never
<1>4. PendingOK
  BY DEF Init, PendingOK
<1> QED BY <1>3, <1>4, ShapeInit DEF Sound

LEMMA SoundStep ==
  ASSUME Sound, [Next]_vars
  PROVE  FlagOK' /\ PendingOK'
<1> USE StreamFacts DEF Sound
<1>0. /\ now \in Nat /\ lastAt \in Int /\ OpenAt \in Nat /\ Day \in 0..Days /\ flag.on \in Int
      /\ flag \in [stale : BOOLEAN, on : {Never} \cup 0..Days]
      /\ pending \in {"none", "STREAM_STALE", "STREAM_RECOVERED"} /\ polled \in BOOLEAN
      /\ alerts \in Seq([kind : {"STREAM_STALE", "STREAM_RECOVERED"}, day : 0..Days])
  BY DayFacts DEF Shape, TablesOK, MonitorOK, Never
<1>1. now' = now => Day' = Day /\ OpenAt' = OpenAt
  BY DEF Day, OpenAt
<1>2. CASE UNCHANGED <<now, lastAt, monitor>>
  BY <1>1, <1>2 DEF monitor, FlagOK, PendingOK, WasStale, Quiet, Reference
<1>3. CASE UNCHANGED <<now, monitor>> /\ lastAt' = now
  BY <1>0, <1>1, <1>3 DEF monitor, FlagOK, PendingOK, WasStale
<1>4. CASE Check
  <2>1. UNCHANGED <<now, lastAt, flag, alerts>> /\ pending = "none" /\ polled'
        /\ pending' = IF Quiet = WasStale THEN "none" ELSE IF Quiet THEN "STREAM_STALE" ELSE "STREAM_RECOVERED"
    BY <1>4 DEF Check
  <2>2. UNCHANGED <<Day, OpenAt, WasStale, Quiet>>
    BY <1>1, <2>1 DEF WasStale, Quiet, Reference
  <2>3. FlagOK'
    BY <2>1, <2>2 DEF FlagOK
  <2>4. PendingOK'
    <3>1. CASE Quiet = WasStale
      BY <2>1, <2>2, <3>1 DEF PendingOK
    <3>2. CASE Quiet # WasStale /\ Quiet
      BY <2>1, <2>2, <3>2, QuietMeans DEF PendingOK, Quiet, WasStale
    <3>3. CASE Quiet # WasStale /\ ~Quiet
      <4>1. WasStale /\ now - lastAt <= AlertAfter
        BY <1>0, <3>3, QuietMeans DEF FlagOK, Quiet, WasStale
      <4> QED BY <2>1, <2>2, <3>3, <4>1 DEF PendingOK
    <3> QED BY <3>1, <3>2, <3>3
  <2> QED BY <2>3, <2>4
<1>5. CASE Announce
  <2>1. /\ UNCHANGED <<now, lastAt, polled, Day, OpenAt, Quiet>> /\ pending # "none" /\ pending' = "none"
        /\ flag' = [stale |-> pending = "STREAM_STALE", on |-> Day]
        /\ alerts' = Append(alerts, [kind |-> pending, day |-> Day])
    BY <1>1, <1>5 DEF Announce, Quiet, Reference
  <2>2. WasStale' <=> pending = "STREAM_STALE"
    BY <2>1 DEF WasStale
  <2>3. Len(alerts') > 0 /\ alerts'[Len(alerts')] = [kind |-> pending, day |-> Day]
    BY <1>0, <2>1
  <2>4. FlagOK'
    <3>1. flag'.on = Day /\ (flag'.stale <=> pending = "STREAM_STALE")
      BY <2>1
    <3>2. alerts'[Len(alerts')] =
            [kind |-> IF flag'.stale THEN "STREAM_STALE" ELSE "STREAM_RECOVERED", day |-> flag'.on]
      BY <1>0, <2>1, <2>3, <3>1
    <3>3. WasStale' => now' - OpenAt' > AlertAfter
      BY <2>1, <2>2 DEF PendingOK
    <3> QED BY <1>0, <2>1, <2>3, <3>1, <3>2, <3>3 DEF FlagOK
  <2>5. PendingOK'
    BY <2>1, <2>2 DEF PendingOK
  <2> QED BY <2>4, <2>5
<1>6. CASE MonitorRestarts \/ \E caught \in BOOLEAN : CheckFails(caught)
  BY <1>1, <1>6 DEF MonitorRestarts, CheckFails, FlagOK, PendingOK, WasStale, Quiet, Reference
<1>7. CASE Tick
  <2>1. /\ now' \in Nat /\ now' >= now /\ Day' \in Int /\ Day' >= Day
        /\ UNCHANGED <<flag, alerts, pending>> /\ pending = "none" /\ ~polled'
    BY <1>7, <1>0, ShapeStep, DayFacts DEF Tick, Shape, TablesOK, Day
  <2>2. ASSUME WasStale' PROVE now' - OpenAt' > AlertAfter
    <3>1. Day' = Day
      BY <1>0, <2>1, <2>2 DEF FlagOK, WasStale
    <3>2. OpenAt' = OpenAt /\ WasStale
      BY <2>1, <2>2, <3>1 DEF OpenAt, WasStale
    <3>3. now - OpenAt > AlertAfter
      BY <3>2 DEF FlagOK
    <3>4. now \in Nat /\ now' \in Nat /\ now' >= now /\ OpenAt \in Nat /\ AlertAfter \in Nat
      BY <1>0, <2>1
    <3>5. now' - OpenAt > AlertAfter
      BY <3>3, <3>4, LongerStill
    <3> QED BY <3>2, <3>5
  <2>3. FlagOK'
    BY <1>0, <2>1, <2>2 DEF FlagOK
  <2>4. PendingOK'
    BY <2>1 DEF PendingOK
  <2> QED BY <2>3, <2>4
<1>8. ASSUME \/ WorkerStep \/ Receive \/ Disconnect \/ Die \/ UNCHANGED vars
             \/ \E s \in Symbols : OpenPosition(s) \/ ClosePosition(s) \/ IssuePlan(s) \/ EndPlan(s)
      PROVE  UNCHANGED <<now, monitor>> /\ (lastAt' = lastAt \/ lastAt' = now)
  BY <1>8 DEF WorkerStep, ReadPositions, ReadPlans, Subscribe, Unsubscribe, Connect, RefreshDue, GoneSilent, Wake,
              Receive, Disconnect, Disconnected, Die, OpenPosition, ClosePosition, IssuePlan, EndPlan, Changed, vars
<1> QED BY <1>2, <1>3, <1>4, <1>5, <1>6, <1>7, <1>8 DEF Next

LEMMA SoundStays == Sound /\ [Next]_vars => Sound'
BY ShapeStep, SoundStep DEF Sound

\* No silence is missed: after a check the flag is today's and set exactly when the stream
\* was quiet for longer than the threshold, unless a message came since (check).
THEOREM SilenceIsNoticed == Spec => []StaleNoticed
<1>1. ASSUME Sound
      PROVE  StaleNoticed
  <2>1. WasStale <=> flag = [stale |-> TRUE, on |-> Day]
    BY <1>1 DEF Sound, Shape, MonitorOK, WasStale
  <2> QED BY <1>1, <2>1, QuietMeans DEF Sound, PendingOK, StaleNoticed
<1> QED BY <1>1, SoundInit, SoundStays, PTL DEF Spec

\* Each session's alerts start with stale and alternate, and each of them is true, whatever
\* flag the day before left and whoever restarts (check).
THEOREM AlarmsAreTrue == Spec => AlarmsTrue
<1> DEFINE Honest ==
      LET open  == Len(alerts) > 0 /\ alerts[Len(alerts)] = [kind |-> "STREAM_STALE", day |-> Day]
          stale == alerts'[Len(alerts')].kind = "STREAM_STALE"
      IN
      /\ stale <=> ~open
      /\ stale => now - OpenAt > AlertAfter /\ (now - lastAt > AlertAfter \/ lastAt = now)
      /\ ~stale => now - lastAt <= AlertAfter
<1>1. ASSUME Sound, [Next]_vars, alerts' # alerts
      PROVE  Honest
  <2>1. Announce
    BY <1>1 DEF Next, vars, monitor, WorkerStep, ReadPositions, ReadPlans, Subscribe, Unsubscribe, Connect, RefreshDue,
                GoneSilent, Wake, Receive, Disconnect, Disconnected, Die, Check, CheckFails, MonitorRestarts, Tick,
                OpenPosition, ClosePosition, IssuePlan, EndPlan, Changed
  <2>2. /\ alerts \in Seq([kind : {"STREAM_STALE", "STREAM_RECOVERED"}, day : 0..Days])
        /\ flag \in [stale : BOOLEAN, on : {Never} \cup 0..Days] /\ Day \in 0..Days
    BY <1>1, DayFacts DEF Sound, Shape, TablesOK, MonitorOK
  <2>3. alerts' = Append(alerts, [kind |-> pending, day |-> Day]) /\ pending # "none"
    BY <2>1 DEF Announce
  <2>4. alerts'[Len(alerts')].kind = pending
    BY <2>2, <2>3
  <2>5. WasStale <=> Len(alerts) > 0 /\ alerts[Len(alerts)] = [kind |-> "STREAM_STALE", day |-> Day]
    BY <1>1, <2>2 DEF Sound, FlagOK, WasStale
  <2>6. pending \in {"STREAM_STALE", "STREAM_RECOVERED"}
    BY <1>1, <2>3 DEF Sound, Shape, MonitorOK
  <2>7. /\ pending = "STREAM_STALE" <=> ~WasStale
        /\ pending = "STREAM_STALE" => now - OpenAt > AlertAfter
        /\ pending = "STREAM_RECOVERED" => now - lastAt <= AlertAfter
        /\ lastAt # now => (Quiet <=> pending = "STREAM_STALE")
    BY <1>1, <2>3 DEF Sound, PendingOK
  <2> QED BY <1>1, <2>4, <2>5, <2>6, <2>7, QuietMeans DEF Sound
<1>2. Sound /\ [Next]_vars => [alerts' # alerts => Honest]_vars
  BY <1>1
<1> QED BY <1>2, SoundInit, SoundStays, PTL DEF Spec, AlarmsTrue
=============================================================================
