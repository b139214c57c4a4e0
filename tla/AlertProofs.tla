----------------------------- MODULE AlertProofs -----------------------------
(***************************************************************************)
(* Theorems about the alert outbox, for any alerts, priorities, sinks,     *)
(* attempts and backoffs and any number of crashes: the types, that every  *)
(* copy a sink receives is accounted for, that a failure is reported once, *)
(* that sends respect the backoff, and that the dispatcher implements      *)
(* AlertContract.                                                          *)
(***************************************************************************)
EXTENDS AlertDispatcher, Foundations

-----------------------------------------------------------------------------
(* The inductive invariant *)

Delivering == task \in {"sending", "marking", "logging", "failing", "reporting"}

\* What is listed is due, and so stays until deliver() is called for it: nobody but this
\* task writes the row of a saved alert.
BatchOK ==
  /\ task = "choosing" => batch # {}
  /\ task \in {"waiting", "dead", "down"} => batch = {}
  /\ \A a \in batch : a \in Saved /\ Due(a)
  /\ Delivering => current \in Saved /\ current \notin batch

\* What deliver() knows at each of its awaits.
StageOK ==
  /\ task \in {"sending", "marking"} => Due(current) /\ row[current].attempts = seen
  /\ task = "marking" => \A s \in Sinks : copies[current][s] > 0
  /\ task = "sending" => \A s \in Sinks : s < sink => copies[current][s] > 0
  /\ task = "logging" => row[current].delivered
  /\ task = "failing" => row[current].delivered \/ row[current].attempts < MaxAttempts
  /\ task = "reporting" => row[current].attempts >= MaxAttempts

\* An alert that is not saved has no history.
FreshOK ==
  \A a \in Alerts : row[a].created = 0 =>
    /\ row[a].attempts = 0 /\ ~row[a].delivered /\ row[a].wait = 0
    /\ \A s \in Sinks : copies[a][s] = 0

\* CopiesAccounted, sink by sink of the round in progress: the sinks still to come have
\* no copy of it yet.
Round(a, s) ==
  IF /\ a = current /\ task \in {"sending", "marking", "failing"} /\ row[a].attempts = seen
     /\ task = "sending" => s < sink
  THEN 1 ELSE 0
CopyOK == \A a \in Alerts, s \in Sinks : copies[a][s] <= row[a].attempts + cut[a] + Round(a, s)

\* FailureReportedOnce, and no alert in delivery is reported before its turn.
FailOK == FailureReportedOnce /\ (Delivering => reports[current] = 0)

Shape == TypeOK /\ BatchOK /\ StageOK /\ FreshOK

-----------------------------------------------------------------------------
(* Operators *)

LEMMA SinkFacts ==
  /\ NumSinks \in Nat /\ NumSinks >= 1 /\ MaxAttempts \in Nat /\ MaxAttempts >= 1
  /\ AgeCap \in Nat /\ MaxCrashes \in Nat /\ 1 \in Sinks /\ \A s \in Sinks : s \in Nat
BY SinksAssumption, BackoffAssumption, CrashAssumption DEF Sinks

\* A pause is never negative and never longer than the longest backoff.
LEMMA RemainingType ==
  ASSUME NEW n \in Nat, n >= 1, age \in 0..AgeCap
  PROVE  Remaining(n) \in 0..AgeCap
<1> DEFINE k == Shorter(n, Len(Backoffs))
<1>1. Len(Backoffs) \in Nat /\ Len(Backoffs) >= 1 /\ DOMAIN Backoffs = 1..Len(Backoffs)
  BY BackoffAssumption
<1>2. k \in DOMAIN Backoffs
  BY <1>1 DEF Shorter
<1>3. Backoffs[k] \in Nat /\ Backoffs[k] <= AgeCap
  BY <1>2, BackoffAssumption
<1> QED BY <1>3, SinkFacts DEF Remaining

\* A non-empty batch has a foremost alert: the order of dispatch_once is total.
LEMMA ForemostInBatch ==
  ASSUME TypeOK, batch # {}
  PROVE  Foremost \in batch
<1> DEFINE Has(S) == \E a \in S : \A b \in S : Before(a, b)
           G == {S \in SUBSET Alerts : S # {} => Has(S)}
<1>1. \A a \in Alerts : Priority[a] \in 0..3 /\ row[a].created \in Nat
  BY AlertsAssumption DEF TypeOK
<1>2. \A a, b, c \in Alerts : /\ Before(a, a)
                              /\ Before(a, b) \/ Before(b, a)
                              /\ Before(a, b) /\ Before(b, c) => Before(a, c)
  BY <1>1 DEF Before
<1>3. ASSUME NEW T \in SUBSET Alerts, \A U \in SUBSET T : U # T => U \in G
      PROVE  T \in G
  <2> SUFFICES ASSUME T # {} PROVE Has(T)
    OBVIOUS
  <2>1. PICK x \in T : TRUE
    OBVIOUS
  <2>2. CASE T \ {x} = {}
    <3>1. \A b \in T : b = x
      BY <2>2
    <3> QED BY <1>2, <2>1, <3>1
  <2>3. CASE T \ {x} # {}
    <3>1. T \ {x} \in SUBSET T /\ T \ {x} # T
      BY <2>1
    <3>2. PICK m \in T \ {x} : \A b \in T \ {x} : Before(m, b)
      BY <1>3, <2>3, <3>1
    <3>3. CASE Before(m, x)
      BY <3>2, <3>3
    <3>4. CASE Before(x, m)
      <4>1. \A b \in T : Before(x, b)
        BY <1>2, <2>1, <3>2, <3>4
      <4> QED BY <2>1, <4>1
    <3> QED BY <1>2, <2>1, <3>2, <3>3, <3>4
  <2> QED BY <2>2, <2>3
<1>4. SUBSET Alerts \subseteq G
  <2> HIDE DEF G
  <2> QED BY <1>3, AlertsAssumption, SubsetInduction
<1>5. Has(batch)
  BY <1>4 DEF TypeOK
<1> QED BY <1>5 DEF Foremost

-----------------------------------------------------------------------------
(* Every step keeps the shape of the state *)

\* What the steps do to the row and the counters of an alert, for any state of the types.
LEMMA TypesStep ==
  ASSUME Shape, [Next]_vars
  PROVE  TypeOK'
<1> USE SinkFacts DEF Shape
<1>0. /\ row \in [Alerts -> [created : Nat, attempts : Nat, delivered : BOOLEAN, wait : 0..AgeCap]]
      /\ copies \in [Alerts -> [Sinks -> Nat]]
      /\ reports \in [Alerts -> Nat] /\ cut \in [Alerts -> Nat] /\ current \in Alerts
  BY DEF TypeOK
<1>1. ASSUME NEW a \in Alerts, QueueAlert(a)
      PROVE  TypeOK'
  <2>1. IsFiniteSet(Saved)
    BY AlertsAssumption, FS_Subset DEF Saved
  <2>2. Cardinality(Saved) + 1 \in Nat
    BY <2>1, FS_CardinalityType
  <2>3. row' \in [Alerts -> [created : Nat, attempts : Nat, delivered : BOOLEAN, wait : 0..AgeCap]]
    BY <1>0, <1>1, <2>2 DEF QueueAlert
  <2> QED BY <1>1, <2>3 DEF QueueAlert, TypeOK, delivery, observed
<1>2. CASE ListDue
  BY <1>2 DEF ListDue, TypeOK, Saved, Stages, delivery, observed
<1>3. CASE StartDelivery
  <2>1. Foremost \in batch
    BY <1>3, ForemostInBatch DEF StartDelivery, BatchOK
  <2>2. Foremost \in Alerts /\ row[Foremost].attempts \in Nat
    BY <1>0, <2>1 DEF TypeOK
  <2> QED BY <1>3, <2>2 DEF StartDelivery, TypeOK, Stages, observed
<1>4. ASSUME NEW ok \in BOOLEAN, NEW arrived \in BOOLEAN, Send(ok, arrived)
      PROVE  TypeOK'
  <2>1. copies' \in [Alerts -> [Sinks -> Nat]]
    <3>1. sink \in Sinks /\ copies[current][sink] + 1 \in Nat
      BY <1>0 DEF TypeOK
    <3> QED BY <1>0, <1>4, <3>1 DEF Send
  <2>2. task' \in Stages /\ sink' \in Sinks
    BY <1>4 DEF Send, AfterSend, Stages, TypeOK, Sinks
  <2> QED BY <1>4, <2>1, <2>2 DEF Send, TypeOK
<1>5. ASSUME NEW ok \in BOOLEAN, NEW written \in BOOLEAN, MarkDelivered(ok, written)
      PROVE  TypeOK'
  <2>1. row' \in [Alerts -> [created : Nat, attempts : Nat, delivered : BOOLEAN, wait : 0..AgeCap]]
    BY <1>0, <1>5 DEF MarkDelivered
  <2> QED BY <1>5, <2>1 DEF MarkDelivered, TypeOK, Stages, delivery, observed
<1>6. ASSUME NEW ok \in BOOLEAN, LogDelivered(ok)
      PROVE  TypeOK'
  <2>1. task' \in Stages /\ sink' \in Sinks
    BY <1>6 DEF LogDelivered, AfterDelivery, Stages, TypeOK, Sinks
  <2> QED BY <1>6, <2>1 DEF LogDelivered, TypeOK, observed
<1>7. CASE MarkFailed
  <2>1. seen + 1 \in Nat /\ seen + 1 >= 1 /\ age \in 0..AgeCap
    BY DEF TypeOK
  <2>2. Remaining(seen + 1) \in 0..AgeCap /\ Attempts \in Nat
    BY <1>0, <2>1, RemainingType DEF Attempts
  <2>3. row' \in [Alerts -> [created : Nat, attempts : Nat, delivered : BOOLEAN, wait : 0..AgeCap]]
    BY <1>0, <1>7, <2>2 DEF MarkFailed
  <2> QED BY <1>7, <2>3 DEF MarkFailed, AfterDelivery, TypeOK, Stages, delivery, observed
<1>8. CASE ReportFailure
  BY <1>0, <1>8 DEF ReportFailure, AfterDelivery, TypeOK, Stages, delivery
<1>9. CASE TaskDies
  BY <1>0, <1>9 DEF TaskDies, Cut, TypeOK, Stages, delivery
<1>10. CASE Crash
  BY <1>0, <1>10 DEF Crash, Cut, TypeOK, Stages, delivery
<1>11. CASE Restart
  BY <1>11 DEF Restart, TypeOK, Stages, delivery, observed
<1>12. CASE Tick
  <2>1. row' \in [Alerts -> [created : Nat, attempts : Nat, delivered : BOOLEAN, wait : 0..AgeCap]]
    <3>1. ASSUME NEW a \in Alerts
          PROVE  [row[a] EXCEPT !.wait = Elapse(@)]
                   \in [created : Nat, attempts : Nat, delivered : BOOLEAN, wait : 0..AgeCap]
      <4>1. row[a].wait \in 0..AgeCap /\ Elapse(row[a].wait) \in 0..AgeCap
        BY <1>0 DEF Elapse
      <4> QED BY <1>0, <4>1
    <3> QED BY <1>12, <3>1 DEF Tick
  <2>2. age' \in 0..AgeCap
    BY <1>12 DEF Tick, Shorter, TypeOK
  <2> QED BY <1>12, <2>1, <2>2 DEF Tick, TypeOK, delivery, observed
<1>13. CASE UNCHANGED vars
  BY <1>13 DEF vars, TypeOK, delivery, observed
<1> QED BY <1>1, <1>2, <1>3, <1>4, <1>5, <1>6, <1>7, <1>8, <1>9, <1>10, <1>11, <1>12, <1>13 DEF Next, Deliver

\* The steps of others, QueueAlert and Tick, touch no counter and make no due alert wait.
Calm ==
  /\ \A a \in Alerts : /\ row[a].created > 0 => row'[a].created > 0
                       /\ row'[a].attempts = row[a].attempts /\ row'[a].delivered = row[a].delivered
                       /\ row[a].wait = 0 => row'[a].wait = 0
  /\ UNCHANGED <<task, batch, current, seen, sink, copies, reports, cut>>

LEMMA OthersAreCalm ==
  ASSUME TypeOK, Tick \/ \E a \in Alerts : QueueAlert(a)
  PROVE  Calm
<1>0. row \in [Alerts -> [created : Nat, attempts : Nat, delivered : BOOLEAN, wait : 0..AgeCap]]
  BY DEF TypeOK
<1>1. CASE Tick
  BY <1>0, <1>1 DEF Tick, Elapse, Calm, delivery, observed
<1>2. ASSUME NEW a \in Alerts, QueueAlert(a)
      PROVE  Calm
  <2>1. IsFiniteSet(Saved)
    BY AlertsAssumption, FS_Subset DEF Saved
  <2>2. Cardinality(Saved) \in Nat
    BY <2>1, FS_CardinalityType
  <2> QED BY <1>0, <1>2, <2>2 DEF QueueAlert, Calm, delivery, observed
<1> QED BY <1>1, <1>2

\* And so are the dispatcher's steps that write no row; the row of one alert is written
\* by mark_delivered and mark_failed.
LEMMA RowSteps ==
  ASSUME TypeOK
  PROVE  /\ \A ok, written \in BOOLEAN : MarkDelivered(ok, written) =>
              /\ \A a \in Alerts : a # current \/ ~written => row'[a] = row[a]
              /\ row'[current].created = row[current].created
              /\ written => /\ row'[current].delivered
                            /\ row'[current].attempts = row[current].attempts + 1
         /\ MarkFailed =>
              /\ \A a \in Alerts : a # current => row'[a] = row[a]
              /\ row'[current].created = row[current].created
              /\ row'[current].delivered = row[current].delivered
              /\ row'[current].attempts = row[current].attempts + 1
<1>0. row \in [Alerts -> [created : Nat, attempts : Nat, delivered : BOOLEAN, wait : 0..AgeCap]]
      /\ current \in Alerts
  BY DEF TypeOK
<1> QED BY <1>0 DEF MarkDelivered, MarkFailed, Attempts

LEMMA BatchStep ==
  ASSUME Shape, [Next]_vars
  PROVE  BatchOK'
<1> USE SinkFacts DEF Shape
<1>0. current \in Alerts /\ batch \subseteq Alerts /\ \A a \in Alerts : row[a].created \in Nat
  BY DEF TypeOK
<1>1. CASE Calm
  BY <1>0, <1>1 DEF Calm, BatchOK, Delivering, Saved, Due
<1>2. CASE ListDue
  BY <1>2 DEF ListDue, BatchOK, Delivering, Saved, Due
<1>3. CASE StartDelivery
  <2>1. Foremost \in batch
    BY <1>3, ForemostInBatch DEF StartDelivery, BatchOK
  <2> QED BY <1>0, <1>3, <2>1 DEF StartDelivery, BatchOK, Delivering, Saved, Due
<1>4. ASSUME NEW ok, NEW arrived, Send(ok, arrived)
      PROVE  BatchOK'
  BY <1>4 DEF Send, AfterSend, BatchOK, Delivering, Saved, Due
<1>5. ASSUME NEW ok \in BOOLEAN, NEW written \in BOOLEAN, MarkDelivered(ok, written)
      PROVE  BatchOK'
  <2>1. /\ \A a \in Alerts : a # current => row'[a] = row[a]
        /\ row'[current].created = row[current].created
    BY <1>5, RowSteps
  <2> QED BY <1>0, <1>5, <2>1 DEF MarkDelivered, BatchOK, Delivering, Saved, Due, delivery
<1>6. ASSUME NEW ok \in BOOLEAN, LogDelivered(ok)
      PROVE  BatchOK'
  BY <1>6 DEF LogDelivered, AfterDelivery, BatchOK, Delivering, Saved, Due
<1>7. CASE MarkFailed
  <2>1. /\ \A a \in Alerts : a # current => row'[a] = row[a]
        /\ row'[current].created = row[current].created
    BY <1>7, RowSteps
  <2> QED BY <1>0, <1>7, <2>1 DEF MarkFailed, AfterDelivery, BatchOK, Delivering, Saved, Due, delivery
<1>8. CASE ReportFailure
  BY <1>8 DEF ReportFailure, AfterDelivery, BatchOK, Delivering, Saved, Due, delivery
<1>9. CASE TaskDies \/ Crash \/ Restart
  BY <1>9 DEF TaskDies, Crash, Restart, BatchOK, Delivering, Saved, Due, delivery
<1>10. CASE UNCHANGED vars
  BY <1>10 DEF vars, BatchOK, Delivering, Saved, Due, delivery
<1> QED BY <1>1, <1>2, <1>3, <1>4, <1>5, <1>6, <1>7, <1>8, <1>9, <1>10, OthersAreCalm DEF Next, Deliver

LEMMA StageStep ==
  ASSUME Shape, [Next]_vars
  PROVE  StageOK'
<1> USE SinkFacts DEF Shape
<1>0. /\ current \in Alerts /\ batch \subseteq Alerts /\ sink \in Sinks /\ seen \in Nat
      /\ \A a \in Alerts : row[a].attempts \in Nat /\ row[a].delivered \in BOOLEAN
      /\ copies \in [Alerts -> [Sinks -> Nat]]
  BY DEF TypeOK
<1>1. CASE Calm
  BY <1>0, <1>1 DEF Calm, StageOK, Due
<1>2. CASE ListDue \/ TaskDies \/ Crash \/ Restart
  BY <1>2 DEF ListDue, TaskDies, Crash, Restart, StageOK
<1>3. CASE StartDelivery
  <2>1. Foremost \in batch
    BY <1>3, ForemostInBatch DEF StartDelivery, BatchOK
  <2> QED BY <1>0, <1>3, <2>1 DEF StartDelivery, BatchOK, StageOK, Due, observed, Sinks
<1>4. ASSUME NEW ok \in BOOLEAN, NEW arrived \in BOOLEAN, Send(ok, arrived)
      PROVE  StageOK'
  <2>1. Due(current)' /\ row'[current'].attempts = seen' /\ task = "sending"
    BY <1>4 DEF Send, StageOK, Due
  <2>2. \A s \in Sinks : ok /\ (s < sink \/ s = sink) => copies'[current][s] > 0
    BY <1>0, <1>4, <2>1 DEF Send, StageOK
  <2>3. task' = "marking" => ok /\ sink = NumSinks
    BY <1>4 DEF Send, AfterSend
  <2>4. task' = "sending" => ok /\ sink' = sink + 1
    BY <1>0, <1>4 DEF Send, AfterSend, Sinks
  <2>5. task' \in {"sending", "marking", "failing"} /\ current' = current
    BY <1>4 DEF Send, AfterSend
  <2> QED BY <1>0, <2>1, <2>2, <2>3, <2>4, <2>5 DEF StageOK, Due, Sinks
<1>5. ASSUME NEW ok \in BOOLEAN, NEW written \in BOOLEAN, MarkDelivered(ok, written)
      PROVE  StageOK'
  BY <1>0, <1>5, RowSteps DEF MarkDelivered, StageOK, Due, delivery
<1>6. ASSUME NEW ok \in BOOLEAN, LogDelivered(ok)
      PROVE  StageOK'
  BY <1>6 DEF LogDelivered, AfterDelivery, StageOK
<1>7. CASE MarkFailed
  BY <1>0, <1>7, RowSteps DEF MarkFailed, LastAttempt, Attempts, AfterDelivery, StageOK, delivery
<1>8. CASE ReportFailure
  BY <1>8 DEF ReportFailure, AfterDelivery, StageOK
<1>9. CASE UNCHANGED vars
  BY <1>9 DEF vars, StageOK, Due, delivery, observed
<1> QED BY <1>1, <1>2, <1>3, <1>4, <1>5, <1>6, <1>7, <1>8, <1>9, OthersAreCalm DEF Next, Deliver

LEMMA FreshStep ==
  ASSUME Shape, [Next]_vars
  PROVE  FreshOK'
<1> USE SinkFacts DEF Shape
<1>0. /\ row \in [Alerts -> [created : Nat, attempts : Nat, delivered : BOOLEAN, wait : 0..AgeCap]]
      /\ current \in Alerts /\ copies \in [Alerts -> [Sinks -> Nat]] /\ sink \in Sinks
  BY DEF TypeOK
<1>1. CASE UNCHANGED <<row, copies>>
  BY <1>1 DEF FreshOK
<1>2. CASE Tick
  BY <1>0, <1>2 DEF Tick, Elapse, FreshOK, observed
<1>3. ASSUME NEW a \in Alerts, QueueAlert(a)
      PROVE  FreshOK'
  <2>1. row'[a].created # 0
    <3>1. IsFiniteSet(Saved)
      BY AlertsAssumption, FS_Subset DEF Saved
    <3>2. Cardinality(Saved) \in Nat
      BY <3>1, FS_CardinalityType
    <3> QED BY <1>0, <1>3, <3>2 DEF QueueAlert
  <2>2. copies' = copies /\ \A b \in Alerts : b # a => row'[b] = row[b]
    BY <1>0, <1>3 DEF QueueAlert, observed
  <2> QED BY <2>1, <2>2 DEF FreshOK
<1>4. ASSUME NEW ok \in BOOLEAN, NEW arrived \in BOOLEAN, Send(ok, arrived)
      PROVE  FreshOK'
  <2>1. row' = row /\ row[current].created > 0
    BY <1>4 DEF Send, BatchOK, Delivering, Saved
  <2>2. \A a \in Alerts : a # current => copies'[a] = copies[a]
    BY <1>0, <1>4 DEF Send
  <2> QED BY <1>0, <2>1, <2>2 DEF FreshOK
<1>5. ASSUME MarkFailed \/ \E ok, written \in BOOLEAN : MarkDelivered(ok, written)
      PROVE  FreshOK'
  <2>1. /\ copies' = copies /\ row[current].created > 0 /\ row'[current].created = row[current].created
        /\ \A a \in Alerts : a # current => row'[a] = row[a]
    BY <1>5, RowSteps DEF MarkFailed, MarkDelivered, BatchOK, Delivering, Saved, observed
  <2> QED BY <1>0, <2>1 DEF FreshOK
<1>6. ASSUME ListDue \/ StartDelivery \/ ReportFailure \/ TaskDies \/ Crash \/ Restart \/ UNCHANGED vars
             \/ \E ok \in BOOLEAN : LogDelivered(ok)
      PROVE  UNCHANGED <<row, copies>>
  BY <1>6 DEF ListDue, StartDelivery, ReportFailure, TaskDies, Crash, Restart, LogDelivered, vars, observed
<1> QED BY <1>1, <1>2, <1>3, <1>4, <1>5, <1>6 DEF Next, Deliver

LEMMA ShapeInit == Init => Shape
<1> SUFFICES ASSUME Init PROVE Shape
  OBVIOUS
<1> USE SinkFacts
<1>1. current \in Alerts
  BY AlertsAssumption DEF Init
<1>2. TypeOK
  BY <1>1 DEF Init, TypeOK, Stages
<1>3. BatchOK /\ StageOK
  BY DEF Init, BatchOK, StageOK, Delivering
<1>4. FreshOK
  BY DEF Init, FreshOK
<1> QED BY <1>2, <1>3, <1>4 DEF Shape

LEMMA ShapeStep == Shape /\ [Next]_vars => Shape'
BY TypesStep, BatchStep, StageStep, FreshStep DEF Shape

\* The outbox keeps its types: no wait is negative or longer than the longest backoff,
\* whenever failures and crashes fall (AlertRecord, dispatch_once, mark_failed).
THEOREM AlertTypeCorrect == Spec => []TypeOK
<1>1. Shape => TypeOK
  BY DEF Shape
<1> QED BY <1>1, ShapeInit, ShapeStep, PTL DEF Spec

-----------------------------------------------------------------------------
(* Copies *)

LEMMA CopyInit == Init => CopyOK
BY DEF Init, CopyOK, Round

LEMMA CopyStep ==
  ASSUME Shape, CopyOK, [Next]_vars
  PROVE  CopyOK'
<1> USE SinkFacts DEF Shape
<1>0. /\ current \in Alerts /\ sink \in Sinks /\ seen \in Nat
      /\ \A a \in Alerts : row[a].attempts \in Nat /\ cut[a] \in Nat /\ \A s \in Sinks : copies[a][s] \in Nat
      /\ copies \in [Alerts -> [Sinks -> Nat]] /\ cut \in [Alerts -> Nat]
  BY DEF TypeOK
<1>1. CASE Calm
  BY <1>0, <1>1 DEF Calm, CopyOK, Round
<1>2. CASE ListDue \/ Restart \/ ReportFailure
  BY <1>0, <1>2 DEF ListDue, Restart, ReportFailure, CopyOK, Round, AfterDelivery, delivery, observed
<1>3. CASE StartDelivery
  BY <1>0, <1>3 DEF StartDelivery, CopyOK, Round, observed
<1>4. ASSUME NEW ok \in BOOLEAN, NEW arrived \in BOOLEAN, Send(ok, arrived)
      PROVE  CopyOK'
  <2>1. /\ row' = row /\ cut' = cut /\ current' = current /\ seen' = seen /\ task = "sending"
        /\ row[current].attempts = seen
    BY <1>4 DEF Send, StageOK
  <2>2. task' \in {"sending", "marking", "failing"} /\ (task' = "sending" => sink' = sink + 1)
    BY <1>0, <1>4 DEF Send, AfterSend, Sinks
  <2>3. ASSUME NEW a \in Alerts, NEW s \in Sinks
        PROVE  copies'[a][s] <= row'[a].attempts + cut'[a] + Round(a, s)'
    <3>1. CASE a # current
      BY <1>0, <1>4, <2>1, <2>3, <3>1 DEF Send, CopyOK, Round
    <3>2. CASE a = current /\ s # sink
      <4>1. copies'[a][s] = copies[a][s]
        BY <1>0, <1>4, <2>3, <3>2 DEF Send
      <4>2. s < sink => Round(a, s)' = 1
        BY <1>0, <2>1, <2>2, <2>3, <3>2 DEF Round
      <4>3. ~(s < sink) => copies[a][s] <= row[a].attempts + cut[a]
        BY <1>0, <2>1, <2>3, <3>2 DEF CopyOK, Round
      <4>4. copies[a][s] <= row[a].attempts + cut[a] + 1
        BY <1>0, <2>3 DEF CopyOK, Round
      <4>5. Round(a, s)' \in {0, 1}
        BY DEF Round
      <4> QED BY <1>0, <2>1, <4>1, <4>2, <4>3, <4>4, <4>5
    <3>3. CASE a = current /\ s = sink
      <4>1. copies'[a][s] <= copies[a][s] + 1
        BY <1>0, <1>4, <2>3, <3>3 DEF Send
      <4>2. copies[a][s] <= row[a].attempts + cut[a]
        BY <1>0, <2>1, <2>3, <3>3 DEF CopyOK, Round
      <4>3. Round(a, s)' = 1
        BY <1>0, <2>1, <2>2, <2>3, <3>3 DEF Round
      <4>4. copies'[a][s] \in Nat
        BY <1>0, <1>4, <2>3, <3>3 DEF Send
      <4> QED BY <1>0, <2>1, <4>1, <4>2, <4>3, <4>4
    <3> QED BY <3>1, <3>2, <3>3
  <2> QED BY <2>3 DEF CopyOK
<1>5. ASSUME NEW ok \in BOOLEAN, NEW written \in BOOLEAN, MarkDelivered(ok, written)
      PROVE  CopyOK'
  <2>1. /\ task = "marking" /\ task' \in {"logging", "failing"} /\ current' = current /\ seen' = seen
        /\ copies' = copies /\ cut' = cut /\ row[current].attempts = seen
        /\ \A a \in Alerts : a # current => row'[a] = row[a]
        /\ row'[current].attempts = IF written THEN seen + 1 ELSE seen
        /\ ~written => task' = "failing"
    BY <1>0, <1>5, RowSteps DEF MarkDelivered, StageOK, delivery, observed
  <2>2. ASSUME NEW a \in Alerts, NEW s \in Sinks
        PROVE  copies'[a][s] <= row'[a].attempts + cut'[a] + Round(a, s)'
    BY <1>0, <2>1, <2>2 DEF CopyOK, Round
  <2> QED BY <2>2 DEF CopyOK
<1>6. ASSUME NEW ok \in BOOLEAN, LogDelivered(ok)
      PROVE  CopyOK'
  BY <1>0, <1>6 DEF LogDelivered, AfterDelivery, CopyOK, Round, observed
<1>7. CASE MarkFailed
  <2>1. /\ task' \notin {"sending", "marking", "failing"} /\ copies' = copies /\ cut' = cut
        /\ \A a \in Alerts : a # current => row'[a] = row[a]
        /\ row'[current].attempts = row[current].attempts + 1
    BY <1>0, <1>7, RowSteps DEF MarkFailed, AfterDelivery, observed
  <2>2. ASSUME NEW a \in Alerts, NEW s \in Sinks
        PROVE  copies'[a][s] <= row'[a].attempts + cut'[a] + Round(a, s)'
    BY <1>0, <2>1, <2>2 DEF CopyOK, Round
  <2> QED BY <2>2 DEF CopyOK
<1>8. CASE TaskDies \/ Crash
  <2>1. row' = row /\ copies' = copies /\ cut' = Cut /\ task' \in {"dead", "down"}
    BY <1>8 DEF TaskDies, Crash
  <2>2. \A a \in Alerts, s \in Sinks : Cut[a] \in Nat /\ Cut[a] >= cut[a] + Round(a, s)
    BY <1>0 DEF Cut, Round
  <2>3. \A a \in Alerts, s \in Sinks : Round(a, s) \in {0, 1} /\ Round(a, s)' \in {0, 1}
    BY DEF Round
  <2> QED BY <1>0, <2>1, <2>2, <2>3 DEF CopyOK
<1>9. CASE UNCHANGED vars
  BY <1>9 DEF vars, CopyOK, Round, delivery, observed
<1> QED BY <1>1, <1>2, <1>3, <1>4, <1>5, <1>6, <1>7, <1>8, <1>9, OthersAreCalm DEF Next, Deliver

\* Duplicates are accounted for: a sink never receives more copies of an alert than attempts
\* are recorded for it, deliveries were cut short, and one in progress (deliver).
THEOREM DuplicatesAccounted == Spec => []CopiesAccounted
<1>1. ASSUME Shape, CopyOK
      PROVE  CopiesAccounted
  BY <1>1 DEF Shape, TypeOK, CopyOK, Round, CopiesAccounted
<1>2. Shape /\ CopyOK /\ [Next]_vars => CopyOK'
  BY CopyStep
<1> QED BY <1>1, <1>2, ShapeInit, ShapeStep, CopyInit, PTL DEF Spec

-----------------------------------------------------------------------------
(* Failure reports *)

LEMMA FailStep ==
  ASSUME Shape, FailOK, [Next]_vars
  PROVE  FailOK'
<1> USE SinkFacts DEF Shape
<1>0. /\ current \in Alerts /\ seen \in Nat /\ batch \subseteq Alerts
      /\ \A a \in Alerts : row[a].attempts \in Nat /\ row[a].delivered \in BOOLEAN /\ reports[a] \in Nat
      /\ reports \in [Alerts -> Nat]
  BY DEF TypeOK
<1>1. CASE Calm
  BY <1>0, <1>1 DEF Calm, FailOK, FailureReportedOnce, Delivering
<1>2. CASE ListDue \/ Restart \/ TaskDies \/ Crash
  BY <1>2 DEF ListDue, Restart, TaskDies, Crash, FailOK, FailureReportedOnce, Delivering, delivery, observed
<1>3. CASE StartDelivery
  <2>1. Foremost \in batch
    BY <1>3, ForemostInBatch DEF StartDelivery, BatchOK
  <2>2. row[Foremost].attempts < MaxAttempts /\ Foremost \in Alerts
    BY <1>0, <2>1 DEF BatchOK, Due
  <2>3. reports[Foremost] = 0
    BY <1>0, <2>2 DEF FailOK, FailureReportedOnce
  <2> QED BY <1>3, <2>3 DEF StartDelivery, FailOK, FailureReportedOnce, observed
<1>4. ASSUME NEW ok, NEW arrived, Send(ok, arrived)
      PROVE  FailOK'
  BY <1>4 DEF Send, FailOK, FailureReportedOnce, Delivering
<1>5. ASSUME NEW ok \in BOOLEAN, NEW written \in BOOLEAN, MarkDelivered(ok, written)
      PROVE  FailOK'
  <2>1. /\ task = "marking" /\ current' = current /\ reports' = reports
        /\ \A a \in Alerts : a # current => row'[a] = row[a]
        /\ row'[current] = row[current] \/ row'[current].delivered
    BY <1>0, <1>5, RowSteps DEF MarkDelivered, delivery, observed
  <2>2. reports[current] = 0
    BY <2>1 DEF FailOK, Delivering
  <2> QED BY <1>0, <2>1, <2>2 DEF FailOK, FailureReportedOnce
<1>6. ASSUME NEW ok \in BOOLEAN, LogDelivered(ok)
      PROVE  FailOK'
  BY <1>6 DEF LogDelivered, AfterDelivery, FailOK, FailureReportedOnce, Delivering, observed
<1>7. CASE MarkFailed
  <2>1. /\ task = "failing" /\ current' = current /\ reports' = reports
        /\ \A a \in Alerts : a # current => row'[a] = row[a]
        /\ row'[current].delivered = row[current].delivered
        /\ row'[current].attempts = row[current].attempts + 1
    BY <1>7, RowSteps DEF MarkFailed, delivery, observed
  <2>2. reports[current] = 0 /\ (row[current].delivered \/ row[current].attempts < MaxAttempts)
    BY <2>1 DEF FailOK, Delivering, StageOK
  <2> QED BY <1>0, <2>1, <2>2 DEF FailOK, FailureReportedOnce
<1>8. CASE ReportFailure
  <2>1. /\ reports[current] = 0 /\ row[current].attempts >= MaxAttempts /\ row' = row /\ current' = current
        /\ task' \in {"waiting", "choosing"} /\ reports' = [reports EXCEPT ![current] = @ + 1]
    BY <1>8 DEF ReportFailure, AfterDelivery, delivery, StageOK, FailOK, Delivering
  <2> QED BY <1>0, <2>1 DEF FailOK, FailureReportedOnce, Delivering
<1>9. CASE UNCHANGED vars
  BY <1>9 DEF vars, FailOK, FailureReportedOnce, Delivering, delivery, observed
<1> QED BY <1>1, <1>2, <1>3, <1>4, <1>5, <1>6, <1>7, <1>8, <1>9, OthersAreCalm DEF Next, Deliver

LEMMA FailInit == Init => FailOK
BY SinkFacts DEF Init, FailOK, FailureReportedOnce, Delivering

\* ALERT_DELIVERY_FAILED is logged once per alert at most, when its attempts are used up,
\* and an undelivered row never counts more than max_attempts (deliver, mark_failed).
THEOREM FailureIsReportedOnce == Spec => []FailureReportedOnce
<1>1. FailOK => FailureReportedOnce
  BY DEF FailOK
<1>2. Shape /\ FailOK /\ [Next]_vars => FailOK'
  BY FailStep
<1> QED BY <1>1, <1>2, ShapeInit, ShapeStep, FailInit, PTL DEF Spec

-----------------------------------------------------------------------------
(* Sends and the contract *)

\* Whatever failed or crashed before, a sink receives an alert only while it is saved,
\* undelivered, has attempts left and its backoff has passed (list_undelivered, deliver).
THEOREM BackoffRespected == Spec => SendsRespectBackoff
<1>1. ASSUME Shape, [Next]_vars, NEW a \in Alerts, copies'[a] # copies[a]
      PROVE  a \in Saved /\ ~Settled(a) /\ row[a].wait = 0
  <2>1. PICK ok \in BOOLEAN, arrived \in BOOLEAN : Send(ok, arrived)
    BY <1>1 DEF Next, Deliver, QueueAlert, ListDue, StartDelivery, MarkDelivered, LogDelivered, MarkFailed,
                ReportFailure, TaskDies, Crash, Restart, Tick, vars, observed
  <2>2. a = current
    BY <1>1, <2>1 DEF Send, Shape, TypeOK
  <2>3. current \in Saved /\ Due(current) /\ row[current].attempts \in Nat
    BY <1>1, <2>1, <2>2 DEF Send, Shape, TypeOK, BatchOK, StageOK, Delivering
  <2> QED BY <2>2, <2>3, SinkFacts DEF Due, Settled
<1>2. Shape /\ [Next]_vars =>
        [\A a \in Alerts : copies'[a] # copies[a] => a \in Saved /\ ~Settled(a) /\ row[a].wait = 0]_vars
  BY <1>1
<1> QED BY <1>2, ShapeInit, ShapeStep, PTL DEF Spec, SendsRespectBackoff

\* The states of the contract that the outbox stands for.
Outcomes == [a \in Alerts |-> Outcome(a)]
Reached  == [a \in Alerts |-> {s \in Sinks : copies[a][s] > 0}]

\* A step that changes no outcome and brings nobody a copy is a stutter of the contract.
LEMMA Stutters ==
  ASSUME \A a \in Alerts : Outcome(a)' = Outcome(a), copies' = copies
  PROVE  UNCHANGED <<Outcomes, Reached>>
BY DEF Outcomes, Reached

\* Every step is one of the contract or a stutter.
LEMMA ContractStep ==
  ASSUME Shape, [Next]_vars
  PROVE  [Contract!CNext]_(Contract!cvars)
<1> USE SinkFacts DEF Shape
<1>0. /\ current \in Alerts /\ sink \in Sinks
      /\ \A a \in Alerts : row[a].attempts \in Nat /\ row[a].delivered \in BOOLEAN /\ row[a].created \in Nat
      /\ copies \in [Alerts -> [Sinks -> Nat]]
  BY DEF TypeOK
<1>1. ASSUME UNCHANGED <<row, copies>>
      PROVE  UNCHANGED <<Outcomes, Reached>>
  BY <1>1, Stutters DEF Outcome
<1>2. ASSUME Tick
      PROVE  UNCHANGED <<Outcomes, Reached>>
  <2>1. \A a \in Alerts : row'[a] = [row[a] EXCEPT !.wait = Elapse(@)]
    BY <1>2 DEF Tick
  <2>2. copies' = copies
    BY <1>2 DEF Tick, observed
  <2>3. \A a \in Alerts : /\ row'[a].created = row[a].created /\ row'[a].delivered = row[a].delivered
                          /\ row'[a].attempts = row[a].attempts
    BY <2>1 DEF TypeOK
  <2> QED BY <2>2, <2>3, Stutters DEF Outcome
<1>3. ASSUME NEW a \in Alerts, QueueAlert(a)
      PROVE  Contract!Save(a)
  <2>1. /\ row[a].created = 0 /\ row'[a].created # 0 /\ copies' = copies
        /\ row'[a].attempts = row[a].attempts /\ row'[a].delivered = row[a].delivered
        /\ \A b \in Alerts : b # a => row'[b] = row[b]
    <3>1. IsFiniteSet(Saved)
      BY AlertsAssumption, FS_Subset DEF Saved
    <3>2. Cardinality(Saved) \in Nat
      BY <3>1, FS_CardinalityType
    <3> QED BY <1>3, <3>2 DEF QueueAlert, TypeOK, observed
  <2>2. Outcome(a) = "unsaved" /\ Outcome(a)' = "waiting"
    BY <2>1 DEF Outcome, FreshOK
  <2>3. \A b \in Alerts : b # a => Outcome(b)' = Outcome(b)
    BY <2>1 DEF Outcome
  <2>4. Outcomes' = [Outcomes EXCEPT ![a] = "waiting"]
    BY <2>2, <2>3 DEF Outcomes
  <2>5. Reached' = Reached
    BY <2>1 DEF Reached
  <2> QED BY <2>2, <2>4, <2>5 DEF Contract!Save, Outcomes, Reached
<1>4. ASSUME NEW ok \in BOOLEAN, NEW arrived \in BOOLEAN, Send(ok, arrived)
      PROVE  Contract!Receive(current, sink) \/ UNCHANGED <<Outcomes, Reached>>
  <2>1. Outcome(current) = "waiting" /\ row' = row
    BY <1>0, <1>4 DEF Send, Outcome, BatchOK, StageOK, Delivering, Saved, Due
  <2>2. Outcomes' = Outcomes
    BY <2>1 DEF Outcomes, Outcome
  <2>3. CASE copies' = copies
    BY <2>2, <2>3 DEF Reached
  <2>4. CASE copies' = [copies EXCEPT ![current][sink] = @ + 1]
    <3>1. \A a \in Alerts : a # current => Reached'[a] = Reached[a]
      BY <1>0, <2>4 DEF Reached
    <3>2. Reached'[current] = Reached[current] \cup {sink}
      BY <1>0, <2>4 DEF Reached
    <3>3. Reached' = [Reached EXCEPT ![current] = @ \cup {sink}]
      BY <1>0, <3>1, <3>2 DEF Reached
    <3> QED BY <1>0, <2>1, <2>2, <3>3 DEF Contract!Receive, Outcomes, Reached
  <2> QED BY <1>4, <2>3, <2>4 DEF Send
<1>5. ASSUME NEW ok \in BOOLEAN, NEW written \in BOOLEAN, MarkDelivered(ok, written)
      PROVE  Contract!Complete(current) \/ UNCHANGED <<Outcomes, Reached>>
  <2>1. /\ Outcome(current) = "waiting" /\ copies' = copies
        /\ \A s \in Sinks : copies[current][s] > 0
    BY <1>0, <1>5 DEF MarkDelivered, Outcome, BatchOK, StageOK, Delivering, Saved, Due, observed
  <2>2. Reached' = Reached /\ Reached[current] = Sinks
    BY <1>0, <2>1 DEF Reached
  <2>3. CASE ~written
    BY <1>1, <1>5, <2>1, <2>3 DEF MarkDelivered
  <2>4. CASE written
    <3>1. /\ \A a \in Alerts : a # current => row'[a] = row[a]
          /\ row'[current].created = row[current].created /\ row'[current].delivered
      BY <1>5, <2>4, RowSteps
    <3>2. Outcome(current)' = "delivered" /\ \A a \in Alerts : a # current => Outcome(a)' = Outcome(a)
      <4>1. current' = current
        BY <1>5 DEF MarkDelivered, delivery
      <4> QED BY <2>1, <3>1, <4>1 DEF Outcome
    <3>3. Outcomes' = [Outcomes EXCEPT ![current] = "delivered"]
      BY <1>5, <3>2 DEF Outcomes, MarkDelivered, delivery
    <3> QED BY <1>0, <2>1, <2>2, <3>3 DEF Contract!Complete, Outcomes, Reached
  <2> QED BY <2>3, <2>4
<1>6. ASSUME MarkFailed
      PROVE  Contract!GiveUp(current) \/ UNCHANGED <<Outcomes, Reached>>
  <2>1. /\ copies' = copies /\ current' = current
        /\ \A a \in Alerts : a # current => row'[a] = row[a]
        /\ row'[current].created = row[current].created /\ row'[current].delivered = row[current].delivered
        /\ row'[current].attempts = row[current].attempts + 1
    BY <1>6, RowSteps DEF MarkFailed, delivery, observed
  <2>2. Reached' = Reached /\ \A a \in Alerts : a # current => Outcome(a)' = Outcome(a)
    BY <2>1 DEF Reached, Outcome
  <2>3. CASE Outcome(current)' = Outcome(current)
    BY <2>1, <2>2, <2>3, Stutters
  <2>4. CASE Outcome(current)' # Outcome(current)
    <3>1. Outcome(current) = "waiting" /\ Outcome(current)' = "abandoned"
      BY <1>0, <1>6, <2>1, <2>4 DEF Outcome, StageOK, MarkFailed
    <3>2. Outcomes' = [Outcomes EXCEPT ![current] = "abandoned"]
      BY <2>1, <2>2, <3>1 DEF Outcomes
    <3> QED BY <1>0, <2>2, <3>1, <3>2 DEF Contract!GiveUp, Outcomes, Reached
  <2> QED BY <2>3, <2>4
<1>7. ASSUME ListDue \/ StartDelivery \/ ReportFailure \/ TaskDies \/ Crash \/ Restart \/ UNCHANGED vars
             \/ \E ok \in BOOLEAN : LogDelivered(ok)
      PROVE  UNCHANGED <<row, copies>>
  BY <1>7 DEF ListDue, StartDelivery, ReportFailure, TaskDies, Crash, Restart, LogDelivered, vars, observed
<1>8. /\ \A a \in Alerts : Contract!Save(a) \/ Contract!Complete(a) \/ Contract!GiveUp(a) => Contract!CNext
      /\ Contract!Receive(current, sink) => Contract!CNext
  <2>1. ASSUME NEW a \in Alerts, Contract!Save(a) \/ Contract!Complete(a) \/ Contract!GiveUp(a)
        PROVE  Contract!CNext
    BY <2>1 DEF Contract!CNext
  <2>2. ASSUME Contract!Receive(current, sink)
        PROVE  Contract!CNext
    BY <1>0, <2>2 DEF Contract!CNext, Contract!Receive
  <2> QED BY <2>1, <2>2
<1>9. Contract!CNext \/ UNCHANGED <<Outcomes, Reached>>
  <2>1. CASE \E a \in Alerts : QueueAlert(a)
    BY <1>3, <1>8, <2>1
  <2>2. CASE \E ok, arrived \in BOOLEAN : Send(ok, arrived) \/ MarkDelivered(ok, arrived)
    BY <1>0, <1>4, <1>5, <1>8, <2>2
  <2>3. CASE MarkFailed
    BY <1>0, <1>6, <1>8, <2>3
  <2> QED BY <1>1, <1>2, <1>7, <2>1, <2>2, <2>3 DEF Next, Deliver
<1>10. UNCHANGED <<Outcomes, Reached>> => UNCHANGED Contract!cvars
  BY DEF Contract!cvars, Outcomes, Reached
<1> QED BY <1>9, <1>10

\* The dispatcher implements the contract: delivered only after every sink has the alert,
\* and settled for good, wherever failures and crashes fall (deliver, mark_delivered,
\* mark_failed).
THEOREM DispatcherImplementsContract == Spec => ImplementsContract
<1>1. Init => Contract!CInit
  BY DEF Init, Contract!CInit, Outcome
<1> QED BY <1>1, ShapeInit, ShapeStep, ContractStep, PTL DEF Spec, ImplementsContract, Contract!CSpec

=============================================================================
