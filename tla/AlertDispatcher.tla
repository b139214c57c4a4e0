--------------------------- MODULE AlertDispatcher ---------------------------
(***************************************************************************)
(* The alert outbox: services save alerts in the alerts table inside their *)
(* own transactions, and the one dispatcher task of the process lists the  *)
(* due ones, sends each to every sink in turn and records the outcome      *)
(* (alerts/dispatcher.py).  Each await of deliver() is a step of its own,  *)
(* so that a failure, the death of the task or of the process can fall     *)
(* between any two of them.                                                *)
(*                                                                         *)
(* Time is relative: wait counts down to next_attempt_at and age counts up *)
(* from the clock value dispatch_once read, so no clock bound is needed.   *)
(* list_undelivered returns copies of the rows, but only this task writes  *)
(* them after they are saved, so the row stands for the copy until         *)
(* mark_delivered; seen keeps the attempts deliver() read.                 *)
(*                                                                         *)
(* An operator whose name ends in Slip is not part of the model: it is a   *)
(* mistake the definition after it could contain, kept to show that the    *)
(* properties would notice it.                                             *)
(***************************************************************************)
EXTENDS Integers, Sequences, FiniteSets

CONSTANTS
  Alerts,       \* alert identifiers
  Priority,     \* priority of each alert's kind: 0 SELL_NOW ... 3
  NumSinks,     \* the configured sinks, numbered in the order deliver uses
  MaxAttempts,  \* alert_max_attempts
  Backoffs,     \* BACKOFF_SECONDS, in ticks
  AgeCap,       \* bound of the model: ages are told apart up to the longest backoff
  MaxCrashes    \* bound of the model: how often the process dies

Sinks == 1..NumSinks

ASSUME AlertsAssumption == IsFiniteSet(Alerts) /\ Alerts # {} /\ Priority \in [Alerts -> 0..3]
ASSUME SinksAssumption == NumSinks \in Nat \ {0} /\ MaxAttempts \in Nat \ {0}
ASSUME BackoffAssumption ==
  /\ Backoffs \in Seq(Nat) /\ Backoffs # <<>>
  /\ AgeCap \in Nat /\ \A k \in DOMAIN Backoffs : Backoffs[k] <= AgeCap
ASSUME CrashAssumption == MaxCrashes \in Nat

VARIABLES
  row,      \* AlertRecord per alert; created = 0 stands for "not saved"
  task,     \* where the dispatcher task is; see Stages
  batch,    \* the listed alerts deliver() has not been called for yet
  current,  \* the alert being delivered
  seen,     \* its attempts when deliver() read them
  sink,     \* the sink the task is at
  age,      \* time since dispatch_once read the clock
  copies,   \* copies of each alert each sink has received
  reports,  \* ALERT_DELIVERY_FAILED events of each alert
  cut,      \* deliveries of each alert that ended before counting an attempt
  crashes   \* counts towards MaxCrashes

vars == <<row, task, batch, current, seen, sink, age, copies, reports, cut, crashes>>
delivery == <<current, seen, sink>>
observed == <<copies, reports, cut>>

Stages == {"waiting",    \* between two dispatch_once
           "choosing",   \* in dispatch_once, between two deliveries
           "sending", "marking", "logging",     \* in the try block of deliver
           "failing", "reporting",              \* in its handler
           "dead",       \* run() ended with an exception; the process lives on
           "down"}       \* the process is not running
Running == Stages \ {"dead", "down"}

-----------------------------------------------------------------------------
Saved   == {a \in Alerts : row[a].created > 0}
Settled(a) == row[a].delivered \/ row[a].attempts >= MaxAttempts

\* The alerts dispatch_once lists: undelivered, attempts left and due.
DueSlip(a)     == ~row[a].delivered /\ row[a].attempts < MaxAttempts
ListableSlip(a) == ~row[a].delivered /\ row[a].attempts < MaxAttempts - 1 /\ row[a].wait = 0
Due(a)         == ~row[a].delivered /\ row[a].attempts < MaxAttempts /\ row[a].wait = 0

\* The sort key of dispatch_once, and the alert it comes to next.
Before(a, b) == \/ Priority[a] < Priority[b]
                \/ Priority[a] = Priority[b] /\ row[a].created <= row[b].created
Foremost == CHOOSE a \in batch : \A b \in batch : Before(a, b)

Shorter(x, y) == IF x < y THEN x ELSE y

\* wait after failed attempt number n; mark_failed clears it after the last.
RemainingSlip(n) == Backoffs[Shorter(n, Len(Backoffs))] - age
Remaining(n) ==
  LET pause == Backoffs[Shorter(n, Len(Backoffs))] - age
  IN  IF n < MaxAttempts /\ pause > 0 THEN pause ELSE 0

\* The task after its present alert: on to the next one, or to the poll delay.
AfterDelivery == IF batch = {} THEN "waiting" ELSE "choosing"

-----------------------------------------------------------------------------
\* _queue_alert of the service, the monitors and the schedulers.
QueueAlert(a) ==
  /\ row[a].created = 0
  /\ row' = [row EXCEPT ![a].created = Cardinality(Saved) + 1]
  /\ UNCHANGED <<task, batch, delivery, age, observed, crashes>>

\* dispatch_once reads the clock and the table.
ListDue ==
  /\ task = "waiting"
  /\ batch' = {a \in Saved : Due(a)}
  /\ batch' # {}
  /\ task' = "choosing"
  /\ age' = 0
  /\ UNCHANGED <<row, delivery, observed, crashes>>

StartDelivery ==
  /\ task = "choosing"
  /\ current' = Foremost
  /\ seen' = row[Foremost].attempts
  /\ sink' = 1
  /\ batch' = batch \ {Foremost}
  /\ task' = "sending"
  /\ UNCHANGED <<row, age, observed, crashes>>

AfterSendSlip == "marking"
AfterSend     == IF sink = NumSinks THEN "marking" ELSE "sending"

\* One sink.send; a failing request may have reached the sink all the same.
Send(ok, arrived) ==
  /\ task = "sending"
  /\ ok => arrived
  /\ copies' = IF arrived THEN [copies EXCEPT ![current][sink] = @ + 1] ELSE copies
  /\ task' = IF ok THEN AfterSend ELSE "failing"
  /\ sink' = IF ok /\ sink < NumSinks THEN sink + 1 ELSE 1
  /\ UNCHANGED <<row, batch, current, seen, age, reports, cut, crashes>>

\* mark_delivered; when the connection fails the update may have been committed.
MarkDelivered(ok, written) ==
  /\ task = "marking"
  /\ ok => written
  /\ row' = IF written
            THEN [row EXCEPT ![current].delivered = TRUE, ![current].attempts = @ + 1,
                             ![current].wait = 0]
            ELSE row
  /\ task' = IF ok THEN "logging" ELSE "failing"
  /\ UNCHANGED <<batch, delivery, age, observed, crashes>>

\* The ALERT_DELIVERED event of one sink.
LogDelivered(ok) ==
  /\ task = "logging"
  /\ task' = IF ~ok THEN "failing" ELSE IF sink < NumSinks THEN "logging" ELSE AfterDelivery
  /\ sink' = IF ok /\ sink < NumSinks THEN sink + 1 ELSE 1
  /\ UNCHANGED <<row, batch, current, seen, age, observed, crashes>>

\* mark_failed counts an attempt, whether or not the row is already delivered.
AttemptsSlip == row[current].attempts
Attempts     == row[current].attempts + 1

LastAttemptSlip == seen + 1 >= MaxAttempts - 1
LastAttempt     == Attempts >= MaxAttempts

MarkFailed ==
  /\ task = "failing"
  /\ row' = [row EXCEPT ![current].attempts = Attempts, ![current].wait = Remaining(seen + 1)]
  /\ task' = IF LastAttempt THEN "reporting" ELSE AfterDelivery
  /\ UNCHANGED <<batch, delivery, age, observed, crashes>>

ReportFailure ==
  /\ task = "reporting"
  /\ reports' = [reports EXCEPT ![current] = @ + 1]
  /\ task' = AfterDelivery
  /\ UNCHANGED <<row, batch, delivery, age, copies, cut, crashes>>

-----------------------------------------------------------------------------
\* The delivery in progress ends without an attempt being counted for it.
Cut == IF task \in {"sending", "marking", "failing"} /\ row[current].attempts = seen
       THEN [cut EXCEPT ![current] = @ + 1] ELSE cut

\* An exception outside DELIVERY_ERRORS, or any exception of the listing or of the
\* handler, leaves run(); nothing watches the task.
TaskDies ==
  /\ task \in Running \ {"choosing"}
  /\ task' = "dead" /\ batch' = {} /\ cut' = Cut
  /\ UNCHANGED <<row, delivery, age, copies, reports, crashes>>

\* The process stops: shutdown cancels the task at whatever it awaits.
Crash ==
  /\ crashes < MaxCrashes /\ task # "down"
  /\ task' = "down" /\ batch' = {} /\ cut' = Cut
  /\ crashes' = crashes + 1
  /\ UNCHANGED <<row, delivery, age, copies, reports>>

\* The process starts again and lifespan() creates a new dispatcher task.
Restart ==
  /\ task = "down"
  /\ task' = "waiting"
  /\ UNCHANGED <<row, batch, delivery, age, observed, crashes>>

Elapse(x) == IF x > 0 THEN x - 1 ELSE 0

Tick ==
  /\ (\E a \in Alerts : row[a].wait > 0) \/ (task \in Running \ {"waiting"} /\ age < AgeCap)
  /\ row' = [a \in Alerts |-> [row[a] EXCEPT !.wait = Elapse(@)]]
  /\ age' = Shorter(age + 1, AgeCap)
  /\ UNCHANGED <<task, batch, delivery, observed, crashes>>

-----------------------------------------------------------------------------
Init ==
  /\ row = [a \in Alerts |-> [created |-> 0, attempts |-> 0, delivered |-> FALSE, wait |-> 0]]
  /\ task = "waiting" /\ batch = {}
  /\ current = CHOOSE a \in Alerts : TRUE
  /\ seen = 0 /\ sink = 1 /\ age = 0
  /\ copies = [a \in Alerts |-> [s \in Sinks |-> 0]]
  /\ reports = [a \in Alerts |-> 0]
  /\ cut = [a \in Alerts |-> 0]
  /\ crashes = 0

Deliver ==
  \/ ListDue \/ StartDelivery
  \/ \E ok, done \in BOOLEAN : Send(ok, done) \/ MarkDelivered(ok, done)
  \/ \E ok \in BOOLEAN : LogDelivered(ok)
  \/ MarkFailed \/ ReportFailure

Next ==
  \/ \E a \in Alerts : QueueAlert(a)
  \/ Deliver
  \/ TaskDies \/ Crash \/ Restart \/ Tick

Spec == Init /\ [][Next]_vars

\* The task's own steps go on while it lives, the clock runs, and the supervisor
\* restarts the process (restart: unless-stopped).  Neither the success of a send
\* nor the arrival of alerts is assumed.
FairSpec == Spec /\ WF_vars(Deliver) /\ WF_vars(Tick) /\ WF_vars(Restart)

-----------------------------------------------------------------------------
(* Properties *)

\* Rows, counters and the stage are of their types; waits are never negative and
\* never longer than the longest backoff.
TypeOK ==
  /\ row \in [Alerts -> [created : Nat, attempts : Nat, delivered : BOOLEAN, wait : 0..AgeCap]]
  /\ task \in Stages /\ batch \subseteq Alerts /\ current \in Alerts
  /\ seen \in Nat /\ sink \in Sinks /\ age \in 0..AgeCap
  /\ copies \in [Alerts -> [Sinks -> Nat]]
  /\ reports \in [Alerts -> Nat] /\ cut \in [Alerts -> Nat] /\ crashes \in Nat

\* Duplicates are accounted for: a sink never receives more copies of an alert than
\* attempts are recorded for it, deliveries were cut short, and one in progress.
CopiesAccounted ==
  \A a \in Alerts, s \in Sinks :
    copies[a][s] <= row[a].attempts + cut[a]
                    + IF a = current /\ task \in {"sending", "marking", "failing"}
                         /\ row[a].attempts = seen THEN 1 ELSE 0

\* ALERT_DELIVERY_FAILED is logged once per alert at most and only when its
\* attempts are used up, although a delivered row may fail again in its logging;
\* an undelivered row never counts more than max_attempts.
FailureReportedOnce ==
  \A a \in Alerts : /\ reports[a] <= 1
                    /\ reports[a] = 1 => row[a].attempts >= MaxAttempts
                    /\ ~row[a].delivered => row[a].attempts <= MaxAttempts

\* Whatever failed or crashed before, a sink receives an alert only while it is
\* saved, undelivered, has attempts left and its backoff has passed.
SendsRespectBackoff ==
  [][\A a \in Alerts : copies'[a] # copies[a] =>
        a \in Saved /\ ~Settled(a) /\ row[a].wait = 0]_vars

\* Every delivery is one the contract allows: delivered only after every sink has
\* the alert, and settled for good.
Outcome(a) ==
  IF row[a].created = 0 THEN "unsaved"
  ELSE IF row[a].delivered THEN "delivered"
  ELSE IF row[a].attempts >= MaxAttempts THEN "abandoned" ELSE "waiting"

Contract == INSTANCE AlertContract WITH
  outcome <- [a \in Alerts |-> Outcome(a)],
  reached <- [a \in Alerts |-> {s \in Sinks : copies[a][s] > 0}]

ImplementsContract == Contract!CSpec

\* A saved alert is delivered or uses up its attempts, however often sinks fail and
\* the process crashes, unless the dispatcher task dies and nobody restarts it.
EventuallySettled ==
  \A a \in Alerts : a \in Saved ~> (Settled(a) \/ task = "dead")

=============================================================================
