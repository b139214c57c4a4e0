----------------------------- MODULE SessionDay -----------------------------
(***************************************************************************)
(* The records of one market day around the radar slots: the premarket     *)
(* checkpoints (runtime/premarket.py), the calls of BatchRuntime.run       *)
(* (runtime/batch.py) by workflows and by the session runner, in any order *)
(* and at any time, the failures the session runner records after them     *)
(* (runtime/session.py), the coverage of the day (runtime/coverage.py) and *)
(* the daily digest (runtime/daily_digest.py).                             *)
(*                                                                         *)
(* A day is served by the in-process loop or by batch calls, not by both.  *)
(* Batch calls do not overlap: workflows share one concurrency group.      *)
(***************************************************************************)
EXTENDS RadarScheduler

CONSTANTS
  Checkpoints,   \* PREMARKET_CHECKPOINTS
  WindowEnd,     \* PREMARKET_WINDOW_ENDS
  MaxFailedTicks \* bounds the ticks that fail

ASSUME DayAssumption ==
  /\ Checkpoints # {} /\ WindowEnd \in [Checkpoints -> Nat]
  /\ \A c \in Checkpoints : WindowEnd[c] <= Opens
  /\ \A c, d \in Checkpoints : WindowEnd[c] = WindowEnd[d] => c = d
  /\ MaxFailedTicks \in Nat

VARIABLES
  checks,     \* premarket_run:<checkpoint> in runtime_status
  checkRuns,  \* status of the last PREMARKET_RUN event of a checkpoint
  tops,       \* what that event ranks: nothing, symbols, or finalists among them
  digest,     \* daily_digest_run: its status, and what the last digest said of the session,
              \* of the predictions and of their outcomes
  review,     \* data_state of premarket_learning_review
  tick,       \* the tick whose BatchRuntime.run has not returned
  failed      \* failed ticks

dayVars == <<checks, checkRuns, tops, digest, review, tick, failed>>
vars    == <<radarVars, dayVars>>

CheckStatuses == {"none", "COMPLETED", "DATA_UNAVAILABLE", "MISSED_AFTER_OPEN", "FAILED", "MISSED"}
NoTick        == [kind |-> "none", of |-> 0]
Ticks         == [kind : {"radar"}, of : Slots] \cup [kind : {"premarket"}, of : Checkpoints]
                 \cup {[kind |-> "digest", of |-> 0]}

-----------------------------------------------------------------------------
(* Coverage of the day *)

\* coverage_for_events: the last event of every slot the policy expects, early close or
\* not, and of every checkpoint.
SessionStatusSlip == IF \E s \in Slots : latest[s] # "COMPLETED" THEN "INCOMPLETE" ELSE "COMPLETE"
SessionStatus ==
  IF (\A s \in Slots : latest[s] = "none") /\ \A c \in Checkpoints : checkRuns[c] = "none" THEN "NEVER_RAN"
  ELSE IF \/ \E s \in Slots : latest[s] # "COMPLETED"
          \/ \E c \in Checkpoints : checkRuns[c] # "COMPLETED" THEN "INCOMPLETE"
  ELSE "COMPLETE"

\* _premarket_learning: the predictions are those of the latest checkpoint with an event;
\* any RADAR_RUN event, missed slots included, makes them measured.
FinalCheckpoint ==
  {c \in Checkpoints : checkRuns[c] # "none"
                       /\ \A d \in Checkpoints : checkRuns[d] # "none" => WindowEnd[d] <= WindowEnd[c]}
Evaluation ==
  IF \A c \in Checkpoints : checkRuns[c] = "none" THEN "NO_PREMARKET_DATA"
  ELSE IF \A c \in FinalCheckpoint : tops[c] # "finalists" THEN "NO_FINAL_PREDICTIONS"
  ELSE IF \A s \in Slots : latest[s] = "none" THEN "POSTOPEN_DATA_MISSING"
  ELSE "MEASURED"

\* DailyDigest.create when today's digest does not exist.
NewDigest(reviewed) ==
  digest' = [status |-> "COMPLETED", said |-> SessionStatus, evaluation |-> Evaluation,
             outcomes |-> IF reviewed = "none" THEN "LEARNING_DATA_INCOMPLETE" ELSE reviewed]

-----------------------------------------------------------------------------
(* The in-process loop *)

\* run_pending in the minute of the digest, which exists or is created.
PollDigest ==
  /\ LoopIdle /\ now = Horizon /\ Polled
  /\ IF digest.status = "COMPLETED" THEN UNCHANGED digest ELSE NewDigest(review)
  /\ UNCHANGED <<now, driver, scheduled, rows, latest, run, attempted, alive,
                 checks, checkRuns, tops, review, tick, failed>>

\* scripts/daily_digest.py, at any time of the day.
DigestScript ==
  /\ driver = "api" /\ digest.status # "COMPLETED"
  /\ NewDigest(review)
  /\ UNCHANGED <<radarVars, checks, checkRuns, tops, review, tick, failed>>

-----------------------------------------------------------------------------
(* BatchRuntime.run and the session runner's ticks *)

FreeSlip  == driver = "batch" /\ alive
Free      == driver = "batch" /\ alive /\ run = NoRun /\ tick = NoTick
Begins(t) == tick' = t

\* The session's tick names the slot of the clock, even when the market closed early.
ClockSlot(slot) == At(slot) <= now /\ \A s \in Slots : At(s) <= now => s <= slot

\* _run_radar: older due slots that are not final are marked missed, the last due one is
\* run unless it is final.
Due(s) == At(s) <= now
RadarTick ==
  \E slot \in Slots, last \in 1..scheduled :
    LET runs == rows[last] \notin Final
        old  == 1..(last - 1)
    IN
    /\ Free /\ ClockSlot(slot) /\ Due(last) /\ \A s \in 1..scheduled : Due(s) => s <= last
    /\ Begins([kind |-> "radar", of |-> slot])
    /\ rows' = [MissedIn(rows, old) EXCEPT ![last] = IF runs THEN "STARTED" ELSE @]
    /\ latest' = MissedIn(latest, old)
    /\ run' = IF runs THEN Started(last) ELSE NoRun
    /\ UNCHANGED <<now, driver, scheduled, attempted, alive, watch, checks, checkRuns, tops, digest, review, failed>>

\* PremarketFunnel.run: only COMPLETED is final; after the open it is too late.
Late     == now >= Opens
\* _persist: the PREMARKET_RUN event and the row, in one transaction.
CheckOutcome(c, status, top) ==
  /\ checks' = [checks EXCEPT ![c] = status] /\ checkRuns' = [checkRuns EXCEPT ![c] = status]
  /\ tops' = [tops EXCEPT ![c] = top]

\* _candidate_row: a symbol without data is not assessed; one that a gate bars (price,
\* momentum, liquidity, stale data, bad news, volatility, profitability) is not ranked.
Standings == {"absent", "barred", "ranked", "finalist"}
Absent(standing) == {s \in Symbols : standing[s] = "absent"}

\* _collect fails closed: it ranks nothing when too few symbols have data.
Collected(standing) == IF TooFew(Absent(standing)) THEN "DATA_UNAVAILABLE" ELSE "COMPLETED"
Ranked(standing) ==
  IF TooFew(Absent(standing)) THEN "none"
  ELSE IF \E s \in Symbols : standing[s] = "finalist" THEN "finalists"
  ELSE IF \E s \in Symbols : standing[s] = "ranked" THEN "symbols"
  ELSE "none"

PremarketTick(c) ==
  /\ Free
  /\ Begins([kind |-> "premarket", of |-> c])
  /\ IF checks[c] = "COMPLETED" THEN UNCHANGED <<checks, checkRuns, tops>>
     ELSE IF Late THEN CheckOutcome(c, "MISSED_AFTER_OPEN", "none")
     ELSE \E standing \in [Symbols -> Standings] : CheckOutcome(c, Collected(standing), Ranked(standing))
  /\ UNCHANGED <<radarVars, digest, review, failed>>

\* _review_appearance: the first two gaps hide the others; any gap makes a record incomplete.
Gaps == {"reference", "bars", "forward", "eod"}
Measured(gaps) == gaps = {}

\* PremarketLearningReviewer.review, persisted once: a checkpoint counts as present when it
\* has any event, missed or failed ones included; its ranked symbols are the records.
Reviewed(gaps) ==
  IF /\ \A c \in Checkpoints : checkRuns[c] # "none"
     /\ \E c \in Checkpoints : tops[c] # "none"
     /\ Measured(gaps)
  THEN "COMPLETE" ELSE "LEARNING_DATA_INCOMPLETE"

\* _run_digest.
DigestTick(gaps) ==
  /\ Free /\ now = Horizon
  /\ Begins([kind |-> "digest", of |-> 0])
  /\ review' = IF review = "none" THEN Reviewed(gaps) ELSE review
  /\ IF digest.status = "COMPLETED" THEN UNCHANGED digest ELSE NewDigest(review')
  /\ UNCHANGED <<radarVars, checks, checkRuns, tops, failed>>

\* The rest of run: alerts, latest.json.
Ends ==
  /\ tick # NoTick /\ run = NoRun
  /\ tick' = NoTick
  /\ UNCHANGED <<radarVars, checks, checkRuns, tops, digest, review, failed>>

\* _record_tick_failure: the row of the tick becomes FAILED, whatever it was; a row that
\* is FAILED gets no further event.
RecordFailure(t) ==
  /\ failed < MaxFailedTicks
  /\ tick' = NoTick /\ failed' = failed + 1
  /\ \/ /\ t.kind = "radar" /\ WithOutcome(t.of, "FAILED")
        /\ UNCHANGED <<checks, checkRuns, tops, digest>>
     \/ /\ t.kind = "premarket" /\ CheckOutcome(t.of, "FAILED", "none")
        /\ UNCHANGED <<rows, latest, digest>>
     \/ /\ t.kind = "digest" /\ digest' = [digest EXCEPT !.status = "FAILED"]
        /\ UNCHANGED <<rows, latest, checks, checkRuns, tops>>
  /\ UNCHANGED <<now, driver, scheduled, run, attempted, alive, watch, review>>

\* The session's tick raises after its body, in the alerts or in latest.json.
Raises == tick # NoTick /\ run = NoRun /\ RecordFailure(tick)

\* It raises before its body: the replay check or a reference file fails.
Refused(t) ==
  /\ Free
  /\ t.kind = "radar" => ClockSlot(t.of)
  /\ t.kind = "digest" => now = Horizon
  /\ RecordFailure(t)

\* SessionRunner._mark_missed: checkpoints past their window, slots past their grace that
\* have no outcome.
Overdue(s) == At(s) + 2 <= now /\ rows[s] \in {"none", "STARTED"}
\* PremarketFunnel.mark_missed on every checkpoint of C.
MissedChecks(table, C, missed) ==
  [c \in Checkpoints |-> IF c \in C /\ checks[c] \notin Final THEN missed ELSE table[c]]
MarkMissed ==
  LET C == {c \in Checkpoints : now >= WindowEnd[c] /\ checks[c] \notin Final}
      S == {s \in 1..scheduled : Overdue(s)}
  IN
  /\ Free /\ C \cup S # {}
  /\ rows' = MissedIn(rows, S) /\ latest' = MissedIn(latest, S)
  /\ checks' = MissedChecks(checks, C, "MISSED") /\ checkRuns' = MissedChecks(checkRuns, C, "MISSED")
  /\ tops' = MissedChecks(tops, C, "none")
  /\ UNCHANGED <<now, driver, scheduled, run, attempted, alive, watch, digest, review, tick, failed>>

-----------------------------------------------------------------------------
Init ==
  /\ RadarInit
  /\ checks = [c \in Checkpoints |-> "none"] /\ checkRuns = checks
  /\ tops = checks
  /\ digest = [status |-> "none", said |-> "none", evaluation |-> "none", outcomes |-> "none"]
  /\ review = "none"
  /\ tick = NoTick /\ failed = 0

\* A process that dies returns from no tick.
DayCrash == Crash /\ tick' = NoTick /\ UNCHANGED <<checks, checkRuns, tops, digest, review, failed>>

Next ==
  \/ (Poll \/ PollNothing \/ Executes \/ Restart \/ Tick) /\ UNCHANGED dayVars
  \/ \E caught \in BOOLEAN : PollFails(caught) /\ UNCHANGED dayVars
  \/ DayCrash \/ PollDigest \/ DigestScript
  \/ RadarTick \/ (\E gaps \in SUBSET Gaps : DigestTick(gaps)) \/ Ends \/ Raises \/ MarkMissed
  \/ \E c \in Checkpoints : PremarketTick(c)
  \/ \E t \in Ticks : Refused(t)

Spec == Init /\ [][Next]_vars

-----------------------------------------------------------------------------
(* Properties *)

\* Shapes; a run is on a slot of the day that is STARTED.
TypeOK ==
  /\ now \in 0..Horizon /\ driver \in {"api", "batch"} /\ scheduled \in Slots
  /\ rows \in [Slots -> Statuses] /\ latest \in [Slots -> Statuses \ {"STARTED"}]
  /\ attempted \subseteq Slots /\ alive \in BOOLEAN /\ watch \in {"off", "due", "polled"}
  /\ run = NoRun \/ (run \in RunType /\ run.slot <= scheduled /\ rows[run.slot] = "STARTED")
  /\ checks \in [Checkpoints -> CheckStatuses] /\ checkRuns \in [Checkpoints -> CheckStatuses]
  /\ digest \in [status : {"none", "COMPLETED", "FAILED"},
                 said : {"none", "NEVER_RAN", "INCOMPLETE", "COMPLETE"},
                 evaluation : {"none", "NO_PREMARKET_DATA", "NO_FINAL_PREDICTIONS",
                               "POSTOPEN_DATA_MISSING", "MEASURED"},
                 outcomes : {"none", "COMPLETE", "LEARNING_DATA_INCOMPLETE"}]
  /\ tops \in [Checkpoints -> {"none", "symbols", "finalists"}]
  /\ review \in {"none", "COMPLETE", "LEARNING_DATA_INCOMPLETE"}
  /\ tick \in Ticks \cup {NoTick} /\ failed \in 0..MaxFailedTicks

\* What the digest reads agrees with what the runs left: the last event of a slot or a
\* checkpoint has the status of its row, unless the row is that of a run begun since, no
\* slot counts as completed whose row is not, and only a completed checkpoint predicts
\* (_persist_result, mark_missed, _record_tick_failure, premarket's _persist: each writes
\* event and row together).
EventsAgree ==
  /\ \A s \in Slots : rows[s] = latest[s] \/ (rows[s] = "STARTED" /\ latest[s] \notin Final)
  /\ checks = checkRuns
  /\ \A c \in Checkpoints : tops[c] # "none" => checks[c] = "COMPLETED"

\* A completed slot or checkpoint stays completed, whatever is called again, late or
\* after a restart; only a failure of its own tick takes that away.
CompletedKept ==
  [][/\ \A s \in Slots : rows[s] = "COMPLETED" /\ rows'[s] # "COMPLETED" =>
          rows'[s] = "FAILED" /\ failed' > failed
     /\ \A c \in Checkpoints : checks[c] = "COMPLETED" /\ checks'[c] # "COMPLETED" =>
          checks'[c] = "FAILED" /\ failed' > failed]_vars

\* A digest calls the session complete exactly when every slot and every checkpoint of
\* the policy is completed at that moment, and its three readers of the day's events do
\* not contradict each other: predictions are missing only of an incomplete day, nothing
\* is predicted or measured in a day that never ran (DailyDigest.create,
\* coverage_for_events, _premarket_learning, PremarketLearningReviewer.review).
DigestHonest ==
  [][digest' # digest /\ digest'.status = "COMPLETED" =>
       /\ digest'.said = "COMPLETE"
            <=> (\A s \in Slots : rows[s] = "COMPLETED") /\ \A c \in Checkpoints : checks[c] = "COMPLETED"
       /\ digest'.said = "COMPLETE" => digest'.evaluation \in {"MEASURED", "NO_FINAL_PREDICTIONS"}
       /\ digest'.evaluation = "MEASURED" => \E c \in Checkpoints : checks[c] = "COMPLETED"
       /\ digest'.said = "NEVER_RAN" =>
            digest'.evaluation = "NO_PREMARKET_DATA" /\ digest'.outcomes # "COMPLETE"]_vars
=============================================================================
