----------------------------- MODULE DayProofs -----------------------------
(***************************************************************************)
(* Theorems about the records of a market day, for any number of slots,    *)
(* checkpoints and symbols and any number of failing ticks: the shape of   *)
(* the state, that rows and events agree, that completed work is kept,     *)
(* that the digest tells the truth, and that the loop tries the oldest     *)
(* slots first.                                                                *)
(***************************************************************************)
EXTENDS SessionDay, TLAPS

-----------------------------------------------------------------------------
(* Types *)

\* TypeOK in two parts: the records of the radar and those of the day.
RunOK ==
  run = NoRun \/ (run \in RunType /\ run.slot <= scheduled /\ rows[run.slot] = "STARTED")
RadarOK ==
  /\ now \in 0..Horizon /\ driver \in {"api", "batch"} /\ scheduled \in Slots
  /\ rows \in [Slots -> Statuses] /\ latest \in [Slots -> Statuses \ {"STARTED"}]
  /\ attempted \subseteq Slots /\ alive \in BOOLEAN /\ watch \in {"off", "due", "polled"}
ChecksOK ==
  /\ checks \in [Checkpoints -> CheckStatuses] /\ checkRuns \in [Checkpoints -> CheckStatuses]
  /\ tops \in [Checkpoints -> {"none", "symbols", "finalists"}]
DigestOK ==
  /\ digest \in [status : {"none", "COMPLETED", "FAILED"},
                 said : {"none", "NEVER_RAN", "INCOMPLETE", "COMPLETE"},
                 evaluation : {"none", "NO_PREMARKET_DATA", "NO_FINAL_PREDICTIONS",
                               "POSTOPEN_DATA_MISSING", "MEASURED"},
                 outcomes : {"none", "COMPLETE", "LEARNING_DATA_INCOMPLETE"}]
  /\ review \in {"none", "COMPLETE", "LEARNING_DATA_INCOMPLETE"}
TickOK == tick \in Ticks \cup {NoTick} /\ failed \in 0..MaxFailedTicks

Shape  == RadarOK /\ RunOK /\ ChecksOK /\ DigestOK /\ TickOK

LEMMA TypeParts == TypeOK <=> Shape
BY DEF TypeOK, Shape, RadarOK, RunOK, ChecksOK, DigestOK, TickOK

\* A slot's number and its minute determine each other.
LEMMA SlotFacts ==
  /\ N \in Nat /\ Opens \in Nat /\ PlansPerRun \in Nat /\ MaxFailedTicks \in Nat
  /\ 1 \in Slots /\ Horizon \in Nat
  /\ \A s \in Slots : s \in Nat /\ At(s) \in Nat
  /\ \A s, c \in Slots : At(s) = At(c) => s = c
BY RadarAssumption, DayAssumption DEF Slots, At, Horizon

\* mark_missed keeps the tables' types and touches no completed or missed row.
LEMMA MissedTypes ==
  ASSUME RadarOK, NEW S
  PROVE  /\ MissedIn(rows, S) \in [Slots -> Statuses]
         /\ MissedIn(latest, S) \in [Slots -> Statuses \ {"STARTED"}]
BY DEF RadarOK, MissedIn, Statuses

\* A transaction that gives a slot an outcome keeps the tables' types.
LEMMA OutcomeTypes ==
  ASSUME RadarOK, NEW s \in Slots, NEW status \in Statuses \ {"STARTED"}, WithOutcome(s, status)
  PROVE  rows' \in [Slots -> Statuses] /\ latest' \in [Slots -> Statuses \ {"STARTED"}]
BY DEF RadarOK, WithOutcome, Statuses

\* A step that moves the run on and writes no row keeps the types.
LEMMA RunAdvances ==
  ASSUME RadarOK, RunOK, Running, RunOnly, run' \in RunType, run'.slot = run.slot
  PROVE  RadarOK' /\ RunOK'
<1>1. RadarOK'
  BY DEF RadarOK, RunOnly
<1>2. run.slot <= scheduled /\ rows[run.slot] = "STARTED" /\ UNCHANGED <<scheduled, rows>>
  BY DEF RunOK, Running, RunOnly
<1> QED BY <1>1, <1>2 DEF RunOK

\* Where a run may go from here.
LEMMA RunMoves ==
  ASSUME Shape, Running
  PROVE  /\ run \in RunType /\ run.slot \in Slots /\ rows[run.slot] = "STARTED"
         /\ \A phase \in Phases : [run EXCEPT !.phase = phase] \in RunType
                                  /\ [run EXCEPT !.phase = phase].slot = run.slot
<1>1. run \in RunType /\ rows[run.slot] = "STARTED"
  BY DEF Shape, RunOK, Running
<1> QED BY <1>1 DEF RunType

\* The steps of a run keep the types.
LEMMA ExecutesTypes ==
  ASSUME Shape, Executes
  PROVE  RadarOK' /\ RunOK'
<1> USE SlotFacts DEF Shape
<1>1. ASSUME NEW outcome, NEW skipped, Screen(outcome, skipped)
      PROVE  RadarOK' /\ RunOK'
  <2>1. PICK phase \in Phases : run' = [run EXCEPT !.phase = phase]
    BY <1>1 DEF Screen, Advance, Phases
  <2> QED BY <1>1, <2>1, RunMoves, RunAdvances DEF Screen
<1>2. ASSUME NEW outcome \in {"ok", "unavailable", "failed"}, Build(outcome)
      PROVE  RadarOK' /\ RunOK'
  <2>1. CASE outcome = "ok"
    <3>1. run' = [run EXCEPT !.left = @ - 1] /\ run.left > 0 /\ run \in RunType
      BY <1>2, <2>1, RunMoves DEF Build
    <3>2. run' \in RunType /\ run'.slot = run.slot
      BY <3>1 DEF RunType
    <3> QED BY <1>2, <3>2, RunAdvances DEF Build
  <2>2. CASE outcome # "ok"
    <3>1. run' = [run EXCEPT !.phase = outcome] /\ outcome \in Phases
      BY <1>2, <2>2 DEF Build, Advance, Phases
    <3> QED BY <1>2, <3>1, RunMoves, RunAdvances DEF Build
  <2> QED BY <2>1, <2>2
<1>3. ASSUME NEW outcome \in {"ok", "unavailable", "failed"}, NEW candidates \in 0..PlansPerRun,
             Prepare(outcome, candidates)
      PROVE  RadarOK' /\ RunOK'
  <2>1. CASE outcome = "ok"
    <3>1. run' = [run EXCEPT !.phase = "build", !.left = candidates] /\ run \in RunType
      BY <1>3, <2>1, RunMoves DEF Prepare
    <3>2. run' \in RunType /\ run'.slot = run.slot
      BY <3>1 DEF RunType, Phases
    <3> QED BY <1>3, <3>2, RunAdvances DEF Prepare
  <2>2. CASE outcome # "ok"
    <3>1. run' = [run EXCEPT !.phase = outcome] /\ outcome \in Phases
      BY <1>3, <2>2 DEF Prepare, Advance, Phases
    <3> QED BY <1>3, <3>1, RunMoves, RunAdvances DEF Prepare
  <2> QED BY <2>1, <2>2
<1>4. CASE Complete
  <2>1. rows' \in [Slots -> Statuses] /\ latest' \in [Slots -> Statuses \ {"STARTED"}]
    BY <1>4, RunMoves, OutcomeTypes DEF Complete, Statuses
  <2> QED BY <1>4, <2>1 DEF Complete, RadarOK, RunOK
<1>5. CASE CompleteFails
  <2>1. run' = [run EXCEPT !.phase = "failed"] /\ "failed" \in Phases
    BY <1>5 DEF CompleteFails, Advance, Phases
  <2> QED BY <1>5, <2>1, RunMoves, RunAdvances DEF CompleteFails
<1>6. CASE Break
  <2>1. Broken \in Statuses \ {"STARTED"}
    BY DEF Broken, Statuses
  <2>2. rows' \in [Slots -> Statuses] /\ latest' \in [Slots -> Statuses \ {"STARTED"}]
    BY <1>6, <2>1, RunMoves, OutcomeTypes DEF Break
  <2> QED BY <1>6, <2>2 DEF Break, RadarOK, RunOK
<1>7. ASSUME NEW caught \in BOOLEAN, BreakFails(caught)
      PROVE  RadarOK' /\ RunOK'
  BY <1>7 DEF BreakFails, RadarOK, RunOK
<1> QED BY <1>1, <1>2, <1>3, <1>4, <1>5, <1>6, <1>7 DEF Executes

\* The steps of the loop and of its environment keep the types.
LEMMA LoopTypes ==
  ASSUME Shape,
         Poll \/ PollNothing \/ Restart \/ Tick \/ Crash \/ \E caught \in BOOLEAN : PollFails(caught)
  PROVE  RadarOK' /\ RunOK'
<1> USE SlotFacts DEF Shape
<1>1. CASE Poll
  <2>1. PICK cur \in 1..scheduled, s \in Slots :
          /\ LoopIdle /\ Chosen(s, cur) /\ attempted' = attempted \cup {s}
          /\ \/ UNCHANGED <<rows, run>>
             \/ rows' = [rows EXCEPT ![s] = "STARTED"] /\ run' = Started(s)
          /\ UNCHANGED <<now, driver, scheduled, latest, alive>>
          /\ watch' \in {watch, "polled"}
    BY <1>1 DEF Poll, Polled
  <2>2. s <= scheduled /\ s \in Slots
    BY <2>1 DEF Chosen, CatchUp, RadarOK, Slots
  <2>3. Started(s) \in RunType /\ Started(s).slot = s
    BY <2>2 DEF Started, NoRun, RunType, Phases
  <2>4. RadarOK'
    BY <2>1, <2>2 DEF RadarOK, Statuses
  <2>5. RunOK'
    BY <2>1, <2>2, <2>3 DEF RunOK, RadarOK, LoopIdle, Slots
  <2> QED BY <2>4, <2>5
<1>2. CASE PollNothing
  BY <1>2 DEF PollNothing, Polled, RadarOK, RunOK
<1>3. CASE Restart
  BY <1>3 DEF Restart, RadarOK, RunOK
<1>4. CASE Tick
  <2>1. now \in Nat /\ now < Horizon /\ Horizon \in Nat /\ now' = now + 1
    BY <1>4 DEF Tick, RadarOK
  <2>2. now' \in 0..Horizon
    BY <2>1
  <2> QED BY <1>4, <2>2 DEF Tick, StillTried, RadarOK, RunOK
<1>5. CASE Crash
  BY <1>5 DEF Crash, RadarOK, RunOK
<1>6. ASSUME NEW caught \in BOOLEAN, PollFails(caught)
      PROVE  RadarOK' /\ RunOK'
  BY <1>6 DEF PollFails, Polled, RadarOK, RunOK
<1> QED BY <1>1, <1>2, <1>3, <1>4, <1>5, <1>6

\* The batch's own steps keep the types.
LEMMA BatchTypes ==
  ASSUME Shape,
         RadarTick \/ MarkMissed \/ Raises \/ \E t \in Ticks : Refused(t)
  PROVE  Shape'
<1> USE SlotFacts DEF Shape
<1>1. CASE RadarTick
  <2>1. PICK slot \in Slots, last \in 1..scheduled :
          /\ run = NoRun /\ tick' = [kind |-> "radar", of |-> slot]
          /\ rows' = [MissedIn(rows, 1..(last - 1)) EXCEPT ![last] = IF rows[last] \notin Final THEN "STARTED" ELSE @]
          /\ latest' = MissedIn(latest, 1..(last - 1))
          /\ run' = IF rows[last] \notin Final THEN Started(last) ELSE NoRun
          /\ UNCHANGED <<now, driver, scheduled, attempted, alive, watch, checks, checkRuns, tops, digest, review, failed>>
    BY <1>1 DEF RadarTick, Free, Begins
  <2>2. last \in Slots /\ last <= scheduled
    BY DEF RadarOK, Slots
  <2>3. RadarOK'
    <3>1. rows' \in [Slots -> Statuses]
      BY <2>1, <2>2, MissedTypes DEF Statuses
    <3> QED BY <2>1, <3>1, MissedTypes DEF RadarOK
  <2>4. Started(last) \in RunType /\ Started(last).slot = last
    BY <2>2 DEF Started, NoRun, RunType, Phases
  <2>5. rows[last] \notin Final => rows'[last] = "STARTED"
    BY <2>1, <2>2, MissedTypes
  <2>6. RunOK'
    BY <2>1, <2>2, <2>4, <2>5 DEF RunOK
  <2>7. ChecksOK' /\ DigestOK' /\ TickOK'
    BY <2>1 DEF ChecksOK, DigestOK, TickOK, Ticks
  <2> QED BY <2>3, <2>6, <2>7
<1>2. CASE MarkMissed
  <2>1. PICK C, S :
          /\ run = NoRun /\ run' = run
          /\ rows' = MissedIn(rows, S) /\ latest' = MissedIn(latest, S)
          /\ checks' = MissedChecks(checks, C, "MISSED") /\ checkRuns' = MissedChecks(checkRuns, C, "MISSED")
          /\ tops' = MissedChecks(tops, C, "none")
          /\ UNCHANGED <<now, driver, scheduled, attempted, alive, watch, digest, review, tick, failed>>
    BY <1>2 DEF MarkMissed, Free
  <2>2. RadarOK' /\ RunOK' /\ DigestOK' /\ TickOK'
    BY <2>1, MissedTypes DEF RadarOK, RunOK, DigestOK, TickOK
  <2>3. ChecksOK'
    BY <2>1 DEF ChecksOK, MissedChecks, CheckStatuses
  <2> QED BY <2>2, <2>3
<1>3. ASSUME NEW t \in Ticks, RecordFailure(t), run = NoRun
      PROVE  Shape'
  <2>1. UNCHANGED <<now, driver, scheduled, run, attempted, alive, watch, review>>
    BY <1>3 DEF RecordFailure
  <2>2. TickOK'
    BY <1>3 DEF RecordFailure, TickOK
  <2>3. CASE t.kind = "radar" /\ WithOutcome(t.of, "FAILED") /\ UNCHANGED <<checks, checkRuns, tops, digest>>
    <3>1. t.of \in Slots /\ "FAILED" \in Statuses \ {"STARTED"}
      BY <2>3 DEF Ticks, Statuses
    <3>2. RadarOK' /\ RunOK'
      BY <1>3, <2>1, <2>3, <3>1, OutcomeTypes DEF RadarOK, RunOK
    <3> QED BY <2>1, <2>2, <2>3, <3>2 DEF ChecksOK, DigestOK
  <2>4. CASE t.kind = "premarket" /\ CheckOutcome(t.of, "FAILED", "none") /\ UNCHANGED <<rows, latest, digest>>
    <3>1. RadarOK' /\ RunOK' /\ DigestOK'
      BY <2>1, <2>4 DEF RadarOK, RunOK, DigestOK
    <3>2. ChecksOK'
      BY <2>4 DEF ChecksOK, CheckOutcome, CheckStatuses
    <3> QED BY <2>2, <3>1, <3>2
  <2>5. CASE digest' = [digest EXCEPT !.status = "FAILED"] /\ UNCHANGED <<rows, latest, checks, checkRuns, tops>>
    <3>1. RadarOK' /\ RunOK' /\ ChecksOK'
      BY <2>1, <2>5 DEF RadarOK, RunOK, ChecksOK
    <3>2. DigestOK'
      BY <2>1, <2>5 DEF DigestOK
    <3> QED BY <2>2, <3>1, <3>2
  <2> QED BY <1>3, <2>3, <2>4, <2>5 DEF RecordFailure
<1>4. CASE Raises
  <2>1. tick \in Ticks /\ run = NoRun /\ RecordFailure(tick)
    BY <1>4 DEF Raises, TickOK
  <2> QED BY <1>3, <2>1
<1>5. ASSUME NEW t \in Ticks, Refused(t)
      PROVE  Shape'
  BY <1>3, <1>5 DEF Refused, Free
<1> QED BY <1>1, <1>2, <1>4, <1>5

\* What a digest says has one of its types, and so has what a review says.
LEMMA DigestTypes ==
  /\ \A r \in {"none", "COMPLETE", "LEARNING_DATA_INCOMPLETE"} :
       NewDigest(r) => digest' \in [status : {"none", "COMPLETED", "FAILED"},
                 said : {"none", "NEVER_RAN", "INCOMPLETE", "COMPLETE"},
                 evaluation : {"none", "NO_PREMARKET_DATA", "NO_FINAL_PREDICTIONS",
                               "POSTOPEN_DATA_MISSING", "MEASURED"},
                 outcomes : {"none", "COMPLETE", "LEARNING_DATA_INCOMPLETE"}]
  /\ \A gaps : Reviewed(gaps) \in {"COMPLETE", "LEARNING_DATA_INCOMPLETE"}
<1>1. SessionStatus \in {"NEVER_RAN", "INCOMPLETE", "COMPLETE"}
  BY DEF SessionStatus
<1>2. Evaluation \in {"NO_PREMARKET_DATA", "NO_FINAL_PREDICTIONS", "POSTOPEN_DATA_MISSING", "MEASURED"}
  BY DEF Evaluation
<1> QED BY <1>1, <1>2 DEF NewDigest, Reviewed

\* The remaining steps write no slot's row.
LEMMA DayTypes ==
  ASSUME Shape,
         PollDigest \/ DigestScript \/ Ends \/ (\E gaps \in SUBSET Gaps : DigestTick(gaps))
           \/ \E c \in Checkpoints : PremarketTick(c)
  PROVE  Shape'
<1> USE DEF Shape
<1>1. CASE PollDigest
  <2>1. RadarOK' /\ RunOK' /\ ChecksOK' /\ TickOK'
    BY <1>1 DEF PollDigest, Polled, RadarOK, RunOK, ChecksOK, TickOK
  <2>2. DigestOK'
    BY <1>1, DigestTypes DEF PollDigest, DigestOK
  <2> QED BY <2>1, <2>2
<1>2. CASE DigestScript
  <2>1. RadarOK' /\ RunOK' /\ ChecksOK' /\ TickOK'
    BY <1>2 DEF DigestScript, radarVars, RadarOK, RunOK, ChecksOK, TickOK
  <2>2. DigestOK'
    BY <1>2, DigestTypes DEF DigestScript, DigestOK
  <2> QED BY <2>1, <2>2
<1>3. CASE Ends
  <2>1. RadarOK' /\ RunOK' /\ ChecksOK' /\ DigestOK'
    BY <1>3 DEF Ends, radarVars, RadarOK, RunOK, ChecksOK, DigestOK
  <2>2. TickOK'
    BY <1>3 DEF Ends, TickOK
  <2> QED BY <2>1, <2>2
<1>4. ASSUME NEW gaps \in SUBSET Gaps, DigestTick(gaps)
      PROVE  Shape'
  <2>1. RadarOK' /\ RunOK' /\ ChecksOK' /\ TickOK'
    BY <1>4 DEF DigestTick, Begins, radarVars, RadarOK, RunOK, ChecksOK, TickOK, Ticks
  <2>2. review' \in {"none", "COMPLETE", "LEARNING_DATA_INCOMPLETE"}
    BY <1>4, DigestTypes DEF DigestTick, DigestOK
  <2>3. DigestOK'
    BY <1>4, <2>2, DigestTypes DEF DigestTick, DigestOK
  <2> QED BY <2>1, <2>3
<1>5. ASSUME NEW c \in Checkpoints, PremarketTick(c)
      PROVE  Shape'
  <2>1. RadarOK' /\ RunOK' /\ DigestOK' /\ TickOK'
    BY <1>5 DEF PremarketTick, Begins, radarVars, RadarOK, RunOK, DigestOK, TickOK, Ticks
  <2>2. ASSUME NEW status \in CheckStatuses, NEW top \in {"none", "symbols", "finalists"},
               CheckOutcome(c, status, top)
        PROVE  ChecksOK'
    BY <2>2 DEF CheckOutcome, ChecksOK
  <2>3. \A standing : Collected(standing) \in CheckStatuses /\ Ranked(standing) \in {"none", "symbols", "finalists"}
    BY DEF Collected, Ranked, CheckStatuses
  <2>4. "MISSED_AFTER_OPEN" \in CheckStatuses
    BY DEF CheckStatuses
  <2>5. ASSUME UNCHANGED <<checks, checkRuns, tops>>
        PROVE  ChecksOK'
    BY <2>5 DEF ChecksOK
  <2>6. ChecksOK'
    BY <1>5, <2>2, <2>3, <2>4, <2>5 DEF PremarketTick
  <2> QED BY <2>1, <2>6
<1> QED BY <1>1, <1>2, <1>3, <1>4, <1>5

\* Every step keeps the types.
LEMMA ShapeStep ==
  ASSUME Shape, [Next]_vars
  PROVE  Shape'
<1>1. CASE (Poll \/ PollNothing \/ Executes \/ Restart \/ Tick \/ \E caught \in BOOLEAN : PollFails(caught))
           /\ UNCHANGED dayVars
  <2>1. RadarOK' /\ RunOK'
    BY <1>1, ExecutesTypes, LoopTypes
  <2>2. ChecksOK' /\ DigestOK' /\ TickOK'
    BY <1>1 DEF Shape, dayVars, ChecksOK, DigestOK, TickOK
  <2> QED BY <2>1, <2>2 DEF Shape
<1>2. CASE DayCrash
  <2>1. RadarOK' /\ RunOK'
    BY <1>2, LoopTypes DEF DayCrash
  <2>2. ChecksOK' /\ DigestOK' /\ TickOK'
    BY <1>2 DEF DayCrash, Shape, ChecksOK, DigestOK, TickOK
  <2> QED BY <2>1, <2>2 DEF Shape
<1>3. CASE UNCHANGED vars
  BY <1>3 DEF vars, radarVars, dayVars, Shape, RadarOK, RunOK, ChecksOK, DigestOK, TickOK
<1> QED BY <1>1, <1>2, <1>3, BatchTypes, DayTypes DEF Next

\* The initial state has them.
LEMMA ShapeInit ==
  ASSUME Init
  PROVE  Shape
<1> USE SlotFacts
<1>1. RadarOK
  <2>1. scheduled \in Slots
    BY RadarAssumption DEF Init, RadarInit, Slots
  <2>2. rows \in [Slots -> Statuses] /\ latest \in [Slots -> Statuses \ {"STARTED"}]
    BY DEF Init, RadarInit, Statuses
  <2>3. now \in 0..Horizon
    BY DEF Init, RadarInit
  <2> QED BY <2>1, <2>2, <2>3 DEF Init, RadarInit, RadarOK
<1>2. RunOK
  BY DEF Init, RadarInit, RunOK
<1>3. ChecksOK /\ DigestOK /\ TickOK
  BY DEF Init, ChecksOK, DigestOK, TickOK, CheckStatuses
<1> QED BY <1>1, <1>2, <1>3 DEF Shape

\* The records of a day keep their types, and a run is always on a slot of the day whose
\* row says STARTED, whoever else writes rows meanwhile (_run_slot, BatchRuntime.run,
\* SessionRunner._mark_missed).
THEOREM DayTypeCorrect == Spec => []TypeOK
<1>1. Init => Shape
  BY ShapeInit
<1>2. Shape /\ [Next]_vars => Shape'
  BY ShapeStep
<1>3. Shape => TypeOK
  BY TypeParts
<1> QED BY <1>1, <1>2, <1>3, PTL DEF Spec

-----------------------------------------------------------------------------
(* Rows and events *)

\* EventsAgree in two parts.
SlotsAgree  == \A s \in Slots : rows[s] = latest[s] \/ (rows[s] = "STARTED" /\ latest[s] \notin Final)
ChecksAgree == checks = checkRuns /\ \A c \in Checkpoints : tops[c] # "none" => checks[c] = "COMPLETED"

LEMMA AgreeParts == EventsAgree <=> SlotsAgree /\ ChecksAgree
BY DEF EventsAgree, SlotsAgree, ChecksAgree

\* What any step may do to the row and the last event of a slot: leave them; record a run
\* begun on a slot without final outcome; record the same outcome in both; forget nothing.
SlotStep(s) ==
  \/ rows'[s] = rows[s] /\ latest'[s] = latest[s]
  \/ rows'[s] = "STARTED" /\ rows[s] \notin Final /\ latest'[s] = latest[s]
  \/ /\ rows'[s] = latest'[s] /\ rows'[s] # "none"
     /\ rows[s] = "COMPLETED" => rows'[s] = "FAILED" /\ failed' > failed

\* And to a checkpoint.
CheckStep(c) ==
  \/ checks'[c] = checks[c] /\ checkRuns'[c] = checkRuns[c] /\ tops'[c] = tops[c]
  \/ /\ checks'[c] = checkRuns'[c] /\ checks'[c] # "none"
     /\ tops'[c] # "none" => checks'[c] = "COMPLETED"
     /\ checks[c] = "COMPLETED" => checks'[c] = "FAILED" /\ failed' > failed

\* The steps of a run write the row of their slot, which was STARTED.
LEMMA RunSlots ==
  ASSUME Shape, Executes
  PROVE  \A s \in Slots : SlotStep(s)
<1>1. CASE UNCHANGED <<rows, latest>>
  BY <1>1 DEF SlotStep
<1>2. ASSUME NEW status \in {"COMPLETED", "FAILED", "DATA_UNAVAILABLE"}, Running, WithOutcome(run.slot, status)
      PROVE  \A s \in Slots : SlotStep(s)
  <2>1. run.slot \in Slots /\ rows[run.slot] = "STARTED"
    BY <1>2, RunMoves
  <2>2. rows \in [Slots -> Statuses] /\ latest \in [Slots -> Statuses \ {"STARTED"}]
    BY DEF Shape, RadarOK
  <2> QED BY <1>2, <2>1, <2>2 DEF WithOutcome, SlotStep
<1>3. Complete => Running /\ WithOutcome(run.slot, "COMPLETED")
  BY DEF Complete
<1>4. Break => Running /\ WithOutcome(run.slot, Broken) /\ Broken \in {"FAILED", "DATA_UNAVAILABLE"}
  BY DEF Break, Broken
<1>5. ASSUME NEW outcome, NEW x, Screen(outcome, x) \/ Prepare(outcome, x) \/ Build(outcome) \/ CompleteFails \/ BreakFails(x)
      PROVE  UNCHANGED <<rows, latest>>
  BY <1>5 DEF Screen, Prepare, Build, CompleteFails, BreakFails, RunOnly
<1> QED BY <1>1, <1>2, <1>3, <1>4, <1>5 DEF Executes

\* mark_missed gives row and event one outcome or leaves both.
LEMMA MissedSlots ==
  ASSUME Shape, NEW S
  PROVE  \A s \in Slots : \/ MissedIn(rows, S)[s] = rows[s] /\ MissedIn(latest, S)[s] = latest[s]
                          \/ MissedIn(rows, S)[s] = "MISSED" /\ MissedIn(latest, S)[s] = "MISSED" /\ rows[s] \notin Final
BY DEF MissedIn

\* Every step treats every slot so.
LEMMA EverySlot ==
  ASSUME Shape, [Next]_vars
  PROVE  \A s \in Slots : SlotStep(s)
<1> USE SlotFacts
<1>0. rows \in [Slots -> Statuses] /\ latest \in [Slots -> Statuses \ {"STARTED"}] /\ scheduled \in Slots
  BY DEF Shape, RadarOK
<1>1. CASE UNCHANGED <<rows, latest>>
  BY <1>1 DEF SlotStep
<1>2. CASE Poll
  <2>1. PICK s \in Slots : latest' = latest /\ (rows' = rows \/ (rows[s] \notin Final /\ rows' = [rows EXCEPT ![s] = "STARTED"]))
    BY <1>2 DEF Poll
  <2> QED BY <1>0, <2>1 DEF SlotStep
<1>3. CASE RadarTick
  <2>1. PICK last \in 1..scheduled :
          /\ rows' = [MissedIn(rows, 1..(last - 1)) EXCEPT ![last] = IF rows[last] \notin Final THEN "STARTED" ELSE @]
          /\ latest' = MissedIn(latest, 1..(last - 1))
    BY <1>3 DEF RadarTick
  <2>2. last \in Slots /\ last \notin 1..(last - 1)
    BY <1>0 DEF Slots
  <2>3. MissedIn(rows, 1..(last - 1))[last] = rows[last] /\ latest'[last] = latest[last]
    BY <1>0, <2>1, <2>2 DEF MissedIn
  <2>4. \A s \in Slots : rows'[s] = IF s = last /\ rows[last] \notin Final THEN "STARTED" ELSE MissedIn(rows, 1..(last - 1))[s]
    BY <2>1, <2>2, <2>3, MissedTypes DEF Shape
  <2>5. ASSUME NEW s \in Slots
        PROVE  SlotStep(s)
    <3>1. CASE s = last
      BY <2>3, <2>4, <3>1 DEF SlotStep
    <3>2. CASE s # last
      BY <2>1, <2>4, <3>2, MissedSlots DEF SlotStep, Final
    <3> QED BY <3>1, <3>2
  <2> QED BY <2>5
<1>4. CASE MarkMissed
  <2>1. PICK S : rows' = MissedIn(rows, S) /\ latest' = MissedIn(latest, S)
    BY <1>4 DEF MarkMissed
  <2> QED BY <2>1, MissedSlots DEF SlotStep, Final
<1>5. ASSUME NEW t \in Ticks, RecordFailure(t)
      PROVE  \A s \in Slots : SlotStep(s)
  <2>1. failed' > failed
    BY <1>5 DEF RecordFailure, Shape, TickOK
  <2>2. CASE t.kind = "radar" /\ WithOutcome(t.of, "FAILED")
    BY <1>0, <2>1, <2>2 DEF WithOutcome, SlotStep, Ticks
  <2> QED BY <1>1, <1>5, <2>2 DEF RecordFailure
<1>6. Raises => tick \in Ticks /\ RecordFailure(tick)
  BY DEF Raises, Shape, TickOK
<1>7. \A t : Refused(t) => RecordFailure(t)
  BY DEF Refused
<1>8. ASSUME PollNothing \/ Restart \/ Tick \/ DayCrash \/ PollDigest \/ DigestScript \/ Ends
             \/ (\E caught \in BOOLEAN : PollFails(caught)) \/ (\E gaps \in SUBSET Gaps : DigestTick(gaps))
             \/ (\E c \in Checkpoints : PremarketTick(c)) \/ UNCHANGED vars
      PROVE  UNCHANGED <<rows, latest>>
  BY <1>8 DEF PollNothing, Restart, Tick, DayCrash, Crash, PollDigest, DigestScript, Ends, PollFails,
              DigestTick, PremarketTick, vars, radarVars
<1> QED BY <1>1, <1>2, <1>3, <1>4, <1>5, <1>6, <1>7, <1>8, RunSlots DEF Next

\* And every checkpoint.
LEMMA EveryCheck ==
  ASSUME Shape, [Next]_vars
  PROVE  \A c \in Checkpoints : CheckStep(c)
<1>0. /\ checks \in [Checkpoints -> CheckStatuses] /\ checkRuns \in [Checkpoints -> CheckStatuses]
      /\ tops \in [Checkpoints -> {"none", "symbols", "finalists"}]
  BY DEF Shape, ChecksOK
<1>1. ASSUME UNCHANGED <<checks, checkRuns, tops>>
      PROVE  \A c \in Checkpoints : CheckStep(c)
  BY <1>1 DEF CheckStep
<1>2. ASSUME NEW c \in Checkpoints, PremarketTick(c)
      PROVE  \A d \in Checkpoints : CheckStep(d)
  <2>1. ASSUME NEW status, NEW top, CheckOutcome(c, status, top), checks[c] # "COMPLETED",
               status # "none", top # "none" => status = "COMPLETED"
        PROVE  \A d \in Checkpoints : CheckStep(d)
    BY <1>0, <2>1 DEF CheckOutcome, CheckStep
  <2>2. \A standing : /\ Collected(standing) # "none"
                      /\ Ranked(standing) # "none" => Collected(standing) = "COMPLETED"
    BY DEF Collected, Ranked
  <2> QED BY <1>1, <1>2, <2>1, <2>2 DEF PremarketTick
<1>3. CASE MarkMissed
  <2>1. PICK C : checks' = MissedChecks(checks, C, "MISSED") /\ checkRuns' = MissedChecks(checkRuns, C, "MISSED")
                 /\ tops' = MissedChecks(tops, C, "none")
    BY <1>3 DEF MarkMissed
  <2> QED BY <1>0, <2>1 DEF MissedChecks, CheckStep, Final
<1>4. ASSUME NEW t \in Ticks, RecordFailure(t)
      PROVE  \A c \in Checkpoints : CheckStep(c)
  <2>1. failed' > failed
    BY <1>4 DEF RecordFailure, Shape, TickOK
  <2>2. CASE t.kind = "premarket" /\ CheckOutcome(t.of, "FAILED", "none")
    BY <1>0, <2>1, <2>2 DEF CheckOutcome, CheckStep, Ticks
  <2> QED BY <1>1, <1>4, <2>2 DEF RecordFailure
<1>5. Raises => tick \in Ticks /\ RecordFailure(tick)
  BY DEF Raises, Shape, TickOK
<1>6. \A t : Refused(t) => RecordFailure(t)
  BY DEF Refused
<1>7. ASSUME UNCHANGED dayVars \/ DayCrash \/ PollDigest \/ DigestScript \/ RadarTick \/ Ends
             \/ (\E gaps \in SUBSET Gaps : DigestTick(gaps))
      PROVE  UNCHANGED <<checks, checkRuns, tops>>
  BY <1>7 DEF dayVars, DayCrash, PollDigest, DigestScript, RadarTick, Ends, DigestTick
<1>8. UNCHANGED vars => UNCHANGED dayVars
  BY DEF vars
<1> QED BY <1>1, <1>2, <1>3, <1>4, <1>5, <1>6, <1>7, <1>8 DEF Next

\* Rows and events start in agreement, and a step that treats every slot and checkpoint as
\* above keeps it.
LEMMA AgreeStep ==
  /\ Init => SlotsAgree /\ ChecksAgree
  /\ Shape /\ SlotsAgree /\ ChecksAgree /\ [Next]_vars => SlotsAgree' /\ ChecksAgree'
<1>1. Init => SlotsAgree /\ ChecksAgree
  BY DEF Init, RadarInit, SlotsAgree, ChecksAgree
<1>2. ASSUME Shape, SlotsAgree, ChecksAgree, [Next]_vars
      PROVE  SlotsAgree' /\ ChecksAgree'
  <2>1. (\A s \in Slots : SlotStep(s)) /\ \A c \in Checkpoints : CheckStep(c)
    BY <1>2, EverySlot, EveryCheck
  <2>2. SlotsAgree'
    BY <1>2, <2>1 DEF SlotsAgree, SlotStep, Final
  <2>3. checks' \in [Checkpoints -> CheckStatuses] /\ checkRuns' \in [Checkpoints -> CheckStatuses]
    BY <1>2, ShapeStep DEF Shape, ChecksOK
  <2>4. \A c \in Checkpoints : checks'[c] = checkRuns'[c] /\ (tops'[c] # "none" => checks'[c] = "COMPLETED")
    BY <1>2, <2>1 DEF ChecksAgree, CheckStep
  <2> QED BY <2>2, <2>3, <2>4 DEF ChecksAgree
<1> QED BY <1>1, <1>2

\* However calls, failures and crashes alternate, the events the digest reads agree with
\* the status rows (_persist_result, mark_missed, _record_tick_failure, _persist).
THEOREM RowsAndEventsAgree == Spec => []EventsAgree
<1>1. Init => Shape
  BY ShapeInit
<1>2. Shape /\ [Next]_vars => Shape'
  BY ShapeStep
<1>3. SlotsAgree /\ ChecksAgree => EventsAgree
  BY AgreeParts
<1> QED BY <1>1, <1>2, <1>3, AgreeStep, PTL DEF Spec

\* Completed work stays completed; only a failure of its own tick takes that away
\* (_run_slot, PremarketFunnel.run, _record_tick_failure).
THEOREM CompletedWorkKept == Spec => CompletedKept
<1>1. Init => Shape
  BY ShapeInit
<1>2. Shape /\ [Next]_vars => Shape'
  BY ShapeStep
<1>3. ASSUME Shape, [Next]_vars
      PROVE  /\ \A s \in Slots : rows[s] = "COMPLETED" /\ rows'[s] # "COMPLETED" =>
                  rows'[s] = "FAILED" /\ failed' > failed
             /\ \A c \in Checkpoints : checks[c] = "COMPLETED" /\ checks'[c] # "COMPLETED" =>
                  checks'[c] = "FAILED" /\ failed' > failed
  BY <1>3, EverySlot, EveryCheck DEF SlotStep, CheckStep, Final
<1> QED BY <1>1, <1>2, <1>3, PTL DEF Spec, CompletedKept

-----------------------------------------------------------------------------
(* The digest *)

\* A review that calls itself complete saw an event of some checkpoint.
ReviewOK == review = "COMPLETE" => \E c \in Checkpoints : checkRuns[c] # "none"
Honest   == Shape /\ SlotsAgree /\ ChecksAgree /\ ReviewOK

LEMMA HonestInit == Init => Honest
<1>1. Init => ReviewOK
  BY DEF Init, ReviewOK
<1> QED BY <1>1, ShapeInit, AgreeStep DEF Honest

LEMMA HonestStep ==
  ASSUME Honest, [Next]_vars
  PROVE  Honest'
<1>1. Shape' /\ SlotsAgree' /\ ChecksAgree'
  BY ShapeStep, AgreeStep DEF Honest
<1>2. \A c \in Checkpoints : checkRuns[c] # "none" => checkRuns'[c] # "none"
  BY EveryCheck DEF Honest, CheckStep
<1>3. review' = review \/ \E gaps \in SUBSET Gaps : DigestTick(gaps)
  BY DEF Next, vars, dayVars, DayCrash, PollDigest, DigestScript, RadarTick, Ends, Raises, MarkMissed,
         PremarketTick, Refused, RecordFailure
<1>4. ASSUME NEW gaps, Reviewed(gaps) = "COMPLETE"
      PROVE  \E c \in Checkpoints : checkRuns[c] # "none"
  BY <1>4, DayAssumption DEF Reviewed
<1>5. ReviewOK'
  BY <1>2, <1>3, <1>4 DEF Honest, ReviewOK, DigestTick
<1> QED BY <1>1, <1>5 DEF Honest

\* What DailyDigest.create says of agreeing rows and events.
LEMMA DigestSays ==
  ASSUME Honest, NEW reviewed, NewDigest(reviewed),
         reviewed = "COMPLETE" => \E c \in Checkpoints : checkRuns[c] # "none"
  PROVE  /\ digest'.said = "COMPLETE"
              <=> (\A s \in Slots : rows[s] = "COMPLETED") /\ \A c \in Checkpoints : checks[c] = "COMPLETED"
         /\ digest'.said = "COMPLETE" => digest'.evaluation \in {"MEASURED", "NO_FINAL_PREDICTIONS"}
         /\ digest'.evaluation = "MEASURED" => \E c \in Checkpoints : checks[c] = "COMPLETED"
         /\ digest'.said = "NEVER_RAN" =>
              digest'.evaluation = "NO_PREMARKET_DATA" /\ digest'.outcomes # "COMPLETE"
<1>1. \A s \in Slots : rows[s] = "COMPLETED" <=> latest[s] = "COMPLETED"
  BY DEF Honest, SlotsAgree, Final
<1>2. /\ checks = checkRuns
      /\ \A c \in Checkpoints : tops[c] # "none" => checks[c] = "COMPLETED"
  BY DEF Honest, ChecksAgree
<1>3. /\ digest'.said = SessionStatus /\ digest'.evaluation = Evaluation
      /\ digest'.outcomes = IF reviewed = "none" THEN "LEARNING_DATA_INCOMPLETE" ELSE reviewed
  BY DEF NewDigest
<1>4. SessionStatus = "COMPLETE" <=>
        (\A s \in Slots : latest[s] = "COMPLETED") /\ \A c \in Checkpoints : checkRuns[c] = "COMPLETED"
  BY SlotFacts DEF SessionStatus
<1>5. SessionStatus = "COMPLETE" => Evaluation \in {"MEASURED", "NO_FINAL_PREDICTIONS"}
  <2>1. PICK c \in Checkpoints : TRUE
    BY DayAssumption
  <2> QED BY <1>4, <2>1, SlotFacts DEF Evaluation
<1>6. Evaluation = "MEASURED" => \E c \in Checkpoints : tops[c] = "finalists"
  BY DEF Evaluation, FinalCheckpoint
<1>7. SessionStatus = "NEVER_RAN" => \A c \in Checkpoints : checkRuns[c] = "none"
  BY DEF SessionStatus
<1>8. (\A c \in Checkpoints : checkRuns[c] = "none") => Evaluation = "NO_PREMARKET_DATA" /\ reviewed # "COMPLETE"
  BY DEF Evaluation
<1> QED BY <1>1, <1>2, <1>3, <1>4, <1>5, <1>6, <1>7, <1>8

\* A digest is honest about the day whoever creates it: it calls the session complete
\* exactly when it is, and its readers of the day's events do not contradict each other
\* (DailyDigest.create, coverage_for_events, _premarket_learning).
THEOREM DigestTellsTheTruth == Spec => DigestHonest
<1>1. ASSUME Honest, [Next]_vars, digest' # digest, digest'.status = "COMPLETED"
      PROVE  /\ digest'.said = "COMPLETE"
                  <=> (\A s \in Slots : rows[s] = "COMPLETED") /\ \A c \in Checkpoints : checks[c] = "COMPLETED"
             /\ digest'.said = "COMPLETE" => digest'.evaluation \in {"MEASURED", "NO_FINAL_PREDICTIONS"}
             /\ digest'.evaluation = "MEASURED" => \E c \in Checkpoints : checks[c] = "COMPLETED"
             /\ digest'.said = "NEVER_RAN" =>
                  digest'.evaluation = "NO_PREMARKET_DATA" /\ digest'.outcomes # "COMPLETE"
  <2>1. \/ \E reviewed : NewDigest(reviewed) /\ (reviewed = review \/ \E gaps : reviewed = Reviewed(gaps))
        \/ \E t : RecordFailure(t)
    BY <1>1 DEF Next, vars, dayVars, DayCrash, PollDigest, DigestScript, DigestTick, RadarTick, Ends,
                Raises, MarkMissed, PremarketTick, Refused
  <2>2. ~ \E t : RecordFailure(t)
    <3>1. ASSUME digest' = [digest EXCEPT !.status = "FAILED"]
          PROVE  FALSE
      BY <1>1, <3>1 DEF Honest, Shape, DigestOK
    <3> QED BY <1>1, <3>1 DEF RecordFailure
  <2>3. PICK reviewed : NewDigest(reviewed) /\ (reviewed = review \/ \E gaps : reviewed = Reviewed(gaps))
    BY <2>1, <2>2
  <2>4. reviewed = "COMPLETE" => \E c \in Checkpoints : checkRuns[c] # "none"
    BY <1>1, <2>3, DayAssumption DEF Honest, ReviewOK, Reviewed
  <2> QED BY <1>1, <2>3, <2>4, DigestSays
<1>2. Honest /\ [Next]_vars => Honest'
  BY HonestStep
<1> QED BY <1>1, <1>2, HonestInit, PTL DEF Spec, DigestHonest

-----------------------------------------------------------------------------
(* The loop *)

\* Of the slots tried in this minute none is younger than an unavailable one that was not;
\* the run in progress is of a slot tried in it, or older than the minute; and a loop that
\* polled in the minute of a slot tried one.
Ordered ==
  /\ \A c \in attempted : \A d \in 1..(c - 1) : rows[d] = "DATA_UNAVAILABLE" => d \in attempted
  /\ attempted # {} => driver = "api"
  /\ run # NoRun => run.slot \in attempted \/ attempted = {}
  /\ watch = "polled" => \A s \in 1..scheduled : now = At(s) => attempted # {}

LEMMA OrderedInit == Init => Ordered
BY DEF Init, RadarInit, Ordered

\* A poll takes the oldest unavailable slot that was not tried, or there is none.
LEMMA PollInOrder ==
  ASSUME Shape, Ordered, NEW cur \in 1..scheduled, NEW s \in Slots,
         LoopIdle, Chosen(s, cur), attempted' = attempted \cup {s},
         UNCHANGED <<rows, run>> \/ (rows' = [rows EXCEPT ![s] = "STARTED"] /\ run' = Started(s)),
         UNCHANGED <<now, driver, scheduled>>
  PROVE  Ordered'
<1> USE SlotFacts
<1>2. rows \in [Slots -> Statuses] /\ attempted \subseteq Slots /\ cur \in Slots
  BY DEF Shape, RadarOK, Slots
<1>3. \A d \in Slots : rows'[d] = "DATA_UNAVAILABLE" => rows[d] = "DATA_UNAVAILABLE"
  BY <1>2
<1>4. \A d \in 1..(s - 1) : rows[d] = "DATA_UNAVAILABLE" => d \in attempted
  <2>1. CASE s \in CatchUp(cur) /\ \A c \in CatchUp(cur) : s <= c
    <3>1. ASSUME NEW d \in 1..(s - 1), rows[d] = "DATA_UNAVAILABLE", d \notin attempted
          PROVE  FALSE
      <4>1. d \in Nat /\ s \in Nat /\ cur \in Nat /\ d < s /\ s < cur /\ 1 <= d
        BY <1>2, <2>1 DEF CatchUp, Slots
      <4>2. d \in CatchUp(cur)
        BY <3>1, <4>1 DEF CatchUp, Tried
      <4> QED BY <2>1, <4>1, <4>2
    <3> QED BY <3>1
  <2>2. CASE s = cur /\ CatchUp(cur) = {}
    BY <2>2 DEF CatchUp, Tried
  <2> QED BY <2>1, <2>2 DEF Chosen
<1>5. \A c \in attempted' : \A d \in 1..(c - 1) : rows'[d] = "DATA_UNAVAILABLE" => d \in attempted'
  <2>1. \A c \in Slots : \A d \in 1..(c - 1) : d \in Slots
    BY DEF Slots
  <2> QED BY <1>2, <1>3, <1>4, <2>1 DEF Ordered
<1>6. run' # NoRun => run'.slot \in attempted'
  <2>1. Started(s).slot = s
    BY DEF Started, NoRun
  <2> QED BY <2>1 DEF LoopIdle
<1>7. attempted' # {} /\ driver' = "api"
  BY DEF LoopIdle
<1> QED BY <1>5, <1>6, <1>7 DEF Ordered

\* A step that tries no slot and makes none unavailable, except that of its run.
LEMMA RunInOrder ==
  ASSUME Shape, Ordered, UNCHANGED <<now, driver, scheduled, attempted>>,
         watch' = watch \/ (watch' = "polled" /\ \A s \in 1..scheduled : now # At(s)),
         run' = NoRun \/ (run'.slot = run.slot /\ run # NoRun) \/ attempted = {},
         \A d \in Slots : rows'[d] = "DATA_UNAVAILABLE" =>
           rows[d] = "DATA_UNAVAILABLE" \/ (run # NoRun /\ d = run.slot)
  PROVE  Ordered'
<1>1. \A c \in attempted : \A d \in 1..(c - 1) : rows'[d] = "DATA_UNAVAILABLE" => d \in attempted
  <2>1. \A c \in attempted : \A d \in 1..(c - 1) : d \in Slots
    BY SlotFacts DEF Shape, RadarOK, Slots
  <2> QED BY <2>1 DEF Ordered
<1>2. run' # NoRun => run'.slot \in attempted \/ attempted = {}
  BY DEF Ordered
<1>3. watch' = "polled" => \A s \in 1..scheduled : now = At(s) => attempted # {}
  BY DEF Ordered
<1> QED BY <1>1, <1>2, <1>3 DEF Ordered, At

\* Every other step keeps the order too, or begins a new minute.
LEMMA OrderedStep ==
  ASSUME Shape, Ordered, [Next]_vars
  PROVE  Ordered'
<1> USE DEF Shape
<1>0. rows \in [Slots -> Statuses] /\ latest \in [Slots -> Statuses \ {"STARTED"}]
  BY DEF RadarOK
<1>1. CASE UNCHANGED radarVars
  BY <1>1 DEF radarVars, Ordered, At
<1>2. CASE Poll
  BY <1>2, PollInOrder DEF Poll
<1>3. CASE PollNothing
  <2>1. /\ run = NoRun /\ UNCHANGED <<now, driver, scheduled, attempted, rows, run>>
        /\ \A s \in 1..scheduled : now # At(s)
        /\ watch' \in {watch, "polled"}
    BY <1>3 DEF PollNothing, Polled, LoopIdle
  <2> QED BY <2>1, RunInOrder
<1>4. CASE PollDigest
  <2>1. \A s \in 1..scheduled : now # At(s)
    <3>1. now = Opens + 2 * N + 1 /\ \A s \in 1..scheduled : s \in Nat /\ s <= N
      BY <1>4, RadarAssumption DEF PollDigest, Horizon, At, RadarOK, Slots
    <3> QED BY <3>1, RadarAssumption DEF At
  <2>2. /\ run = NoRun /\ UNCHANGED <<now, driver, scheduled, attempted, rows, run>>
        /\ watch' \in {watch, "polled"}
    BY <1>4 DEF PollDigest, Polled, LoopIdle
  <2> QED BY <2>1, <2>2, RunInOrder
<1>5. ASSUME NEW caught \in BOOLEAN, PollFails(caught)
      PROVE  Ordered'
  BY <1>5, PollInOrder DEF PollFails
<1>6. CASE Executes
  <2>1. /\ UNCHANGED <<now, driver, scheduled, attempted, watch>>
        /\ run # NoRun
        /\ run' = NoRun \/ (\E phase : run' = [run EXCEPT !.phase = phase])
             \/ (\E left : run' = [run EXCEPT !.left = left])
             \/ (\E left : run' = [run EXCEPT !.phase = "build", !.left = left])
        /\ rows' = rows \/ \E status : rows' = [rows EXCEPT ![run.slot] = status]
    BY <1>6, Zenon DEF Executes, Screen, Prepare, Build, Complete, CompleteFails, Break, BreakFails, RunOnly,
                Running, Advance, WithOutcome
  <2>2. run \in RunType
    BY <2>1 DEF RunOK
  <2>3. run' = NoRun \/ run'.slot = run.slot
    BY <2>1, <2>2 DEF RunType
  <2> QED BY <1>0, <2>1, <2>3, RunInOrder
<1>7. CASE Restart \/ Tick \/ Crash
  BY <1>7 DEF Restart, Tick, Crash, Ordered, StillTried
<1>8. ASSUME NEW S, \/ rows' = MissedIn(rows, S)
                    \/ \E last \in Slots : rows' = [MissedIn(rows, S) EXCEPT ![last] = "STARTED"]
                    \/ \E s \in Slots : rows' = [rows EXCEPT ![s] = "FAILED"]
                    \/ rows' = rows
      PROVE  \A d \in Slots : rows'[d] = "DATA_UNAVAILABLE" => rows[d] = "DATA_UNAVAILABLE"
  BY <1>0, <1>8 DEF MissedIn
<1>9. ASSUME RadarTick \/ MarkMissed \/ Raises \/ \E t \in Ticks : Refused(t)
      PROVE  Ordered'
  <2>1. UNCHANGED <<now, driver, scheduled, attempted, watch>>
    BY <1>9, Zenon DEF RadarTick, MarkMissed, Raises, Refused, RecordFailure
  <2>2. run' = run \/ attempted = {}
    BY <1>9 DEF RadarTick, MarkMissed, Raises, Refused, RecordFailure, Free, Ordered
  <2>3. \A d \in Slots : rows'[d] = "DATA_UNAVAILABLE" => rows[d] = "DATA_UNAVAILABLE"
    <3>1. CASE RadarTick
      <4>1. PICK last \in 1..scheduled :
              rows' = [MissedIn(rows, 1..(last - 1)) EXCEPT ![last] = IF rows[last] \notin Final THEN "STARTED" ELSE @]
        BY <3>1 DEF RadarTick
      <4>2. last \in Slots
        BY RadarAssumption DEF RadarOK, Slots
      <4> QED BY <1>0, <4>1, <4>2 DEF MissedIn
    <3>2. CASE MarkMissed
      BY <1>8, <3>2 DEF MarkMissed
    <3>3. ASSUME NEW t \in Ticks, RecordFailure(t)
          PROVE  \A d \in Slots : rows'[d] = "DATA_UNAVAILABLE" => rows[d] = "DATA_UNAVAILABLE"
      BY <1>8, <3>3 DEF RecordFailure, WithOutcome, Ticks
    <3>4. Raises => tick \in Ticks /\ RecordFailure(tick)
      BY DEF Raises, TickOK
    <3> QED BY <1>9, <3>1, <3>2, <3>3, <3>4 DEF Refused
  <2>4. run' = NoRun \/ (run'.slot = run.slot /\ run # NoRun) \/ attempted = {}
    BY <2>2
  <2> QED BY <2>1, <2>3, <2>4, RunInOrder
<1> QED BY <1>1, <1>2, <1>3, <1>4, <1>5, <1>6, <1>7, <1>9
        DEF Next, vars, DayCrash, DigestScript, DigestTick, Ends, PremarketTick

\* However polls fail, runs end and the process restarts, the loop tries a slot in every
\* slot's minute that it sees, and no slot before an older one without data (run_pending,
\* _unavailable_catch_up_slot).
THEOREM OldestSlotFirst == Spec => OldestFirst
<1>1. ASSUME Shape, Ordered, [Next]_vars, NEW s \in 1..scheduled, Leaves(s)
      PROVE  /\ attempted # {}
             /\ \A c \in attempted : \A d \in 1..(c - 1) : rows[d] = "DATA_UNAVAILABLE" => d \in attempted
  BY <1>1 DEF Leaves, Ordered
<1>2. Shape /\ [Next]_vars => Shape'
  BY ShapeStep
<1>3. Shape /\ Ordered /\ [Next]_vars => Ordered'
  BY OrderedStep
<1>4. Shape /\ Ordered /\ [Next]_vars =>
        [\A s \in 1..scheduled : Leaves(s) =>
           /\ attempted # {}
           /\ \A c \in attempted : \A d \in 1..(c - 1) : rows[d] = "DATA_UNAVAILABLE" => d \in attempted]_radarVars
  BY <1>1
<1> QED BY <1>2, <1>3, <1>4, ShapeInit, OrderedInit, PTL DEF Spec, OldestFirst
=============================================================================
