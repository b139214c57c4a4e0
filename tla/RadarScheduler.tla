--------------------------- MODULE RadarScheduler ---------------------------
(***************************************************************************)
(* The radar slots of one market day (runtime/radar_scheduler.py): the     *)
(* status row and the RADAR_RUN events of a slot, the run that screens the *)
(* market and issues plans, and the in-process loop that polls the clock,  *)
(* runs the slot of the current minute and catches up unavailable ones.    *)
(*                                                                         *)
(* One unit of the clock is the minute of a slot, or the nine minutes up   *)
(* to the next one.  The plans a run issues are left out (RiskLedger has   *)
(* what becomes of a plan).  Of the events of a slot the last one counts:  *)
(* coverage and digest read no other.  The data plan is keyless_delayed.   *)
(*                                                                         *)
(* An operator whose name ends in Slip is not part of the model: it is a   *)
(* mistake the definition after it could contain, kept to show that the    *)
(* properties would notice it.                                             *)
(***************************************************************************)
EXTENDS Integers, FiniteSets

CONSTANTS
  N,           \* slots the radar policy expects in a day
  Opens,       \* time the session opens, before the first slot
  PlansPerRun, \* plans_per_run: the candidates a run may plan
  Symbols,     \* the universe
  Anchor,      \* SPY
  MaxMissing   \* keyless_max_failure_ratio, as a number of symbols

ASSUME RadarAssumption ==
  /\ N \in Nat /\ N > 1 /\ Opens \in Nat /\ PlansPerRun \in Nat
  /\ IsFiniteSet(Symbols) /\ Anchor \in Symbols /\ MaxMissing \in Nat

VARIABLES
  now,
  driver,     \* "api": the in-process loop; "batch": batch or session processes
  scheduled,  \* the slots before the close of this day: fewer than N on an early close
  rows,       \* radar_run:<slot> in runtime_status
  latest,     \* status of the last RADAR_RUN event of a slot
  run,        \* the run in progress
  attempted,  \* the slots with a key of this minute in RadarScheduler._attempted
  alive,      \* the loop's task, or the process, runs
  watch       \* of a loop that slept as this minute began, whether it has polled since:
              \* "due", then "polled"; "off" when it did not sleep, or died since

radarVars == <<now, driver, scheduled, rows, latest, run, attempted, alive, watch>>

Slots    == 1..N
At(s)    == Opens + 2 * s - 1   \* DISCOVERY_START + (s - 1) * DISCOVERY_INTERVAL
Horizon  == At(N) + 2           \* the minute of the daily digest
Statuses == {"none", "STARTED", "COMPLETED", "DATA_UNAVAILABLE", "FAILED", "MISSED"}
FinalSlip == {"MISSED"}
Final    == {"COMPLETED", "MISSED"}
Phases   == {"screen", "prepare", "build", "unavailable", "failed"}

\* A run: its slot, how far it is and the candidates it still has to plan.
NoRun   == [slot |-> 0, phase |-> "screen", left |-> 0]
RunType == [slot : Slots, phase : Phases, left : 0..PlansPerRun]

-----------------------------------------------------------------------------
(* Status rows *)

\* The RADAR_RUN event and the row of a slot, in one transaction.
WithOutcomeSlip(s, status) == rows' = [rows EXCEPT ![s] = status] /\ latest' = latest
WithOutcome(s, status) ==
  /\ rows' = [rows EXCEPT ![s] = status]
  /\ latest' = [latest EXCEPT ![s] = status]

\* mark_missed on every slot of S that is not final.
MissedIn(table, S) == [s \in Slots |-> IF s \in S /\ rows[s] \notin Final THEN "MISSED" ELSE table[s]]

\* _run_slot on a slot that is not final.
Started(s) == [NoRun EXCEPT !.slot = s]

-----------------------------------------------------------------------------
(* The loop *)

\* A key names its slot and the minute of the attempt: in the next minute none matches.
StillTried == {}
Tried(s)   == s \in attempted

\* _unavailable_catch_up_slot: the oldest of these, else the slot of this minute.
CatchUpSlip(cur) == {}
CatchUp(cur)     == {s \in 1..(cur - 1) : rows[s] = "DATA_UNAVAILABLE" /\ ~Tried(s)}
Chosen(s, cur)   ==
  \/ s \in CatchUp(cur) /\ \A c \in CatchUp(cur) : s <= c
  \/ s = cur /\ CatchUp(cur) = {}

\* The loop sleeps, poll_seconds after every poll and every run.
LoopIdle == driver = "api" /\ alive /\ run = NoRun
Polled   == watch' = IF watch = "due" THEN "polled" ELSE watch

\* A poll in the minute of a slot: the chosen slot is run unless it is final or was tried.
Poll ==
  \E cur \in 1..scheduled, s \in Slots :
    /\ LoopIdle /\ now = At(cur) /\ Chosen(s, cur)
    /\ attempted' = attempted \cup {s} /\ Polled
    /\ IF Tried(s) \/ rows[s] \in Final
       THEN UNCHANGED <<rows, run>>
       ELSE rows' = [rows EXCEPT ![s] = "STARTED"] /\ run' = Started(s)
    /\ UNCHANGED <<now, driver, scheduled, latest, alive>>

\* Its STARTED row cannot be written: the attempt counts all the same.
PollFails(caught) ==
  \E cur \in 1..scheduled, s \in Slots :
    /\ LoopIdle /\ now = At(cur) /\ Chosen(s, cur) /\ ~Tried(s) /\ rows[s] \notin Final
    /\ attempted' = attempted \cup {s} /\ alive' = caught /\ Polled
    /\ UNCHANGED <<now, driver, scheduled, rows, latest, run>>

\* A poll in any other minute of a day without digest.
PollNothing ==
  /\ LoopIdle /\ \A s \in 1..scheduled : now # At(s)
  /\ now < Horizon
  /\ Polled
  /\ UNCHANGED <<now, driver, scheduled, rows, latest, run, attempted, alive>>

-----------------------------------------------------------------------------
(* One run: _execute and its handlers *)

Running == run # NoRun
Advance(phase) == run' = [run EXCEPT !.phase = phase]
RunOnly == UNCHANGED <<now, driver, scheduled, rows, latest, attempted, alive, watch>>

\* Too many symbols of a keyless screening have no data, or the market anchor has none.
TooFew(skipped) == Anchor \in skipped \/ Cardinality(skipped) > MaxMissing

\* The liquidity refresh and the screening, either of which may raise.
Screen(outcome, skipped) ==
  /\ Running /\ run.phase = "screen"
  /\ Advance(IF outcome = "failed" THEN "failed" ELSE IF TooFew(skipped) THEN "unavailable" ELSE "prepare")
  /\ RunOnly

\* The market data of every eligible candidate is read once before the first plan, so
\* that no plan is issued when it is unavailable for one of them.
Prepare(outcome, candidates) ==
  /\ Running /\ run.phase = "prepare"
  /\ IF outcome = "ok" THEN run' = [run EXCEPT !.phase = "build", !.left = candidates]
                        ELSE Advance(outcome)
  /\ RunOnly

\* A candidate is planned or passed over; its data is read again, and may have gone.
Build(outcome) ==
  /\ Running /\ run.phase = "build" /\ run.left > 0
  /\ IF outcome = "ok" THEN run' = [run EXCEPT !.left = @ - 1] ELSE Advance(outcome)
  /\ RunOnly

\* _persist_result of a run that planned every candidate.
Complete ==
  /\ Running /\ run.phase = "build" /\ run.left = 0
  /\ WithOutcome(run.slot, "COMPLETED")
  /\ run' = NoRun
  /\ UNCHANGED <<now, driver, scheduled, attempted, alive, watch>>

\* Its transaction fails: the handler in _run_slot records the run as failed.
CompleteFails ==
  /\ Running /\ run.phase = "build" /\ run.left = 0
  /\ Advance("failed")
  /\ RunOnly

\* _persist_result in a handler of _run_slot.
Broken == IF run.phase = "failed" THEN "FAILED" ELSE "DATA_UNAVAILABLE"
Break ==
  /\ Running /\ run.phase \in {"unavailable", "failed"}
  /\ WithOutcome(run.slot, Broken)
  /\ run' = NoRun
  /\ UNCHANGED <<now, driver, scheduled, attempted, alive, watch>>

\* It fails too: the row stays STARTED, and an exception that is no RuntimeError,
\* ValueError or OSError ends the loop.
BreakFails(caught) ==
  /\ Running /\ run.phase \in {"unavailable", "failed"}
  /\ run' = NoRun /\ alive' = caught
  /\ UNCHANGED <<now, driver, scheduled, rows, latest, attempted, watch>>

-----------------------------------------------------------------------------
(* Environment *)

\* The process dies; the row of its run stays STARTED.
Crash ==
  /\ alive
  /\ run' = NoRun /\ attempted' = {} /\ alive' = FALSE /\ watch' = "off"
  /\ UNCHANGED <<now, driver, scheduled, rows, latest>>

Restart ==
  /\ ~alive
  /\ alive' = TRUE /\ attempted' = {} /\ watch' = "off"
  /\ UNCHANGED <<now, driver, scheduled, rows, latest, run>>

\* The sleep is shorter than a minute: a loop that sleeps as a minute begins polls in it.
\* Nothing bounds a run or the reads of a poll, which the next minute may find under way.
Tick ==
  /\ now < Horizon /\ watch # "due"
  /\ now' = now + 1 /\ attempted' = StillTried
  /\ watch' \in {"off"} \cup IF LoopIdle THEN {"due"} ELSE {}
  /\ UNCHANGED <<driver, scheduled, rows, latest, run, alive>>

-----------------------------------------------------------------------------
RadarInit ==
  /\ now = 0 /\ driver \in {"api", "batch"} /\ scheduled \in {N - 1, N}
  /\ rows = [s \in Slots |-> "none"] /\ latest = rows
  /\ run = NoRun /\ attempted = {} /\ alive = TRUE /\ watch = "off"

Executes ==
  \/ \E outcome \in {"ok", "failed"}, skipped \in SUBSET Symbols : Screen(outcome, skipped)
  \/ \E outcome \in {"ok", "unavailable", "failed"} :
       Build(outcome) \/ \E candidates \in 0..PlansPerRun : Prepare(outcome, candidates)
  \/ Complete \/ CompleteFails \/ Break
  \/ \E caught \in BOOLEAN : BreakFails(caught)

-----------------------------------------------------------------------------
(* Properties *)

\* The loop slept as the minute of slot s began, and sleeps again as it ends.
Leaves(s) == LoopIdle /\ watch = "polled" /\ now = At(s) /\ now' # now

\* Slots are tried oldest first: in a slot's minute that passes from sleep to sleep some
\* slot was tried, and with it every older one without data, however runs and polls ended
\* (run_pending, _unavailable_catch_up_slot).  Not always its own: a catch-up and the sleep
\* after it may outlast the minute.
OldestFirst ==
  [][\A s \in 1..scheduled : Leaves(s) =>
       /\ attempted # {}
       /\ \A c \in attempted : \A d \in 1..(c - 1) : rows[d] = "DATA_UNAVAILABLE" => d \in attempted]_radarVars

=============================================================================
