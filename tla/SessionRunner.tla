---------------------------- MODULE SessionRunner ----------------------------
(***************************************************************************)
(* One market day of the scheduled session (runtime/session.py): workflow  *)
(* runs restore the market-state branch, take the lease, run the radar     *)
(* slots of a phase, and publish their files by force push.  A run may die *)
(* at any time; another one resumes from the branch.                       *)
(*                                                                         *)
(* The database is private to a run: what counts of it is the status of    *)
(* the radar slots.  A run's files are the ones it published last.  Not    *)
(* modelled: premarket and digest ticks, the wait phase and the budget.    *)
(*                                                                         *)
(* An operator whose name ends in Slip is not part of the model: it is a   *)
(* mistake the definition after it could contain, kept to show that the    *)
(* properties would notice it.                                             *)
(***************************************************************************)
EXTENDS Integers, FiniteSets, FiniteSetsExt

CONSTANTS
  Runs,          \* workflow runs
  Slots,         \* times of the radar slots
  AEnd,          \* PHASE_ENDS["a"], where phase b starts
  End,           \* PHASE_ENDS["b"]
  Grace,         \* RADAR_GRACE
  LeaseTTL,      \* LEASE_MINUTES
  Beat,          \* HEARTBEAT_INTERVAL
  FailureLimit,  \* consecutive failures that stop a run
  MaxTick        \* the longest a radar slot takes

None == "none"
ASSUME SessionAssumption ==
  /\ None \notin Runs /\ Slots \subseteq Nat
  /\ {AEnd, End, Grace} \subseteq Nat /\ {LeaseTTL, Beat, FailureLimit, MaxTick} \subseteq Nat \ {0}
  /\ \A s \in Slots : s < End /\ s + Grace + MaxTick < End

VARIABLES
  now,
  branch,  \* the state directory on the market-state branch
  run      \* per workflow run: its process

vars == <<now, branch, run>>

Statuses == {"none", "COMPLETED", "FAILED", "DATA_UNAVAILABLE", "MISSED"}
Stages   == {"off", "queued", "gated", "restored", "working", "ticking", "closing", "between",
             "ended", "stopped", "refused"}
NoSlots  == [s \in Slots |-> "none"]

\* lease.json, heartbeat.json, market.dump, and whether handoff.json has its checksum.
Files == [holder : Runs \cup {None}, expires : Nat, failures : Nat, slots : [Slots -> Statuses],
          handoff : {"none", "match", "stale"}]
Fresh == [holder |-> None, expires |-> 0, failures |-> 0, slots |-> NoSlots, handoff |-> "none"]
Process == [stage : Stages, phase : {"a", "b"}, files : Files, db : [Slots -> Statuses],
            pending : SUBSET Slots, fails : Nat, beat : Nat, tick : Nat, since : Nat]
Off   == [stage |-> "off", phase |-> "a", files |-> Fresh, db |-> NoSlots, pending |-> {},
          fails |-> 0, beat |-> 0, tick |-> 0, since |-> 0]
Over(stage) == [Off EXCEPT !.stage = stage]

-----------------------------------------------------------------------------
(* Schedule *)

PhaseAt(t)   == IF t < AEnd THEN "a" ELSE "b"
PhaseEnd(ph) == IF ph = "a" THEN AEnd ELSE End
TicksOf(ph)  == {s \in Slots : (s < AEnd) = (ph = "a")}
Expired(s)   == now > s + Grace

\* _mark_missed: slots of the whole day whose grace is over without a final status.
MissedSlotsSlip(db, ph) == {s \in TicksOf(ph) : s + Grace < now /\ db[s] = "none"}
MissedSlots(db, ph)     == {s \in Slots : s + Grace < now /\ db[s] = "none"}
WithMissed(db, missed)  == [s \in Slots |-> IF s \in missed THEN "MISSED" ELSE db[s]]

-----------------------------------------------------------------------------
(* Who may run *)

Live(r) == run[r].stage \notin {"off", "ended", "stopped", "refused"}

\* active_session_runs: other runs that are queued or in progress.
OtherRunActiveSlip(r) == FALSE
OtherRunActive(r)     == \E o \in Runs \ {r} : Live(o)

\* inspect_lease: told says whether the holder's status could be asked for.
HeldByOther(f, r, told) ==
  f.holder \notin {None, r} /\ f.expires > now /\ (told => Live(f.holder))

\* A workflow run is created by its schedule, a push or the watchdog.
Trigger(r) ==
  /\ run[r].stage = "off"
  /\ run' = [run EXCEPT ![r].stage = "queued"]
  /\ UNCHANGED <<now, branch>>

\* evaluate_session_gate; without an answer on the active runs the gate fails.
Gate(r, told) ==
  /\ run[r].stage = "queued"
  /\ run' = [run EXCEPT ![r] =
               IF told /\ now < End /\ ~HeldByOther(branch, r, told) /\ ~OtherRunActive(r)
               THEN [run[r] EXCEPT !.stage = "gated"] ELSE Over("stopped")]
  /\ UNCHANGED <<now, branch>>

-----------------------------------------------------------------------------
(* Checkpoints *)

\* _checkpoint: the lease is renewed whoever holds it; a full one dumps the database,
\* which never gives the bytes of an earlier dump.
Published(f, r, db, fails, full) ==
  [f EXCEPT !.holder = r, !.expires = now + LeaseTTL, !.failures = fails,
            !.slots = IF full THEN db ELSE @,
            !.handoff = IF full /\ @ = "match" THEN "stale" ELSE @]

\* The run goes on as process p after publishing.
Publish(r, p, full) ==
  LET f == Published(p.files, r, p.db, p.fails, full)
  IN  /\ run' = [run EXCEPT ![r] = IF p.stage \in {"ended", "stopped", "refused"} THEN Over(p.stage)
                                   ELSE [p EXCEPT !.files = f, !.beat = now + Beat]]
      /\ branch' = f
      /\ UNCHANGED now

-----------------------------------------------------------------------------
(* Start *)

\* _prepare_runtime: the files and the database of the branch; phase b verifies the handoff.
RestoredSlip == NoSlots
Restored     == branch.slots
Prepare(r) ==
  /\ run[r].stage = "gated"
  /\ run' = [run EXCEPT ![r] =
               IF PhaseAt(now) = "b" /\ branch.handoff = "stale" THEN Over("refused")
               ELSE [run[r] EXCEPT !.stage = "restored", !.files = branch, !.db = Restored]]
  /\ UNCHANGED <<now, branch>>

\* SessionRunner.run up to its loop, once the lease is inspected.
StartRefused(r, told) ==
  /\ run[r].stage = "restored"
  /\ HeldByOther(run[r].files, r, told)
  /\ run' = [run EXCEPT ![r] = Over("stopped")]
  /\ UNCHANGED <<now, branch>>

Start(r, told) ==
  LET p  == run[r]
      ph == PhaseAt(now)
      refused == ph = "b" /\ p.files.handoff = "stale"
      missed  == MissedSlots(p.db, ph)
      begun   == [p EXCEPT !.phase = ph, !.fails = p.files.failures]
  IN  /\ p.stage = "restored" /\ ~HeldByOther(p.files, r, told)
      /\ \/ /\ refused \/ now >= PhaseEnd(ph)
            /\ Publish(r, [begun EXCEPT !.stage = IF refused THEN "refused" ELSE "stopped"], TRUE)
         \/ /\ ~refused /\ now < PhaseEnd(ph)
            /\ Publish(r, [begun EXCEPT !.stage = "working", !.db = WithMissed(p.db, missed),
                                        !.pending = {s \in TicksOf(ph) : ~Expired(s)}],
                       missed # {})

-----------------------------------------------------------------------------
(* The loop *)

InLoop(r) == run[r].stage = "working" /\ now < PhaseEnd(run[r].phase)
DueSlots(r) == {s \in run[r].pending : s <= now}

Heartbeat(r) ==
  /\ InLoop(r) /\ now >= run[r].beat
  /\ Publish(r, run[r], FALSE)

\* One turn of the loop: missed slots are marked and published, then the last due slot
\* is started, the other due ones are dropped.
Turn(r) ==
  LET p      == run[r]
      missed == MissedSlots(p.db, p.phase)
      ready  == {s \in DueSlots(r) : ~Expired(s)}
      left   == [p EXCEPT !.db = WithMissed(p.db, missed), !.pending = @ \ DueSlots(r)]
      next   == IF ready = {} THEN left
                ELSE [left EXCEPT !.stage = "ticking", !.tick = Max(ready), !.since = now]
  IN  /\ InLoop(r) /\ now < p.beat
      /\ missed # {} \/ DueSlots(r) # {}
      /\ IF missed # {} THEN Publish(r, next, TRUE)
         ELSE run' = [run EXCEPT ![r] = next] /\ UNCHANGED <<now, branch>>

\* _run_radar marks older slots that are not COMPLETED missed and runs the last one.
AfterRadar(p, status) ==
  [s \in Slots |->
     IF s < p.tick /\ p.db[s] # "COMPLETED" THEN "MISSED"
     ELSE IF s = p.tick /\ p.db[s] \notin {"COMPLETED", "MISSED"} THEN status ELSE p.db[s]]

\* A slot that ran; a run that stays FAILED counts as a failed tick.
TickReturns(r, status) ==
  LET p  == run[r]
      db == AfterRadar(p, status)
      failed == status = "FAILED" /\ p.db[p.tick] \notin {"COMPLETED", "MISSED"}
      fails  == IF failed THEN p.fails + 1 ELSE 0
  IN  /\ p.stage = "ticking" /\ status \in {"COMPLETED", "FAILED", "DATA_UNAVAILABLE"}
      /\ Publish(r, [p EXCEPT !.db = db, !.fails = fails, !.tick = 0, !.since = 0,
                              !.stage = IF failed /\ fails >= FailureLimit THEN "stopped" ELSE "working"],
                 TRUE)

\* runtime.run raises, before the slot ran or after it completed: _record_tick_failure
\* makes it FAILED in either case.
TickRaises(r, ran) ==
  LET p  == run[r]
      db == [(IF ran THEN AfterRadar(p, "COMPLETED") ELSE p.db) EXCEPT ![p.tick] = "FAILED"]
  IN  /\ p.stage = "ticking"
      /\ Publish(r, [p EXCEPT !.db = db, !.fails = @ + 1, !.tick = 0, !.since = 0,
                              !.stage = IF p.fails + 1 >= FailureLimit THEN "stopped" ELSE "working"],
                 TRUE)

-----------------------------------------------------------------------------
(* End of a phase *)

HandsOverSlip(ph) == TRUE
HandsOver(ph)     == ph = "a"
Finish(r) ==
  /\ run[r].stage = "working" /\ now >= PhaseEnd(run[r].phase)
  /\ Publish(r, [run[r] EXCEPT !.stage = IF HandsOver(run[r].phase) THEN "closing" ELSE "ended"], TRUE)

\* write_handoff and a publication without a dump.
HandOff(r) ==
  /\ run[r].stage = "closing"
  /\ branch' = [run[r].files EXCEPT !.handoff = "match"]
  /\ run' = [run EXCEPT ![r] = [Off EXCEPT !.stage = "between"]]
  /\ UNCHANGED now

\* The workflow goes on with the job of phase b.
NextJob(r) ==
  /\ run[r].stage = "between"
  /\ run' = [run EXCEPT ![r].stage = "gated"]
  /\ UNCHANGED <<now, branch>>

-----------------------------------------------------------------------------
(* Environment *)

Crash(r) ==
  /\ Live(r)
  /\ run' = [run EXCEPT ![r] = Over("stopped")]
  /\ UNCHANGED <<now, branch>>

\* A loop with something to do does not sleep, and a slot ends in time.
Busy(r) ==
  \/ InLoop(r) /\ (now >= run[r].beat \/ MissedSlots(run[r].db, run[r].phase) # {} \/ DueSlots(r) # {})
  \/ run[r].stage = "ticking" /\ now >= run[r].since + MaxTick

Tick ==
  /\ now < End /\ \A r \in Runs : ~Busy(r)
  /\ now' = now + 1
  /\ UNCHANGED <<branch, run>>

-----------------------------------------------------------------------------
Init == now = 0 /\ branch = Fresh /\ run = [r \in Runs |-> Off]

Next ==
  \/ Tick
  \/ \E r \in Runs :
       \/ Trigger(r) \/ Prepare(r) \/ Heartbeat(r) \/ Turn(r)
       \/ Finish(r) \/ HandOff(r) \/ NextJob(r) \/ Crash(r)
       \/ \E told \in BOOLEAN : Gate(r, told) \/ StartRefused(r, told) \/ Start(r, told)
       \/ \E status \in Statuses : TickReturns(r, status)
       \/ \E ran \in BOOLEAN : TickRaises(r, ran)

Spec == Init /\ [][Next]_vars

-----------------------------------------------------------------------------
(* Properties *)

\* Shapes; only the end of phase a hands over, and a slot runs only in its own phase.
TypeOK ==
  /\ now \in 0..End /\ branch \in Files /\ run \in [Runs -> Process]
  /\ \A r \in Runs :
       /\ run[r].pending \subseteq TicksOf(run[r].phase)
       /\ run[r].stage = "ticking" => run[r].tick \in TicksOf(run[r].phase)
       /\ run[r].stage = "closing" => run[r].phase = "a"

\* At most one run is past the gate (evaluate_session_gate), whatever dies, however late
\* a lease is published and also when a slot outlives the lease: publish_state_branch
\* pushes by force and relies on it.
OneWorker == Cardinality({r \in Runs : Live(r) /\ run[r].stage # "queued"}) <= 1

\* A slot's outcome that was published (persist_state) is in every later publication:
\* a resumed run never overwrites the branch with a day that misses it.
OutcomesKept == [][\A s \in Slots : branch.slots[s] # "none" => branch'.slots[s] # "none"]_vars

\* When the session ends in its last phase (SessionRunner.run returns COMPLETED), every
\* slot of the day has an outcome on the branch, the ones of crashed runs included.
DayAccounted ==
  (\E r \in Runs : run[r].stage = "ended") => \A s \in Slots : branch.slots[s] # "none"

\* A run that resumes phase b is not refused: no checksum fails when nobody touches the
\* files (verify_handoff).
ResumeNotRefused == \A r \in Runs : run[r].stage # "refused"
=============================================================================
