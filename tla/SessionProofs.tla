---------------------------- MODULE SessionProofs ----------------------------
(***************************************************************************)
(* Theorems about the scheduled session, for any number of workflow runs,  *)
(* any calendar of slots and any lease, grace and heartbeat: the shape of  *)
(* the state, the exclusion of two workers, which the force push relies    *)
(* on, that no published outcome is lost, and that a finished day has an   *)
(* outcome for every slot.                                                 *)
(***************************************************************************)
EXTENDS SessionRunner, Foundations

Final == {"ended", "stopped", "refused"}

-----------------------------------------------------------------------------
(* Helpers *)

\* Turn starts the last due slot: a finite set of numbers has a greatest one.
LEMMA MaxIsMember ==
  ASSUME NEW S, IsFiniteSet(S), S \subseteq Nat, S # {}
  PROVE  Max(S) \in S /\ \A x \in S : Max(S) >= x
<1> DEFINE G == {T \in SUBSET S : T # {} => \E m \in T : \A x \in T : m >= x}
<1>1. ASSUME NEW T \in SUBSET S, \A U \in SUBSET T : U # T => U \in G
      PROVE  T \in G
  <2> SUFFICES ASSUME T # {} PROVE \E m \in T : \A x \in T : m >= x
    OBVIOUS
  <2>1. PICK y \in T : TRUE
    OBVIOUS
  <2>2. CASE T \ {y} = {}
    <3>1. \A x \in T : y >= x
      BY <2>1, <2>2
    <3> QED BY <2>1, <3>1
  <2>3. CASE T \ {y} # {}
    <3>1. T \ {y} \in SUBSET T /\ T \ {y} # T
      BY <2>1
    <3>2. PICK m \in T \ {y} : \A x \in T \ {y} : m >= x
      BY <1>1, <2>3, <3>1
    <3>3. m \in Nat /\ y \in Nat /\ \A x \in T : x \in Nat
      OBVIOUS
    <3>4. CASE m >= y
      BY <3>2, <3>4
    <3>5. CASE y >= m
      BY <2>1, <3>2, <3>3, <3>5
    <3> QED BY <3>3, <3>4, <3>5
  <2> QED BY <2>2, <2>3
<1>2. SUBSET S \subseteq G
  <2> HIDE DEF G
  <2> QED BY <1>1, SubsetInduction
<1>3. \E m \in S : \A x \in S : m >= x
  BY <1>2
<1> QED BY <1>3 DEF Max

\* Slots are finitely many, because they come before the end of the session.
LEMMA SlotFacts ==
  /\ \A s \in Slots : s \in Nat /\ s < End
  /\ \A S \in SUBSET Slots : IsFiniteSet(S) /\ S \subseteq Nat
<1>1. \A s \in Slots : s \in 0..End
  BY SessionAssumption
<1>2. IsFiniteSet(0..End)
  BY FS_Interval, SessionAssumption
<1>3. \A S \in SUBSET Slots : IsFiniteSet(S)
  BY <1>1, <1>2, FS_Subset
<1> QED BY <1>1, <1>3, SessionAssumption

\* A process that is over, or not there yet, has the shape of any other.
LEMMA EmptyTypes ==
  /\ Fresh \in Files /\ NoSlots \in [Slots -> Statuses]
  /\ Off \in Process
  /\ \A stage \in Stages : Over(stage) \in Process /\ Over(stage).stage = stage
                           /\ Over(stage).phase = "a" /\ Over(stage).pending = {}
<1>1. NoSlots \in [Slots -> Statuses]
  BY DEF NoSlots, Statuses
<1>2. Fresh \in Files
  BY <1>1 DEF Fresh, Files
<1>3. Off \in Process
  BY <1>1, <1>2 DEF Off, Process, Stages
<1>4. ASSUME NEW stage \in Stages
      PROVE  /\ Over(stage) \in Process /\ Over(stage).stage = stage
             /\ Over(stage).phase = "a" /\ Over(stage).pending = {}
  BY <1>1, <1>2 DEF Over, Off, Process
<1> QED BY <1>1, <1>2, <1>3, <1>4

\* What a checkpoint (_checkpoint, then publish_state_branch) changes: the branch gets
\* the files of the run, with its database if the checkpoint is a full one.
LEMMA PublishFacts ==
  ASSUME TypeOK, NEW r \in Runs, NEW p \in Process, NEW full, Publish(r, p, full)
  PROVE  /\ now' = now /\ branch' \in Files /\ run'[r] \in Process
         /\ run' = [run EXCEPT ![r] = run'[r]]
         /\ branch'.slots \in {p.db, p.files.slots} /\ (full = TRUE => branch'.slots = p.db)
         /\ p.stage \in Final => run'[r] = Over(p.stage)
         /\ p.stage \notin Final => run'[r] = [p EXCEPT !.files = branch', !.beat = now + Beat]
<1> DEFINE f == Published(p.files, r, p.db, p.fails, full)
           q == IF p.stage \in Final THEN Over(p.stage)
                ELSE [p EXCEPT !.files = f, !.beat = now + Beat]
<1>1. now \in Nat /\ now + LeaseTTL \in Nat /\ now + Beat \in Nat
  BY SessionAssumption DEF TypeOK
<1>2. p.files \in Files /\ p.db \in [Slots -> Statuses] /\ p.fails \in Nat /\ p.stage \in Stages
  BY DEF Process
<1>3. f \in Files /\ f.slots = IF full THEN p.db ELSE p.files.slots
  BY <1>1, <1>2 DEF Published, Files
<1>4. branch' = f /\ run' = [run EXCEPT ![r] = q] /\ now' = now
  BY DEF Publish, Final
<1>5. q \in Process
  <2>1. CASE p.stage \in Final
    BY <1>2, <2>1, EmptyTypes
  <2>2. CASE p.stage \notin Final
    <3> HIDE DEF f
    <3> QED BY <1>1, <1>3, <2>2 DEF Process
  <2> QED BY <2>1, <2>2
<1>6. run'[r] = q
  BY <1>4 DEF TypeOK
<1> QED BY <1>3, <1>4, <1>5, <1>6

-----------------------------------------------------------------------------
(* Types *)

\* What TypeOK says of one process beyond its fields.
Shaped(q) ==
  /\ q.pending \subseteq TicksOf(q.phase)
  /\ q.stage = "ticking" => q.tick \in TicksOf(q.phase)
  /\ q.stage = "closing" => q.phase = "a"

\* A step of one run keeps the types if its new process has them.
LEMMA OneRunTypes ==
  ASSUME TypeOK, NEW r \in Runs, NEW q \in Process, Shaped(q),
         run' = [run EXCEPT ![r] = q], branch' \in Files, now' = now
  PROVE  TypeOK'
<1>1. run' \in [Runs -> Process]
  BY DEF TypeOK
<1>2. \A o \in Runs : Shaped(run[o])
  BY DEF TypeOK, Shaped
<1>3. \A o \in Runs : Shaped(run'[o])
  <2> HIDE DEF Shaped
  <2>1. \A o \in Runs : run'[o] = IF o = r THEN q ELSE run[o]
    BY DEF TypeOK
  <2> QED BY <1>2, <2>1
<1> QED BY <1>1, <1>3 DEF TypeOK, Shaped

\* A process that is over is in shape.
LEMMA OverShaped ==
  ASSUME NEW stage \in Final
  PROVE  Over(stage) \in Process /\ Shaped(Over(stage))
<1>1. stage \in Stages /\ stage # "ticking" /\ stage # "closing"
  BY DEF Final, Stages
<1> QED BY <1>1, EmptyTypes DEF Shaped

\* A checkpoint keeps the types if the process it was taken of had them.
LEMMA PublishTypes ==
  ASSUME TypeOK, NEW r \in Runs, NEW p \in Process, NEW full,
         Publish(r, p, full), p.stage \notin Final => Shaped(p)
  PROVE  TypeOK'
<1>1. run'[r] \in Process /\ branch' \in Files /\ now' = now /\ run' = [run EXCEPT ![r] = run'[r]]
  BY PublishFacts
<1>2. CASE p.stage \in Final
  <2>1. Shaped(run'[r])
    BY <1>2, PublishFacts, OverShaped
  <2> QED BY <1>1, <2>1, OneRunTypes
<1>3. CASE p.stage \notin Final
  <2>1. run'[r] = [p EXCEPT !.files = branch', !.beat = now + Beat]
    BY <1>3, PublishFacts
  <2>2. Shaped(run'[r])
    BY <1>3, <2>1 DEF Shaped, Process
  <2> QED BY <1>1, <2>2, OneRunTypes
<1> QED BY <1>2, <1>3

\* Every slot with an outcome in x has one in y.
Known(x, y) == \A s \in Slots : x[s] # "none" => y[s] # "none"

\* Marking missed slots (_mark_missed) loses no outcome and marks all of them.
LEMMA SlotOutcomes ==
  ASSUME NEW db \in [Slots -> Statuses], NEW S
  PROVE  /\ WithMissed(db, S) \in [Slots -> Statuses] /\ Known(db, WithMissed(db, S))
         /\ \A s \in Slots : s \in S => WithMissed(db, S)[s] = "MISSED"
BY DEF WithMissed, Statuses, Known

\* A slot that ran (_run_radar) loses no outcome, of its own or of an older slot.
LEMMA RadarOutcomes ==
  ASSUME NEW p \in Process, NEW status \in Statuses \ {"none"}
  PROVE  AfterRadar(p, status) \in [Slots -> Statuses] /\ Known(p.db, AfterRadar(p, status))
BY DEF AfterRadar, Statuses, Known, Process

\* A slot that raised (_record_tick_failure) overwrites an outcome with FAILED, never with none.
LEMMA RaisedOutcomes ==
  ASSUME NEW db \in [Slots -> Statuses], NEW t \in Slots
  PROVE  /\ [db EXCEPT ![t] = "FAILED"] \in [Slots -> Statuses]
         /\ Known(db, [db EXCEPT ![t] = "FAILED"])
BY DEF Statuses, Known

\* Marking first and running a slot afterwards loses no outcome either.
LEMMA KnownTransitive ==
  ASSUME NEW x, NEW y, NEW z, Known(x, y), Known(y, z)
  PROVE  Known(x, z)
BY DEF Known

-----------------------------------------------------------------------------
(* What each step of a run does to it *)

\* Start refuses, stops at once, or goes on with the slots that are not over.
LEMMA StartFacts ==
  ASSUME TypeOK, NEW r \in Runs, NEW told \in BOOLEAN, Start(r, told)
  PROVE  /\ run[r].stage = "restored"
         /\ \E full : \E p \in Process :
              /\ Publish(r, p, full)
              /\ p.files = run[r].files
              /\ \/ p.stage \in {"refused", "stopped"} /\ p.db = run[r].db
                 \/ p.stage = "working" /\ Shaped(p) /\ Known(run[r].db, p.db)
                    /\ now < PhaseEnd(p.phase)
<1> DEFINE p0 == run[r]
           ph == PhaseAt(now)
           refused == ph = "b" /\ p0.files.handoff = "stale"
           missed == MissedSlots(p0.db, ph)
           begun == [p0 EXCEPT !.phase = ph, !.fails = p0.files.failures]
           over == [begun EXCEPT !.stage = IF refused THEN "refused" ELSE "stopped"]
           goes == [begun EXCEPT !.stage = "working", !.db = WithMissed(p0.db, missed),
                                 !.pending = {s \in TicksOf(ph) : ~Expired(s)}]
<1>1. p0 \in Process /\ ph \in {"a", "b"}
  BY DEF TypeOK, PhaseAt
<1>2. p0.files.failures \in Nat /\ p0.db \in [Slots -> Statuses]
  BY <1>1 DEF Process, Files
<1>3. begun \in Process
  BY <1>1, <1>2 DEF Process
<1>4. CASE Publish(r, over, TRUE)
  <2>1. over \in Process /\ over.files = p0.files /\ over.db = p0.db
        /\ over.stage \in {"refused", "stopped"}
    BY <1>1, <1>3 DEF Process, Stages
  <2> HIDE DEF over
  <2> QED BY <1>4, <2>1 DEF Start
<1>5. CASE now < PhaseEnd(ph) /\ Publish(r, goes, missed # {})
  <2>1. WithMissed(p0.db, missed) \in [Slots -> Statuses]
        /\ Known(p0.db, WithMissed(p0.db, missed))
    BY <1>2, SlotOutcomes
  <2>2. {s \in TicksOf(ph) : ~Expired(s)} \in SUBSET Slots
    BY DEF TicksOf
  <2> HIDE DEF missed
  <2>3. goes \in Process /\ goes.files = p0.files /\ goes.stage = "working"
        /\ goes.db = WithMissed(p0.db, missed) /\ goes.phase = ph
        /\ goes.pending = {s \in TicksOf(ph) : ~Expired(s)}
    BY <1>1, <1>3, <2>1, <2>2 DEF Process, Stages
  <2>4. Shaped(goes)
    BY <2>3 DEF Shaped
  <2> HIDE DEF goes
  <2> QED BY <1>5, <2>1, <2>3, <2>4 DEF Start
<1> QED BY <1>4, <1>5 DEF Start

\* A turn of the loop that marks missed slots, drops the due ones and starts the last.
Turned(r) ==
  LET p      == run[r]
      missed == MissedSlots(p.db, p.phase)
      ready  == {s \in DueSlots(r) : ~Expired(s)}
      left   == [p EXCEPT !.db = WithMissed(p.db, missed), !.pending = @ \ DueSlots(r)]
  IN  IF ready = {} THEN left ELSE [left EXCEPT !.stage = "ticking", !.tick = Max(ready), !.since = now]

\* A turn of the loop (SessionRunner.run) marks what is missed, keeps the run's phase and
\* files, and either publishes all of it or touches the branch not at all.
LEMMA TurnFacts ==
  ASSUME TypeOK, NEW r \in Runs, Turn(r)
  PROVE  /\ run[r].stage = "working" /\ now < PhaseEnd(run[r].phase)
         /\ Turned(r) \in Process /\ Shaped(Turned(r))
         /\ Turned(r).stage \in {"working", "ticking"}
         /\ Turned(r).phase = run[r].phase /\ Turned(r).files = run[r].files
         /\ Turned(r).stage = "ticking" => Turned(r).since = now
         /\ Known(run[r].db, Turned(r).db)
         /\ \A s \in MissedSlots(run[r].db, run[r].phase) : Turned(r).db[s] = "MISSED"
         /\ \/ Publish(r, Turned(r), TRUE)
            \/ run' = [run EXCEPT ![r] = Turned(r)] /\ UNCHANGED <<now, branch>>
<1> DEFINE p == run[r]
           missed == MissedSlots(p.db, p.phase)
           ready == {s \in DueSlots(r) : ~Expired(s)}
           left == [p EXCEPT !.db = WithMissed(p.db, missed), !.pending = @ \ DueSlots(r)]
<1>1. p \in Process /\ Shaped(p) /\ now \in Nat
  BY SessionAssumption DEF TypeOK, Shaped
<1>2. p.stage = "working" /\ now < PhaseEnd(p.phase)
  BY DEF Turn, InLoop
<1>3. /\ WithMissed(p.db, missed) \in [Slots -> Statuses] /\ Known(p.db, WithMissed(p.db, missed))
      /\ \A s \in missed : WithMissed(p.db, missed)[s] = "MISSED"
  BY <1>1, SlotOutcomes DEF Process, MissedSlots
<1>4. ready \subseteq p.pending /\ p.pending \subseteq TicksOf(p.phase) /\ p.pending \subseteq Slots
  BY <1>1 DEF DueSlots, Shaped, Process
<1>5. ready # {} => Max(ready) \in ready /\ Max(ready) \in TicksOf(p.phase) /\ Max(ready) \in Nat
  BY <1>4, SlotFacts, MaxIsMember
<1> HIDE DEF missed, ready
<1>6. left \in Process /\ left.pending \subseteq p.pending /\ left.stage = "working"
      /\ left.phase = p.phase /\ left.files = p.files /\ left.db = WithMissed(p.db, missed)
  BY <1>1, <1>2, <1>3 DEF Process
<1>7. Turned(r) = IF ready = {} THEN left
                  ELSE [left EXCEPT !.stage = "ticking", !.tick = Max(ready), !.since = now]
  BY DEF Turned, missed, ready
<1> HIDE DEF left
<1>8. /\ Turned(r) \in Process /\ Turned(r).stage \in {"working", "ticking"}
      /\ Turned(r).stage = "ticking" => Turned(r).since = now /\ Turned(r).tick \in TicksOf(p.phase)
      /\ Turned(r).phase = p.phase /\ Turned(r).files = p.files /\ Turned(r).pending \subseteq p.pending
      /\ Turned(r).db = WithMissed(p.db, missed)
  BY <1>1, <1>5, <1>6, <1>7 DEF Process, Stages
<1>9. Shaped(Turned(r))
  BY <1>4, <1>8 DEF Shaped
<1>10. \/ Publish(r, Turned(r), TRUE)
       \/ run' = [run EXCEPT ![r] = Turned(r)] /\ UNCHANGED <<now, branch>>
  BY DEF Turn, Turned
<1> QED BY <1>2, <1>3, <1>8, <1>9, <1>10 DEF missed

\* A slot returns or raises: the run goes on or stops, and the slot keeps an outcome.
LEMMA TickFacts ==
  ASSUME TypeOK, NEW r \in Runs,
         (\E status \in Statuses : TickReturns(r, status)) \/ (\E ran \in BOOLEAN : TickRaises(r, ran))
  PROVE  /\ run[r].stage = "ticking"
         /\ \E p \in Process :
              /\ Publish(r, p, TRUE)
              /\ p.stage \in {"working", "stopped"} /\ Shaped(p)
              /\ p.phase = run[r].phase /\ Known(run[r].db, p.db)
<1> DEFINE old == run[r]
<1>1. old \in Process /\ old.pending \subseteq TicksOf(old.phase) /\ old.db \in [Slots -> Statuses]
      /\ old.fails \in Nat
  BY DEF TypeOK, Process
<1>2. ASSUME NEW db \in [Slots -> Statuses], NEW fails \in Nat, NEW stage \in {"working", "stopped"},
             Known(old.db, db),
             Publish(r, [old EXCEPT !.db = db, !.fails = fails, !.tick = 0, !.since = 0, !.stage = stage], TRUE)
      PROVE  \E p \in Process :
              /\ Publish(r, p, TRUE)
              /\ p.stage \in {"working", "stopped"} /\ Shaped(p)
              /\ p.phase = old.phase /\ Known(old.db, p.db)
  <2> DEFINE q == [old EXCEPT !.db = db, !.fails = fails, !.tick = 0, !.since = 0, !.stage = stage]
  <2> HIDE DEF old
  <2>1. q \in Process /\ q.stage = stage /\ q.phase = old.phase /\ q.db = db /\ q.pending = old.pending
    BY <1>1 DEF Process, Stages
  <2>2. Shaped(q)
    BY <1>1, <2>1 DEF Shaped
  <2> HIDE DEF q
  <2>3. Publish(r, q, TRUE)
    BY <1>2 DEF q
  <2> QED BY <1>2, <2>1, <2>2, <2>3
<1>3. ASSUME NEW status \in Statuses, TickReturns(r, status)
      PROVE  /\ old.stage = "ticking"
             /\ \E p \in Process :
                  /\ Publish(r, p, TRUE)
                  /\ p.stage \in {"working", "stopped"} /\ Shaped(p)
                  /\ p.phase = old.phase /\ Known(old.db, p.db)
  <2> DEFINE db == AfterRadar(old, status)
             failed == status = "FAILED" /\ old.db[old.tick] \notin {"COMPLETED", "MISSED"}
             fails == IF failed THEN old.fails + 1 ELSE 0
             stage == IF failed /\ fails >= FailureLimit THEN "stopped" ELSE "working"
  <2>1. old.stage = "ticking" /\ status # "none"
    BY <1>3 DEF TickReturns
  <2>2. db \in [Slots -> Statuses] /\ Known(old.db, db)
    BY <1>1, <2>1, RadarOutcomes
  <2>3. fails \in Nat /\ stage \in {"working", "stopped"}
    BY <1>1
  <2>4. Publish(r, [old EXCEPT !.db = db, !.fails = fails, !.tick = 0, !.since = 0, !.stage = stage], TRUE)
    BY <1>3 DEF TickReturns
  <2> HIDE DEF db, fails, stage, old
  <2> QED BY <1>2, <2>1, <2>2, <2>3, <2>4
<1>4. ASSUME NEW ran \in BOOLEAN, TickRaises(r, ran)
      PROVE  /\ old.stage = "ticking"
             /\ \E p \in Process :
                  /\ Publish(r, p, TRUE)
                  /\ p.stage \in {"working", "stopped"} /\ Shaped(p)
                  /\ p.phase = old.phase /\ Known(old.db, p.db)
  <2> DEFINE before == IF ran THEN AfterRadar(old, "COMPLETED") ELSE old.db
             db == [before EXCEPT ![old.tick] = "FAILED"]
             stage == IF old.fails + 1 >= FailureLimit THEN "stopped" ELSE "working"
  <2>1. old.stage = "ticking" /\ old.tick \in Slots
    BY <1>4 DEF TickRaises, TypeOK, TicksOf
  <2>2. before \in [Slots -> Statuses] /\ Known(old.db, before)
    <3>1. "COMPLETED" \in Statuses \ {"none"}
      BY DEF Statuses
    <3> QED BY <1>1, <3>1, RadarOutcomes DEF Known
  <2> HIDE DEF before
  <2>3. db \in [Slots -> Statuses] /\ Known(before, db)
    BY <2>1, <2>2, RaisedOutcomes
  <2>4. Known(old.db, db)
    BY <2>2, <2>3, KnownTransitive
  <2>5. old.fails + 1 \in Nat /\ stage \in {"working", "stopped"}
    BY <1>1
  <2>6. Publish(r, [old EXCEPT !.db = db, !.fails = old.fails + 1, !.tick = 0, !.since = 0, !.stage = stage], TRUE)
    BY <1>4 DEF TickRaises, before
  <2> HIDE DEF db, stage, old
  <2> QED BY <1>2, <2>1, <2>3, <2>4, <2>5, <2>6
<1> HIDE DEF old
<1> QED BY <1>3, <1>4 DEF old

\* The end of a phase: phase a goes on to the handoff, phase b is over.
LEMMA FinishFacts ==
  ASSUME TypeOK, NEW r \in Runs, Finish(r)
  PROVE  /\ run[r].stage = "working" /\ now >= PhaseEnd(run[r].phase)
         /\ \E p \in Process :
              /\ Publish(r, p, TRUE)
              /\ p.stage = IF run[r].phase = "a" THEN "closing" ELSE "ended"
              /\ p.phase = run[r].phase /\ p.db = run[r].db /\ Shaped(p)
<1> DEFINE old == run[r]
           p == [old EXCEPT !.stage = IF old.phase = "a" THEN "closing" ELSE "ended"]
<1>1. old \in Process /\ old.pending \subseteq TicksOf(old.phase)
  BY DEF TypeOK
<1>2. old.stage = "working" /\ now >= PhaseEnd(old.phase) /\ Publish(r, p, TRUE)
  BY DEF Finish, HandsOver
<1>3. /\ p \in Process /\ p.phase = old.phase /\ p.db = old.db /\ p.pending = old.pending
      /\ p.stage = IF old.phase = "a" THEN "closing" ELSE "ended"
  BY <1>1 DEF Process, Stages
<1>4. Shaped(p)
  BY <1>1, <1>3 DEF Shaped
<1> HIDE DEF p
<1> QED BY <1>2, <1>3, <1>4

-----------------------------------------------------------------------------
(* The cases of a step *)

\* Every step is one of the handlers of one run, the clock or a stutter; the
\* handlers that end in a checkpoint are grouped by what their facts say.
LEMMA NextCases ==
  ASSUME [Next]_vars
  PROVE  \/ Tick \/ UNCHANGED vars
         \/ \E r \in Runs :
              \/ Trigger(r) \/ Prepare(r) \/ Heartbeat(r) \/ Turn(r)
              \/ Finish(r) \/ HandOff(r) \/ NextJob(r) \/ Crash(r)
              \/ \E told \in BOOLEAN : Gate(r, told) \/ StartRefused(r, told)
              \/ \E told \in BOOLEAN : Start(r, told)
              \/ (\E status \in Statuses : TickReturns(r, status)) \/ \E ran \in BOOLEAN : TickRaises(r, ran)
BY DEF Next

\* Before the first run is created, the branch is empty and every run is off.
LEMMA TypeInit == Init => TypeOK
<1> SUFFICES ASSUME Init PROVE TypeOK
  OBVIOUS
<1>1. now \in 0..End /\ branch \in Files /\ run \in [Runs -> Process]
  BY EmptyTypes, SessionAssumption DEF Init
<1>2. \A r \in Runs : Shaped(run[r])
  BY DEF Init, Off, Shaped
<1> QED BY <1>1, <1>2 DEF TypeOK, Shaped

\* Every step of the session keeps the shape of the state.
LEMMA TypeStep ==
  ASSUME TypeOK, [Next]_vars
  PROVE  TypeOK'
<1>1. now \in Nat /\ branch \in Files /\ \A r \in Runs : run[r] \in Process /\ Shaped(run[r])
  BY SessionAssumption DEF TypeOK, Shaped
<1>2. CASE Tick \/ UNCHANGED vars
  BY <1>1, <1>2, SessionAssumption DEF Tick, vars, TypeOK
<1>3. ASSUME NEW r \in Runs, Trigger(r) PROVE TypeOK'
  <2> DEFINE q == [run[r] EXCEPT !.stage = "queued"]
  <2>1. run' = [run EXCEPT ![r] = q] /\ branch' = branch /\ now' = now
    BY <1>3 DEF Trigger
  <2>2. q \in Process /\ q.stage = "queued" /\ q.pending = run[r].pending /\ q.phase = run[r].phase
    BY <1>1 DEF Process, Stages
  <2>3. Shaped(q)
    BY <1>1, <2>2 DEF Shaped
  <2> HIDE DEF q
  <2> QED BY <1>1, <2>1, <2>2, <2>3, OneRunTypes
<1>4. ASSUME NEW r \in Runs, NextJob(r) \/ \E told \in BOOLEAN : Gate(r, told) PROVE TypeOK'
  <2> DEFINE q == [run[r] EXCEPT !.stage = "gated"]
  <2>1. /\ branch' = branch /\ now' = now
        /\ run' = [run EXCEPT ![r] = q] \/ run' = [run EXCEPT ![r] = Over("stopped")]
    BY <1>4 DEF NextJob, Gate
  <2>2. q \in Process /\ q.stage = "gated" /\ q.pending = run[r].pending /\ q.phase = run[r].phase
    BY <1>1 DEF Process, Stages
  <2>3. Shaped(q)
    BY <1>1, <2>2 DEF Shaped
  <2>4. Over("stopped") \in Process /\ Shaped(Over("stopped"))
    BY OverShaped DEF Final
  <2> HIDE DEF q
  <2> QED BY <1>1, <2>1, <2>2, <2>3, <2>4, OneRunTypes
<1>5. ASSUME NEW r \in Runs, Prepare(r) PROVE TypeOK'
  <2> DEFINE q == [run[r] EXCEPT !.stage = "restored", !.files = branch, !.db = branch.slots]
  <2>1. /\ branch' = branch /\ now' = now
        /\ run' = [run EXCEPT ![r] = q] \/ run' = [run EXCEPT ![r] = Over("refused")]
    BY <1>5 DEF Prepare, Restored
  <2>2. q \in Process /\ q.stage = "restored" /\ q.pending = run[r].pending /\ q.phase = run[r].phase
    BY <1>1 DEF Process, Stages, Files
  <2>3. Shaped(q)
    BY <1>1, <2>2 DEF Shaped
  <2>4. Over("refused") \in Process /\ Shaped(Over("refused"))
    BY OverShaped DEF Final
  <2> HIDE DEF q
  <2> QED BY <1>1, <2>1, <2>2, <2>3, <2>4, OneRunTypes
<1>6. ASSUME NEW r \in Runs, Crash(r) \/ \E told \in BOOLEAN : StartRefused(r, told) PROVE TypeOK'
  <2>1. branch' = branch /\ now' = now /\ run' = [run EXCEPT ![r] = Over("stopped")]
    BY <1>6 DEF Crash, StartRefused
  <2>2. Over("stopped") \in Process /\ Shaped(Over("stopped"))
    BY OverShaped DEF Final
  <2> QED BY <1>1, <2>1, <2>2, OneRunTypes
<1>7. ASSUME NEW r \in Runs, NEW told \in BOOLEAN, Start(r, told) PROVE TypeOK'
  <2>1. PICK full : \E p \in Process : Publish(r, p, full) /\ (p.stage \notin Final => Shaped(p))
    BY <1>7, StartFacts DEF Final
  <2> QED BY <2>1, PublishTypes
<1>8. ASSUME NEW r \in Runs, Heartbeat(r) PROVE TypeOK'
  <2>1. Publish(r, run[r], FALSE)
    BY <1>8 DEF Heartbeat
  <2> QED BY <1>1, <2>1, PublishTypes
<1>9. ASSUME NEW r \in Runs, Turn(r) PROVE TypeOK'
  <2>1. Turned(r) \in Process /\ Shaped(Turned(r))
    BY <1>9, TurnFacts
  <2>2. CASE Publish(r, Turned(r), TRUE)
    BY <2>1, <2>2, PublishTypes
  <2>3. CASE run' = [run EXCEPT ![r] = Turned(r)] /\ UNCHANGED <<now, branch>>
    BY <1>1, <2>1, <2>3, OneRunTypes
  <2> QED BY <1>9, <2>2, <2>3, TurnFacts
<1>10. ASSUME NEW r \in Runs,
              (\E status \in Statuses : TickReturns(r, status)) \/ (\E ran \in BOOLEAN : TickRaises(r, ran))
       PROVE TypeOK'
  <2>1. PICK p \in Process : Publish(r, p, TRUE) /\ Shaped(p)
    BY <1>10, TickFacts
  <2> QED BY <2>1, PublishTypes
<1>11. ASSUME NEW r \in Runs, Finish(r) PROVE TypeOK'
  <2>1. PICK p \in Process : Publish(r, p, TRUE) /\ Shaped(p)
    BY <1>11, FinishFacts
  <2> QED BY <2>1, PublishTypes
<1>12. ASSUME NEW r \in Runs, HandOff(r) PROVE TypeOK'
  <2>1. [Off EXCEPT !.stage = "between"] = Over("between") /\ "between" \in Stages
    BY DEF Over, Stages
  <2>2. run' = [run EXCEPT ![r] = Over("between")] /\ now' = now
        /\ branch' = [run[r].files EXCEPT !.handoff = "match"]
    BY <1>12, <2>1 DEF HandOff
  <2>3. branch' \in Files
    BY <1>1, <2>2 DEF Process, Files
  <2>4. Over("between") \in Process /\ Shaped(Over("between"))
    BY <2>1, EmptyTypes DEF Shaped
  <2> QED BY <2>2, <2>3, <2>4, OneRunTypes
<1> QED BY NextCases, <1>2, <1>3, <1>4, <1>5, <1>6, <1>7, <1>8, <1>9, <1>10, <1>11, <1>12

\* The state always has its shape: only the end of phase a hands over (SessionRunner.run),
\* and a slot is queued and run only in its own phase.
THEOREM SessionTypeCorrect == Spec => []TypeOK
<1> QED BY TypeInit, TypeStep, PTL DEF Spec

-----------------------------------------------------------------------------
(* One worker *)

\* A run past the gate, and the exclusion in a form a step can be checked against.
Worker(r) == Live(r) /\ run[r].stage # "queued"
Alone     == \A r, o \in Runs : Worker(r) /\ Worker(o) => r = o

\* A step of a run that was a worker already, or is none now, admits no second one.
LEMMA AloneKept ==
  ASSUME TypeOK, Alone, NEW r \in Runs, run' = [run EXCEPT ![r] = run'[r]],
         Worker(r) \/ ~Worker(r)'
  PROVE  Alone'
<1>1. \A o \in Runs \ {r} : run'[o] = run[o]
  BY DEF TypeOK
<1>2. \A o \in Runs \ {r} : Worker(o)' <=> Worker(o)
  BY <1>1 DEF Worker, Live
<1> QED BY <1>2 DEF Alone

\* Only the gate makes a worker, and it asks for the other active runs.
LEMMA AloneStep ==
  ASSUME TypeOK, Alone, [Next]_vars
  PROVE  Alone'
<1>1. CASE Tick \/ UNCHANGED vars
  BY <1>1 DEF Tick, vars, Alone, Worker, Live
<1>2. ASSUME NEW r \in Runs, Trigger(r) PROVE Alone'
  <2>1. run'[r].stage = "queued" /\ run' = [run EXCEPT ![r] = run'[r]]
    BY <1>2 DEF Trigger, TypeOK, Process
  <2> QED BY <2>1, AloneKept DEF Worker
<1>3. ASSUME NEW r \in Runs, NEW told \in BOOLEAN, Gate(r, told) PROVE Alone'
  <2>1. CASE OtherRunActive(r)
    <3>1. run' = [run EXCEPT ![r] = Over("stopped")]
      BY <1>3, <2>1 DEF Gate
    <3>2. run'[r] = Over("stopped") /\ run'[r].stage = "stopped"
      BY <3>1 DEF TypeOK, Over, Off
    <3> QED BY <3>1, <3>2, AloneKept DEF Worker, Live
  <2>2. CASE ~OtherRunActive(r)
    <3>1. \A o \in Runs \ {r} : ~Live(o) /\ run'[o] = run[o]
      BY <1>3, <2>2 DEF Gate, OtherRunActive, TypeOK
    <3>2. \A o \in Runs \ {r} : ~Worker(o)'
      BY <3>1 DEF Worker, Live
    <3> QED BY <3>2 DEF Alone
  <2> QED BY <2>1, <2>2
<1>4. ASSUME NEW r \in Runs, Crash(r) PROVE Alone'
  <2>1. run' = [run EXCEPT ![r] = run'[r]] /\ run'[r].stage = "stopped"
    BY <1>4 DEF Crash, TypeOK, Over, Off
  <2> QED BY <2>1, AloneKept DEF Worker, Live
<1>5. ASSUME NEW r \in Runs, Worker(r), run' = [run EXCEPT ![r] = run'[r]] PROVE Alone'
  BY <1>5, AloneKept
<1>6. ASSUME NEW r \in Runs, Prepare(r) \/ NextJob(r) \/ HandOff(r) \/ \E told \in BOOLEAN : StartRefused(r, told)
      PROVE  Alone'
  <2>1. Worker(r)
    BY <1>6 DEF Prepare, NextJob, HandOff, StartRefused, Worker, Live
  <2>2. run' = [run EXCEPT ![r] = run'[r]]
    BY <1>6 DEF Prepare, NextJob, HandOff, StartRefused, TypeOK
  <2> QED BY <1>5, <2>1, <2>2
<1>7. ASSUME NEW r \in Runs, NEW full, NEW p \in Process, Publish(r, p, full),
             run[r].stage \in {"restored", "working", "ticking"}
      PROVE  Alone'
  <2>1. Worker(r)
    BY <1>7 DEF Worker, Live
  <2>2. run' = [run EXCEPT ![r] = run'[r]]
    BY <1>7, PublishFacts
  <2> QED BY <1>5, <2>1, <2>2
<1>8. ASSUME NEW r \in Runs, NEW told \in BOOLEAN, Start(r, told) PROVE Alone'
  BY <1>7, <1>8, StartFacts
<1>9. ASSUME NEW r \in Runs, Heartbeat(r) PROVE Alone'
  <2>1. Publish(r, run[r], FALSE) /\ run[r].stage = "working" /\ run[r] \in Process
    BY <1>9 DEF Heartbeat, InLoop, TypeOK
  <2> QED BY <1>7, <2>1
<1>10. ASSUME NEW r \in Runs, Turn(r) PROVE Alone'
  <2>1. Turned(r) \in Process /\ run[r].stage = "working"
    BY <1>10, TurnFacts
  <2>2. CASE Publish(r, Turned(r), TRUE)
    BY <1>7, <2>1, <2>2
  <2>3. CASE run' = [run EXCEPT ![r] = Turned(r)]
    <3>1. Worker(r) /\ run' = [run EXCEPT ![r] = run'[r]]
      BY <2>1, <2>3 DEF Worker, Live, TypeOK
    <3> QED BY <1>5, <3>1
  <2> QED BY <1>10, <2>2, <2>3, TurnFacts
<1>11. ASSUME NEW r \in Runs,
              (\E status \in Statuses : TickReturns(r, status)) \/ (\E ran \in BOOLEAN : TickRaises(r, ran))
       PROVE  Alone'
  BY <1>7, <1>11, TickFacts
<1>12. ASSUME NEW r \in Runs, Finish(r) PROVE Alone'
  BY <1>7, <1>12, FinishFacts
<1> QED BY NextCases, <1>1, <1>2, <1>3, <1>4, <1>6, <1>8, <1>9, <1>10, <1>11, <1>12

\* The exclusion says that the set of workers has at most one member.
LEMMA AloneCounts == Alone => OneWorker
<1> SUFFICES ASSUME Alone PROVE OneWorker
  OBVIOUS
<1> DEFINE W == {r \in Runs : Live(r) /\ run[r].stage # "queued"}
<1>1. W = {} \/ \E r \in W : W = {r}
  BY DEF Alone, Worker
<1>2. Cardinality(W) <= 1
  <2> HIDE DEF W
  <2>1. Cardinality({}) = 0 /\ \A r : Cardinality({r}) = 1
    BY FS_EmptySet, FS_Singleton
  <2> QED BY <1>1, <2>1
<1> QED BY <1>2 DEF OneWorker

\* No two workflow runs are past the gate (evaluate_session_gate) at a time, however
\* many are triggered, whatever dies and however long a slot outlives the lease.
THEOREM OneWorkerOnly == Spec => []OneWorker
<1>1. Init => Alone
  BY DEF Init, Alone, Worker, Live, Off
<1>2. TypeOK /\ Alone /\ [Next]_vars => Alone'
  BY AloneStep
<1> QED BY TypeInit, TypeStep, <1>1, <1>2, AloneCounts, PTL DEF Spec

-----------------------------------------------------------------------------
(* Published outcomes *)

\* A run that will publish knows every outcome the branch has: its files have it,
\* and its database has what its files have.
Keeping == {"restored", "working", "ticking", "closing"}
Kept(r) == run[r].stage \in Keeping =>
             Known(branch.slots, run[r].files.slots) /\ Known(run[r].files.slots, run[r].db)
KeptInv == TypeOK /\ Alone /\ \A r \in Runs : Kept(r)

\* A step that leaves the branch alone concerns the run that takes it.
LEMMA LocalKept ==
  ASSUME KeptInv, NEW r \in Runs, run' = [run EXCEPT ![r] = run'[r]], branch' = branch, Kept(r)'
  PROVE  \A o \in Runs : Kept(o)'
<1>1. \A o \in Runs \ {r} : run'[o] = run[o]
  BY DEF KeptInv, TypeOK
<1> QED BY <1>1 DEF KeptInv, Kept

\* A checkpoint publishes no less than the branch had, and the run that took it, the
\* only one that may publish, knows what it published.
LEMMA PublishKept ==
  ASSUME KeptInv, NEW r \in Runs, NEW p \in Process, NEW full, Publish(r, p, full),
         run[r].stage \in Keeping, Known(run[r].db, p.db), p.files = run[r].files \/ branch'.slots = p.db
  PROVE  Known(branch.slots, branch'.slots) /\ \A o \in Runs : Kept(o)'
<1>1. TypeOK /\ Known(branch.slots, run[r].files.slots) /\ Known(run[r].files.slots, run[r].db)
  BY DEF KeptInv, Kept
<1>2. /\ run' = [run EXCEPT ![r] = run'[r]]
      /\ branch'.slots \in {p.db, p.files.slots}
      /\ p.stage \in Final => run'[r] = Over(p.stage)
      /\ p.stage \notin Final => run'[r] = [p EXCEPT !.files = branch', !.beat = now + Beat]
  BY <1>1, PublishFacts
<1>3. Known(branch.slots, branch'.slots) /\ Known(branch'.slots, p.db)
  BY <1>1, <1>2 DEF Known
<1>4. ASSUME NEW o \in Runs \ {r} PROVE Kept(o)'
  <2>1. run[o].stage \notin Keeping
    BY DEF KeptInv, Alone, Worker, Live, Keeping
  <2>2. run'[o] = run[o]
    BY <1>1, <1>2 DEF TypeOK
  <2> QED BY <2>1, <2>2 DEF Kept
<1>5. Kept(r)'
  <2>1. CASE p.stage \in Final
    <3>1. run'[r].stage = p.stage
      BY <1>2, <2>1 DEF Over, Off
    <3> QED BY <2>1, <3>1 DEF Kept, Keeping, Final
  <2>2. CASE p.stage \notin Final
    <3>1. run'[r].files = branch' /\ run'[r].db = p.db
      BY <1>2, <2>2 DEF Process
    <3> QED BY <1>3, <3>1 DEF Kept, Known
  <2> QED BY <2>1, <2>2
<1> QED BY <1>3, <1>4, <1>5

\* Every step keeps what the branch has.
LEMMA KeptStep ==
  ASSUME KeptInv, [Next]_vars
  PROVE  Known(branch.slots, branch'.slots) /\ \A o \in Runs : Kept(o)'
<1> DEFINE Goal == Known(branch.slots, branch'.slots) /\ \A o \in Runs : Kept(o)'
<1>1. TypeOK /\ \A r \in Runs : run[r] \in Process
  BY DEF KeptInv, TypeOK
<1>2. CASE Tick \/ UNCHANGED vars
  BY <1>2 DEF Tick, vars, KeptInv, Kept, Known
<1>3. ASSUME NEW r \in Runs, branch' = branch, run' = [run EXCEPT ![r] = run'[r]], Kept(r)'
      PROVE  Goal
  <2>1. \A o \in Runs : Kept(o)'
    BY <1>3, LocalKept
  <2>2. Known(branch.slots, branch'.slots)
    BY <1>3 DEF Known
  <2> QED BY <2>1, <2>2
<1>4. ASSUME NEW r \in Runs,
              \/ Trigger(r) \/ NextJob(r) \/ Crash(r)
              \/ \E told \in BOOLEAN : Gate(r, told) \/ StartRefused(r, told)
      PROVE  Goal
  <2>1. branch' = branch /\ run' = [run EXCEPT ![r] = run'[r]]
    BY <1>1, <1>4 DEF Trigger, NextJob, Crash, Gate, StartRefused, TypeOK
  <2>2. run'[r].stage \notin Keeping
    BY <1>1, <1>4 DEF Trigger, NextJob, Crash, Gate, StartRefused, TypeOK, Process, Over, Off, Keeping
  <2>3. Kept(r)'
    BY <2>2 DEF Kept
  <2> QED BY <1>3, <2>1, <2>3
<1>5. ASSUME NEW r \in Runs, Prepare(r) PROVE Goal
  <2>1. branch' = branch /\ run' = [run EXCEPT ![r] = run'[r]]
    BY <1>1, <1>5 DEF Prepare, TypeOK
  <2>2. \/ run'[r].stage = "refused"
        \/ run'[r].files = branch /\ run'[r].db = branch.slots
    BY <1>1, <1>5 DEF Prepare, Restored, TypeOK, Process, Over, Off
  <2>3. Kept(r)'
    BY <2>1, <2>2 DEF Kept, Keeping, Known
  <2> QED BY <1>3, <2>1, <2>3
<1>6. ASSUME NEW r \in Runs, NEW told \in BOOLEAN, Start(r, told) PROVE Goal
  <2>1. PICK full : \E p \in Process :
          Publish(r, p, full) /\ p.files = run[r].files /\ Known(run[r].db, p.db)
    BY <1>1, <1>6, StartFacts DEF Known
  <2>2. run[r].stage \in Keeping
    BY <1>1, <1>6, StartFacts DEF Keeping
  <2> QED BY <2>1, <2>2, PublishKept
<1>7. ASSUME NEW r \in Runs, Heartbeat(r) PROVE Goal
  <2>1. Publish(r, run[r], FALSE) /\ run[r].stage \in Keeping /\ Known(run[r].db, run[r].db)
    BY <1>7 DEF Heartbeat, InLoop, Keeping, Known
  <2> QED BY <1>1, <2>1, PublishKept
<1>8. ASSUME NEW r \in Runs, NEW p \in Process, Publish(r, p, TRUE),
             run[r].stage \in Keeping, Known(run[r].db, p.db)
      PROVE  Goal
  <2>1. branch'.slots = p.db
    BY <1>1, <1>8, PublishFacts
  <2> QED BY <1>8, <2>1, PublishKept
<1>9. ASSUME NEW r \in Runs, Turn(r) PROVE Goal
  <2>1. /\ run[r].stage = "working" /\ Turned(r) \in Process
        /\ Known(run[r].db, Turned(r).db) /\ Turned(r).files = run[r].files
    BY <1>1, <1>9, TurnFacts
  <2>2. CASE Publish(r, Turned(r), TRUE)
    BY <1>8, <2>1, <2>2 DEF Keeping
  <2>3. CASE run' = [run EXCEPT ![r] = Turned(r)] /\ UNCHANGED <<now, branch>>
    <3>1. branch' = branch /\ run'[r] = Turned(r) /\ run' = [run EXCEPT ![r] = run'[r]]
      BY <1>1, <2>3 DEF TypeOK
    <3>2. Kept(r)'
      BY <2>1, <3>1 DEF KeptInv, Kept, Keeping, Known
    <3> QED BY <1>3, <3>1, <3>2
  <2> QED BY <1>1, <1>9, <2>2, <2>3, TurnFacts
<1>10. ASSUME NEW r \in Runs,
              (\E status \in Statuses : TickReturns(r, status)) \/ (\E ran \in BOOLEAN : TickRaises(r, ran))
       PROVE  Goal
  BY <1>1, <1>8, <1>10, TickFacts DEF Keeping
<1>11. ASSUME NEW r \in Runs, Finish(r) PROVE Goal
  <2>1. PICK p \in Process : Publish(r, p, TRUE) /\ p.db = run[r].db
    BY <1>1, <1>11, FinishFacts
  <2>2. run[r].stage \in Keeping
    BY <1>1, <1>11, FinishFacts DEF Keeping
  <2> QED BY <1>8, <2>1, <2>2 DEF Known
<1>12. ASSUME NEW r \in Runs, HandOff(r) PROVE Goal
  <2>1. /\ run[r].stage = "closing" /\ branch' = [run[r].files EXCEPT !.handoff = "match"]
        /\ run' = [run EXCEPT ![r] = [Off EXCEPT !.stage = "between"]]
    BY <1>12 DEF HandOff
  <2>2. branch'.slots = run[r].files.slots
    BY <1>1, <2>1 DEF Process, Files
  <2>3. Known(branch.slots, branch'.slots)
    BY <2>1, <2>2 DEF KeptInv, Kept, Keeping
  <2>4. ASSUME NEW o \in Runs PROVE run'[o].stage \notin Keeping
    <3>1. CASE o = r
      BY <1>1, <2>1, <3>1 DEF TypeOK, Off, Keeping
    <3>2. CASE o # r
      <4>1. run'[o] = run[o]
        BY <1>1, <2>1, <3>2 DEF TypeOK
      <4>2. run[o].stage \notin Keeping
        BY <2>1, <3>2 DEF KeptInv, Alone, Worker, Live, Keeping
      <4> QED BY <4>1, <4>2
    <3> QED BY <3>1, <3>2
  <2> QED BY <2>3, <2>4 DEF Kept
<1> QED BY NextCases, <1>2, <1>4, <1>5, <1>6, <1>7, <1>9, <1>10, <1>11, <1>12

\* The invariant holds at the start and in every step.
LEMMA KeptInvariant == Spec => []KeptInv
<1>1. Init => KeptInv
  <2> SUFFICES ASSUME Init PROVE KeptInv
    OBVIOUS
  <2> QED BY TypeInit DEF Init, KeptInv, Alone, Worker, Live, Kept, Keeping, Off
<1>2. KeptInv /\ [Next]_vars => KeptInv'
  <2> SUFFICES ASSUME KeptInv, [Next]_vars PROVE KeptInv'
    OBVIOUS
  <2>1. TypeOK' /\ Alone'
    BY TypeStep, AloneStep DEF KeptInv
  <2> QED BY <2>1, KeptStep DEF KeptInv
<1> QED BY <1>1, <1>2, PTL DEF Spec

\* An outcome on the branch stays there in every later publication (persist_state,
\* publish_state_branch), although each publication replaces the branch as a whole.
THEOREM OutcomesStay == Spec => OutcomesKept
<1>1. KeptInv /\ [Next]_vars => [\A s \in Slots : branch.slots[s] # "none" => branch'.slots[s] # "none"]_vars
  BY KeptStep DEF Known
<1> QED BY <1>1, KeptInvariant, PTL DEF Spec, OutcomesKept

-----------------------------------------------------------------------------
(* The whole day *)

\* Every slot has an outcome.
Accounted(db) == \A s \in Slots : db[s] # "none"

\* A run of the last phase that is past the end of the session has marked every slot:
\* the loop does so before it sleeps, and a slot that ran over the end was started
\* when every other one was due already.
Complete(r) ==
  /\ run[r].stage = "working" /\ run[r].phase = "b" /\ now >= End => Accounted(run[r].db)
  /\ run[r].stage = "ticking" /\ run[r].phase = "b" =>
       /\ run[r].since <= now /\ now <= run[r].since + MaxTick
       /\ \A s \in Slots : s + Grace < run[r].since => run[r].db[s] # "none"
  /\ run[r].stage = "ended" => Accounted(branch.slots)
DayInv == KeptInv /\ \A r \in Runs : Complete(r)

\* A session that has ended stays complete while outcomes are kept.
LEMMA LocalComplete ==
  ASSUME DayInv, NEW r \in Runs, run' = [run EXCEPT ![r] = run'[r]], now' = now,
         Known(branch.slots, branch'.slots), Complete(r)'
  PROVE  \A o \in Runs : Complete(o)'
<1>1. \A o \in Runs \ {r} : run'[o] = run[o]
  BY DEF DayInv, KeptInv, TypeOK
<1>2. Accounted(branch.slots) => Accounted(branch'.slots)
  BY DEF Accounted, Known
<1> QED BY <1>1, <1>2 DEF DayInv, Complete

\* A checkpoint of a run that goes on working, stops or hands over.
LEMMA PublishComplete ==
  ASSUME DayInv, NEW r \in Runs, NEW p \in Process, NEW full, Publish(r, p, full),
         Known(branch.slots, branch'.slots),
         p.stage \in {"working", "closing", "stopped", "refused"},
         p.stage = "working" /\ p.phase = "b" /\ now >= End => Accounted(p.db)
  PROVE  \A o \in Runs : Complete(o)'
<1>1. TypeOK
  BY DEF DayInv, KeptInv
<1>2. /\ run' = [run EXCEPT ![r] = run'[r]] /\ now' = now
      /\ p.stage \in Final => run'[r] = Over(p.stage)
      /\ p.stage \notin Final => run'[r] = [p EXCEPT !.files = branch', !.beat = now + Beat]
  BY <1>1, PublishFacts
<1>3. Complete(r)'
  <2>1. CASE p.stage \in Final
    <3>1. run'[r].stage \in {"stopped", "refused"}
      BY <1>2, <2>1 DEF Over, Off, Final
    <3> QED BY <3>1 DEF Complete
  <2>2. CASE p.stage \notin Final
    <3>1. run'[r].stage = p.stage /\ run'[r].phase = p.phase /\ run'[r].db = p.db
      BY <1>2, <2>2 DEF Process
    <3> QED BY <1>2, <2>2, <3>1 DEF Complete, Final
  <2> QED BY <2>1, <2>2
<1> QED BY <1>2, <1>3, LocalComplete

\* Every step keeps the day complete.
LEMMA CompleteStep ==
  ASSUME DayInv, [Next]_vars
  PROVE  \A o \in Runs : Complete(o)'
<1> DEFINE Goal == \A o \in Runs : Complete(o)'
<1>1. /\ KeptInv /\ TypeOK /\ now \in Nat /\ now <= End
      /\ \A r \in Runs : run[r] \in Process /\ Complete(r)
  BY SessionAssumption DEF DayInv, KeptInv, TypeOK
<1>2. Known(branch.slots, branch'.slots)
  BY <1>1, KeptStep
<1>3. CASE UNCHANGED vars
  BY <1>1, <1>3 DEF vars, Complete
<1>4. CASE Tick
  <2> SUFFICES ASSUME NEW r \in Runs PROVE Complete(r)'
    OBVIOUS
  <2>1. now' = now + 1 /\ now < End /\ run' = run /\ branch' = branch /\ ~Busy(r)
    BY <1>4 DEF Tick
  <2>2. ASSUME run[r].stage = "working", run[r].phase = "b", now' >= End
        PROVE  Accounted(run[r].db)
    <3>1. InLoop(r) /\ MissedSlots(run[r].db, run[r].phase) = {}
      BY <2>1, <2>2 DEF Busy, InLoop, PhaseEnd
    <3>2. \A s \in Slots : s + Grace < now
      BY <1>1, <2>1, <2>2, SessionAssumption
    <3> QED BY <3>1, <3>2 DEF MissedSlots, Accounted
  <2>3. run[r].stage = "ticking" => now < run[r].since + MaxTick /\ run[r].since \in Nat
    BY <1>1, <2>1, SessionAssumption DEF Busy, Process
  <2>4. Complete(r)
    BY <1>1
  <2>5. run'[r].stage = "working" /\ run'[r].phase = "b" /\ now' >= End => Accounted(run'[r].db)
    BY <2>1, <2>2
  <2>6. run'[r].stage = "ticking" /\ run'[r].phase = "b" =>
          /\ run'[r].since <= now' /\ now' <= run'[r].since + MaxTick
          /\ \A s \in Slots : s + Grace < run'[r].since => run'[r].db[s] # "none"
    BY <1>1, <2>1, <2>3, <2>4, SessionAssumption DEF Complete
  <2>7. run'[r].stage = "ended" => Accounted(branch'.slots)
    BY <2>1, <2>4 DEF Complete
  <2> QED BY <2>5, <2>6, <2>7 DEF Complete
<1>5. ASSUME NEW r \in Runs,
              \/ Trigger(r) \/ NextJob(r) \/ Crash(r) \/ Prepare(r) \/ HandOff(r)
              \/ \E told \in BOOLEAN : Gate(r, told) \/ StartRefused(r, told)
      PROVE  Goal
  <2>1. now' = now /\ run' = [run EXCEPT ![r] = run'[r]]
    BY <1>1, <1>5 DEF Trigger, NextJob, Crash, Prepare, HandOff, Gate, StartRefused, TypeOK
  <2>2. run'[r].stage \notin {"working", "ticking", "ended"}
    <3>1. CASE Trigger(r) \/ NextJob(r) \/ Crash(r)
      BY <1>1, <3>1 DEF Trigger, NextJob, Crash, TypeOK, Process, Over, Off
    <3>2. CASE Prepare(r)
      BY <1>1, <3>2 DEF Prepare, TypeOK, Process, Over, Off
    <3>3. CASE HandOff(r)
      BY <1>1, <3>3 DEF HandOff, TypeOK, Off
    <3>4. CASE \E told \in BOOLEAN : Gate(r, told) \/ StartRefused(r, told)
      BY <1>1, <3>4 DEF Gate, StartRefused, TypeOK, Process, Over, Off
    <3> QED BY <1>5, <3>1, <3>2, <3>3, <3>4
  <2>3. Complete(r)'
    BY <2>2 DEF Complete
  <2> QED BY <1>2, <2>1, <2>3, LocalComplete
<1>6. ASSUME NEW r \in Runs, NEW told \in BOOLEAN, Start(r, told) PROVE Goal
  <2>1. PICK full : \E p \in Process :
          /\ Publish(r, p, full)
          /\ p.stage \in {"refused", "stopped"} \/ (p.stage = "working" /\ now < PhaseEnd(p.phase))
    BY <1>1, <1>6, StartFacts
  <2>2. PICK p \in Process :
          /\ Publish(r, p, full)
          /\ p.stage \in {"refused", "stopped"} \/ (p.stage = "working" /\ now < PhaseEnd(p.phase))
    BY <2>1
  <2>3. p.stage = "working" /\ p.phase = "b" => ~(now >= End)
    BY <1>1, <2>2, SessionAssumption DEF PhaseEnd
  <2>4. p.stage \in {"working", "closing", "stopped", "refused"}
    BY <2>2
  <2>5. Publish(r, p, full)
    BY <2>2
  <2> QED BY <1>2, <2>3, <2>4, <2>5, PublishComplete
<1>7. ASSUME NEW r \in Runs, Heartbeat(r) PROVE Goal
  <2>1. Publish(r, run[r], FALSE) /\ run[r].stage = "working" /\ Complete(r)
    BY <1>1, <1>7 DEF Heartbeat, InLoop
  <2> QED BY <1>1, <1>2, <2>1, PublishComplete DEF Complete
<1>8. ASSUME NEW r \in Runs, Turn(r) PROVE Goal
  <2> DEFINE p == Turned(r)
  <2>1. /\ p \in Process /\ p.stage \in {"working", "ticking"} /\ p.phase = run[r].phase
        /\ p.stage = "ticking" => p.since = now
        /\ now < PhaseEnd(run[r].phase) /\ Known(run[r].db, p.db)
        /\ \A s \in MissedSlots(run[r].db, run[r].phase) : p.db[s] = "MISSED"
        /\ \/ Publish(r, p, TRUE)
           \/ run' = [run EXCEPT ![r] = p] /\ UNCHANGED <<now, branch>>
    BY <1>1, <1>8, TurnFacts
  <2> HIDE DEF p
  <2>2. \A s \in Slots : s + Grace < now => p.db[s] # "none"
    BY <2>1 DEF MissedSlots, Known
  <2>3. /\ now' = now /\ run' = [run EXCEPT ![r] = run'[r]]
        /\ run'[r].stage = p.stage /\ run'[r].phase = p.phase
        /\ run'[r].db = p.db /\ run'[r].since = p.since
    <3>1. CASE Publish(r, p, TRUE)
      <4>1. /\ now' = now /\ run' = [run EXCEPT ![r] = run'[r]]
            /\ p.stage \notin Final => run'[r] = [p EXCEPT !.files = branch', !.beat = now + Beat]
        BY <1>1, <2>1, <3>1, PublishFacts
      <4> QED BY <2>1, <4>1 DEF Final, Process
    <3>2. CASE run' = [run EXCEPT ![r] = p] /\ UNCHANGED <<now, branch>>
      BY <1>1, <3>2 DEF TypeOK
    <3> QED BY <2>1, <3>1, <3>2
  <2>4. p.phase = "b" => ~(now >= End)
    BY <1>1, <2>1, SessionAssumption DEF PhaseEnd
  <2>5. Complete(r)'
    BY <1>1, <2>1, <2>2, <2>3, <2>4, SessionAssumption DEF Complete
  <2> QED BY <1>2, <2>3, <2>5, LocalComplete
<1>9. ASSUME NEW r \in Runs,
             (\E status \in Statuses : TickReturns(r, status)) \/ (\E ran \in BOOLEAN : TickRaises(r, ran))
      PROVE  Goal
  <2>1. run[r].stage = "ticking" /\ Complete(r) /\ run[r].since \in Nat
    BY <1>1, <1>9, TickFacts DEF Process
  <2>2. PICK p \in Process :
          /\ Publish(r, p, TRUE) /\ p.stage \in {"working", "stopped"}
          /\ p.phase = run[r].phase /\ Known(run[r].db, p.db)
    BY <1>1, <1>9, TickFacts
  <2>3. ASSUME p.phase = "b", now >= End PROVE Accounted(p.db)
    <3>1. now <= run[r].since + MaxTick
          /\ \A s \in Slots : s + Grace < run[r].since => run[r].db[s] # "none"
      BY <2>1, <2>2, <2>3 DEF Complete
    <3>2. \A s \in Slots : s + Grace < run[r].since
      BY <1>1, <2>1, <2>3, <3>1, SessionAssumption
    <3> QED BY <2>2, <3>1, <3>2 DEF Accounted, Known
  <2>4. Publish(r, p, TRUE) /\ p.stage \in {"working", "closing", "stopped", "refused"}
    BY <2>2
  <2> QED BY <1>2, <2>3, <2>4, PublishComplete
<1>10. ASSUME NEW r \in Runs, Finish(r) PROVE Goal
  <2>1. run[r].stage = "working" /\ now >= PhaseEnd(run[r].phase) /\ Complete(r)
        /\ run[r].phase \in {"a", "b"}
    BY <1>1, <1>10, FinishFacts DEF Process
  <2>2. PICK p \in Process :
          /\ Publish(r, p, TRUE) /\ p.stage = IF run[r].phase = "a" THEN "closing" ELSE "ended"
          /\ p.db = run[r].db
    BY <1>1, <1>10, FinishFacts
  <2>3. CASE run[r].phase = "a"
    BY <1>2, <2>2, <2>3, PublishComplete
  <2>4. CASE run[r].phase = "b"
    <3>1. Accounted(p.db)
      BY <2>1, <2>2, <2>4 DEF Complete, PhaseEnd
    <3>2. Publish(r, p, TRUE) /\ p.stage = "ended" /\ p.stage \in Final
      BY <2>2, <2>4 DEF Final
    <3>3. now' = now /\ run' = [run EXCEPT ![r] = run'[r]] /\ branch'.slots = p.db
      BY <1>1, <3>2, PublishFacts
    <3>4. run'[r] = Over("ended")
      <4>1. p.stage \in Final => run'[r] = Over(p.stage)
        BY <1>1, <3>2, PublishFacts
      <4> QED BY <3>2, <4>1
    <3>5. run'[r].stage = "ended"
      BY <3>4 DEF Over, Off
    <3>6. Complete(r)'
      BY <3>1, <3>3, <3>5 DEF Complete
    <3> QED BY <1>2, <3>3, <3>6, LocalComplete
  <2> QED BY <2>1, <2>3, <2>4
<1> QED BY NextCases, <1>3, <1>4, <1>5, <1>6, <1>7, <1>8, <1>9, <1>10

\* The session that ends in its last phase (SessionRunner.run) leaves a day in which
\* every slot has an outcome on the branch, those of crashed runs included.
THEOREM DayIsAccounted == Spec => []DayAccounted
<1>1. Init => DayInv
  <2> SUFFICES ASSUME Init PROVE DayInv
    OBVIOUS
  <2>1. KeptInv
    BY TypeInit DEF Init, KeptInv, Alone, Worker, Live, Kept, Keeping, Off
  <2> QED BY <2>1 DEF Init, DayInv, Complete, Off
<1>2. DayInv /\ [Next]_vars => DayInv'
  <2> SUFFICES ASSUME DayInv, [Next]_vars PROVE DayInv'
    OBVIOUS
  <2>1. TypeOK' /\ Alone'
    BY TypeStep, AloneStep DEF DayInv, KeptInv
  <2>2. \A r \in Runs : Kept(r)'
    BY KeptStep DEF DayInv
  <2> QED BY <2>1, <2>2, CompleteStep DEF DayInv, KeptInv
<1>3. DayInv => DayAccounted
  BY DEF DayInv, Complete, DayAccounted, Accounted
<1> QED BY <1>1, <1>2, <1>3, PTL DEF Spec

=============================================================================
