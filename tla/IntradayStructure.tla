-------------------------- MODULE IntradayStructure --------------------------
(***************************************************************************)
(* How the stored retest structure of one symbol and session comes about   *)
(* (orchestration/service.py): live bars are recorded as they close, and   *)
(* backfills fetch confirmed bars, mark them as covered and recompute.     *)
(* Each writer works in a database transaction of its own: it writes its   *)
(* bars, reads all bars it can see, then (live bars only) the coverage,    *)
(* and commits the structure it computed from them.  Transactions are read *)
(* committed: a statement sees what others committed before it.            *)
(*                                                                         *)
(* An operator whose name ends in Slip is not part of the model: it is a   *)
(* mistake the definition after it could contain, kept to show that the    *)
(* properties would notice it.                                             *)
(***************************************************************************)
EXTENDS IntradayRules

CONSTANTS
  Bars,       \* the bars minute m can have, per minute
  Backfills,  \* the backfilling tasks: the monitor's loop, a bootstrap
  Lag,        \* historical_lag_minutes: SIP bars are asked for that late
  MaxFetches  \* bound of the model: fetches of all backfills

Writers == {"live"} \cup Backfills

ASSUME PipelineAssumption == "live" \notin Backfills /\ {Lag, MaxFetches} \subseteq Nat
\* _intraday_bar_record refuses a price that is not positive.
ASSUME BarsAssumption == \A m \in Minutes : Bars[m] \subseteq BarType

VARIABLES
  clock,      \* minutes of the session that have passed
  table,      \* intraday_bars: per minute the IEX and the SIP row
  coverage,   \* intraday_sip_confirmed_through
  structure,  \* the stored structure
  writer,     \* per writer: its transaction
  fetches,    \* counts towards MaxFetches
  alone       \* something is stored, and nothing was committed while its writer read

vars == <<clock, table, coverage, structure, writer, fetches, alone>>

NoRow  == [iex |-> NoBar, sip |-> NoBar]
Absent == [m \in Minutes |-> NoBar]

\* stage; the bars and the coverage it writes; the bars it read; the structure it
\* computed; whether another writer has committed since it read.
Idle == [stage |-> "idle", bars |-> Absent, covers |-> 0, rows |-> Absent, result |-> Blank, missed |-> FALSE]

\* _merged_bars: a SIP row wins over the IEX row of its minute.
Merged(rows) == [m \in Minutes |-> IF rows[m].sip # NoBar THEN rows[m].sip ELSE rows[m].iex]

\* The table with the bars of t's transaction, which t sees before it commits.
Written(t) ==
  [m \in Minutes |->
     IF writer[t].bars[m] = NoBar THEN table[m]
     ELSE IF t = "live" THEN [table[m] EXCEPT !.iex = writer[t].bars[m]]
     ELSE [table[m] EXCEPT !.sip = writer[t].bars[m]]]
VisibleSlip(t) == table
Visible(t)     == Written(t)

Covered(t) == IF t = "live" THEN coverage ELSE writer[t].covers

-----------------------------------------------------------------------------
MinutePasses ==
  /\ clock < Length
  /\ clock' = clock + 1
  /\ UNCHANGED <<table, coverage, structure, writer, fetches, alone>>

\* record_intraday_bar: the IEX bar of a closed minute, sent again perhaps; it comes
\* before the historical bars of its minute are asked for.
LiveBar(m, bar) ==
  /\ writer["live"].stage = "idle" /\ m < clock /\ clock <= m + Lag /\ table[m].iex \in {NoBar, bar}
  /\ writer' = [writer EXCEPT !["live"] = [Idle EXCEPT !.stage = "written", !.bars[m] = bar]]
  /\ UNCHANGED <<clock, table, coverage, structure, fetches, alone>>

\* backfill_intraday_structures fetches the bars of the confirmed minutes, before its
\* transaction; the tape it gets agrees with the SIP rows stored before.
Fetch(t, through, tape) ==
  /\ writer[t].stage = "idle" /\ fetches < MaxFetches
  /\ through > 0 /\ through + Lag <= clock
  /\ \A m \in Minutes : /\ m >= through => tape[m] = NoBar
                        /\ table[m].sip # NoBar /\ m < through => tape[m] = table[m].sip
  /\ writer' = [writer EXCEPT ![t] = [Idle EXCEPT !.stage = "fetched", !.bars = tape, !.covers = through]]
  /\ fetches' = fetches + 1
  /\ UNCHANGED <<clock, table, coverage, structure, alone>>

\* The backfill's transaction begins and writes its bars and its coverage.
WriteFetched(t) ==
  /\ writer[t].stage = "fetched"
  /\ writer' = [writer EXCEPT ![t].stage = "written"]
  /\ UNCHANGED <<clock, table, coverage, structure, fetches, alone>>

\* list_intraday_bars.
ReadRows(t) ==
  /\ writer[t].stage = "written"
  /\ writer' = [writer EXCEPT ![t].stage = "read", ![t].missed = FALSE, ![t].rows = Merged(Visible(t))]
  /\ UNCHANGED <<clock, table, coverage, structure, fetches, alone>>

\* A live bar reads the coverage after the rows; the structure is computed.
Compute(t) ==
  /\ writer[t].stage = "read"
  /\ writer' = [writer EXCEPT ![t].stage = "computed", ![t].rows = Absent,
                              ![t].result = Recompute(writer[t].rows, Covered(t))]
  /\ UNCHANGED <<clock, table, coverage, structure, fetches, alone>>

\* set_runtime_status and the commit: the last one to commit wins.
Commit(t) ==
  /\ writer[t].stage = "computed"
  /\ table' = Written(t)
  /\ coverage' = IF t = "live" THEN coverage ELSE writer[t].covers
  /\ structure' = writer[t].result
  /\ alone' = ~writer[t].missed
  /\ writer' = [w \in Writers |-> IF w = t THEN Idle ELSE
                   [writer[w] EXCEPT !.missed = @ \/ writer[w].stage \in {"read", "computed"}]]
  /\ UNCHANGED <<clock, fetches>>

-----------------------------------------------------------------------------
Init ==
  /\ clock = 0
  /\ table = [m \in Minutes |-> NoRow]
  /\ coverage = 0
  /\ structure = Blank
  /\ writer = [t \in Writers |-> Idle]
  /\ fetches = 0
  /\ alone = FALSE

Tapes == {tape \in [Minutes -> (UNION {Bars[m] : m \in Minutes}) \cup {NoBar}] :
            \A m \in Minutes : tape[m] \in Bars[m] \cup {NoBar}}

Next ==
  \/ MinutePasses
  \/ \E m \in Minutes : \E bar \in Bars[m] : LiveBar(m, bar)
  \/ \E t \in Backfills : WriteFetched(t) \/ \E n \in 1..Length, tape \in Tapes : Fetch(t, n, tape)
  \/ \E t \in Writers : ReadRows(t) \/ Compute(t) \/ Commit(t)

Spec == Init /\ [][Next]_vars

-----------------------------------------------------------------------------
(* Properties *)

BarSet     == (UNION {Bars[m] : m \in Minutes}) \cup {NoBar}
StructureType ==
  [state : States, reason : Reasons, breakout : Minutes \cup {None}, retest : Minutes \cup {None},
   orh : Int, orl : Int, seen : 0..Opening, last : Minutes \cup {None}, prev : Int]
WellFormed(s) ==
  /\ s \in StructureType
  /\ s.state \in {"BUILDING_OR", "ARMED"} => s.breakout = None
  /\ s.state = "RETEST_VALID" => s.retest # None

\* The shape of the tables and transactions (record_intraday_bar,
\* backfill_intraday_structures); only a structure that has broken out knows a breakout.
TypeOK ==
  /\ clock \in 0..Length /\ coverage \in 0..clock /\ fetches \in 0..MaxFetches /\ alone \in BOOLEAN
  /\ table \in [Minutes -> [iex : BarSet, sip : BarSet]]
  /\ WellFormed(structure)
  /\ \A t \in Writers :
       /\ writer[t].stage \in {"idle", "fetched", "written", "read", "computed"}
       /\ WellFormed(writer[t].result)
       /\ writer[t].covers \in 0..clock

\* Unless two writers overlapped, the stored structure is the one of the stored bars
\* and coverage: a bar recorded or corrected is never left out of the structure that
\* server_retest answers an activation from.
SettledStructureCurrent == alone => structure = Recompute(Merged(table), coverage)

\* A RETEST_VALID structure has its evidence in the bars (compute_structure): a close
\* from under the opening range's high to above it, closes that stay above it up to a
\* bar inside the window whose low touches it or the VWAP, and no low under the buffer
\* from the breakout to the last bar.
RetestSound ==
  LET bars == Merged(table)
      s    == Recompute(bars, coverage)
      from(m, n) == {k \in m..n : bars[k] # NoBar}
      before(m)  == Max(from(0, m - 1))
  IN  s.state = "RETEST_VALID" =>
        /\ Opening <= s.breakout /\ s.breakout < s.retest /\ s.retest - s.breakout <= Window
        /\ bars[before(s.breakout)].close <= s.orh
        /\ \A k \in from(s.breakout, s.retest) : bars[k].close > s.orh
        /\ Touches(s, bars[s.retest])
        /\ \A k \in from(s.breakout + 1, Length - 1) : ~FailedBreakout(s, bars[k].low)

\* Replay, batch and the continuous path produce the same state: on bars without a gap
\* in an opening range that has a width, compute_structure and the bar-by-bar update_intraday_structure
\* agree on state, breakout and retest.
StreamAgrees ==
  LET bars == Merged(table)
      a    == Recompute(bars, coverage)
      b    == Streamed(bars)
  IN  (\A m \in 0..(Opening - 1) : bars[m] # NoBar) /\ a.orh > a.orl =>
        a.state = b.state /\ a.breakout = b.breakout /\ a.retest = b.retest

\* A backfill that completes the opening range arms the structure
\* (tests/test_intraday_bars.py): with every opening minute stored and no writer at
\* work, the structure does not call the opening range confirmed empty.
BackfillArms ==
  /\ \A m \in 0..(Opening - 1) : Merged(table)[m] # NoBar
  /\ \A t \in Writers : writer[t].stage = "idle"
  => structure.reason # "OPENING_RANGE_CONFIRMED_EMPTY"
=============================================================================
