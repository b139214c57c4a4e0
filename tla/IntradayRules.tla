---------------------------- MODULE IntradayRules ----------------------------
(***************************************************************************)
(* The intraday retest machine (engines/intraday.py) as pure operators on  *)
(* the one-minute bars of one symbol and session: compute_structure, which *)
(* recomputes the structure from all bars, and update_intraday_structure,  *)
(* which moves it by one bar.                                              *)
(*                                                                         *)
(* Minutes count from the session start.  Prices are integers; a bar says  *)
(* whether its low touches the running VWAP (onVwap), so the VWAP itself   *)
(* is left out.  The touch tolerance is an absolute width.                 *)
(* An operator whose name ends in Slip is a mistake the definition after   *)
(* it could contain; it is not part of the model.                          *)
(***************************************************************************)
EXTENDS Integers, FiniteSets, FiniteSetsExt

CONSTANTS
  Length,    \* minutes modelled
  Opening,   \* intraday_opening_range_minutes
  Window,    \* retest_window_minutes
  Touch,     \* width of retest_touch_tolerance_pct at the ORH
  BufferPct  \* retest_invalidation_buffer_r, in percent of the range

Minutes == 0..(Length - 1)
None    == -1  \* of a price or a minute

ASSUME RulesAssumption ==
  /\ {Length, Opening} \subseteq Nat \ {0} /\ Opening < Length
  /\ {Window, Touch, BufferPct} \subseteq Nat

States == {"BUILDING_OR", "ARMED", "BREAKOUT_SEEN", "RETEST_VALID", "INVALID"}
Reasons == {"none", "RANGE_BREAKDOWN", "RETEST_INVALIDATED_BELOW_ORH_BUFFER", "SERVER_RETEST_VALID",
            "ORH_BREAKOUT_CONFIRMED", "RETEST_WINDOW_EXPIRED", "RETEST_CLOSE_BELOW_ORH",
            "RETEST_WINDOW_OPEN", "OPENING_RANGE_ESTABLISHED", "OPENING_RANGE_CONFIRMED_EMPTY",
            "OPENING_RANGE_WAITING_FOR_SIP", "OPENING_RANGE_INVALID", "OPENING_RANGE_INCOMPLETE"}
BarType == [high : Nat \ {0}, low : Nat \ {0}, close : Nat \ {0}, onVwap : BOOLEAN]
NoBar  == [high |-> None, low |-> None, close |-> None, onVwap |-> FALSE]
Blank  == [state |-> "BUILDING_OR", reason |-> "none", breakout |-> None, retest |-> None,
           orh |-> None, orl |-> None, seen |-> 0, last |-> None, prev |-> None]

Invalid(s, why) == [s EXCEPT !.state = "INVALID", !.reason = why]

-----------------------------------------------------------------------------
(* Steps both ways of computing share *)

Breakdown(s, low)       == 100 * low < 100 * s.orl - BufferPct * (s.orh - s.orl)
FailedBreakout(s, low)  == 100 * low < 100 * s.orh - BufferPct * (s.orh - s.orl)
\* _structure_invalidation_reason, "none" if the bar is harmless.
InvalidationReasonSlip(s, low) ==
  IF s.state = "ARMED" /\ Breakdown(s, low) THEN "RANGE_BREAKDOWN"
  ELSE IF s.state = "BREAKOUT_SEEN" /\ FailedBreakout(s, low)
       THEN "RETEST_INVALIDATED_BELOW_ORH_BUFFER" ELSE "none"
InvalidationReason(s, low) ==
  IF s.state = "ARMED" /\ Breakdown(s, low) THEN "RANGE_BREAKDOWN"
  ELSE IF s.state \in {"BREAKOUT_SEEN", "RETEST_VALID"} /\ FailedBreakout(s, low)
       THEN "RETEST_INVALIDATED_BELOW_ORH_BUFFER" ELSE "none"

Touches(s, bar) == bar.onVwap \/ (s.orh - bar.low <= Touch /\ bar.low - s.orh <= Touch)
RearmedSlip(s, why) == [s EXCEPT !.state = "ARMED", !.reason = why]
Rearmed(s, why) == [s EXCEPT !.state = "ARMED", !.breakout = None, !.reason = why]
Retested(s, m)  == [s EXCEPT !.state = "RETEST_VALID", !.retest = m, !.reason = "SERVER_RETEST_VALID"]
BrokenOut(s, m) == [s EXCEPT !.state = "BREAKOUT_SEEN", !.breakout = m, !.reason = "ORH_BREAKOUT_CONFIRMED"]

-----------------------------------------------------------------------------
(* compute_structure *)

\* One bar after the opening range; prev is the close of the bar before it.
RecomputeStep(s, m, bar) ==
  LET why == InvalidationReason(s, bar.low)
      t == [s EXCEPT !.last = m, !.prev = bar.close]
  IN  IF s.state = "INVALID" THEN s
      ELSE IF why # "none" THEN Invalid(t, why)
      ELSE IF s.state = "RETEST_VALID" THEN t
      ELSE IF s.state = "BREAKOUT_SEEN"
      THEN IF m - s.breakout > Window THEN Rearmed(t, "RETEST_WINDOW_EXPIRED")
           ELSE IF bar.close <= s.orh THEN Rearmed(t, "RETEST_CLOSE_BELOW_ORH")
           ELSE IF Touches(s, bar) THEN Retested(t, m)
           ELSE [t EXCEPT !.reason = "RETEST_WINDOW_OPEN"]
      ELSE IF s.prev # None /\ s.prev <= s.orh /\ bar.close > s.orh THEN BrokenOut(t, m) ELSE t

\* The bars are a function on Minutes with NoBar for the missing ones.
Present(bars)   == {m \in Minutes : bars[m] # NoBar}
OpeningMinutes  == 0..(Opening - 1)
InOpening(bars) == OpeningMinutes \cap Present(bars)
RangeOf(bars) ==
  [Blank EXCEPT
     !.seen = Cardinality(InOpening(bars)),
     !.orh = IF InOpening(bars) = {} THEN None ELSE Max({bars[m].high : m \in InOpening(bars)}),
     !.orl = IF InOpening(bars) = {} THEN None ELSE Min({bars[m].low : m \in InOpening(bars)})]
Established(bars) ==
  [RangeOf(bars) EXCEPT !.state = "ARMED", !.reason = "OPENING_RANGE_ESTABLISHED",
                      !.last = Opening - 1, !.prev = bars[Opening - 1].close]

\* The loop over the bars: the structure before each minute from the opening range on.
Walk(bars) ==
  LET upTo[m \in Opening..Length] ==
        IF m = Opening THEN Established(bars)
        ELSE IF bars[m - 1] # NoBar THEN RecomputeStep(upTo[m - 1], m - 1, bars[m - 1])
        ELSE upTo[m - 1]
  IN  upTo

\* The structure of the bars; minutes before confirmed are known to be complete.
Recompute(bars, confirmed) ==
  LET there   == Present(bars)
      missing == OpeningMinutes \ there
      range   == RangeOf(bars)
      ends    == [range EXCEPT !.last = Max(there), !.prev = bars[Max(there)].close]
  IN  IF missing # {}
      THEN LET s == IF there = {} THEN range ELSE ends
           IN  IF \E m \in missing : m < confirmed
               THEN Invalid(s, "OPENING_RANGE_CONFIRMED_EMPTY")
               ELSE [s EXCEPT !.reason = "OPENING_RANGE_WAITING_FOR_SIP"]
      ELSE IF range.orh <= range.orl THEN Invalid(range, "OPENING_RANGE_INVALID")
      ELSE Walk(bars)[Length]

-----------------------------------------------------------------------------
(* update_intraday_structure *)

\* A bar of the opening range: only the next missing minute is accepted.
OpeningStep(s, m, bar) ==
  LET t == [s EXCEPT !.last = m, !.prev = bar.close]
      grown == [t EXCEPT !.seen = @ + 1,
                         !.orh = IF @ = None \/ bar.high > @ THEN bar.high ELSE @,
                         !.orl = IF @ = None \/ bar.low < @ THEN bar.low ELSE @]
  IN  IF m # s.seen THEN Invalid(t, "OPENING_RANGE_INCOMPLETE")
      ELSE IF grown.seen = Opening
      THEN [grown EXCEPT !.state = "ARMED", !.reason = "OPENING_RANGE_ESTABLISHED"]
      ELSE grown

\* A bar in a running retest window.
WindowStepSlip(s, m, bar) ==
  IF Touches(s, bar) THEN Retested(s, m)
  ELSE IF bar.close <= s.orh THEN Rearmed(s, "RETEST_CLOSE_BELOW_ORH")
  ELSE [s EXCEPT !.reason = "RETEST_WINDOW_OPEN"]
WindowStep(s, m, bar) ==
  IF Touches(s, bar) /\ bar.close > s.orh THEN Retested(s, m)
  ELSE IF bar.close <= s.orh THEN Rearmed(s, "RETEST_CLOSE_BELOW_ORH")
  ELSE [s EXCEPT !.reason = "RETEST_WINDOW_OPEN"]

Update(s, m, bar) ==
  LET t == [s EXCEPT !.last = m, !.prev = bar.close]
      why == InvalidationReason(s, bar.low)
  IN  IF s.last # None /\ m <= s.last THEN s
      ELSE IF m < Opening THEN OpeningStep(s, m, bar)
      ELSE IF s.state = "INVALID" THEN t
      ELSE IF s.seen < Opening THEN Invalid(t, "OPENING_RANGE_INCOMPLETE")
      ELSE IF s.orh <= s.orl THEN Invalid(t, "OPENING_RANGE_INVALID")
      ELSE IF why # "none" THEN Invalid(t, why)
      ELSE IF s.state = "RETEST_VALID" THEN t
      ELSE IF s.state = "BREAKOUT_SEEN"
      THEN IF m - s.breakout > Window THEN Rearmed(t, "RETEST_WINDOW_EXPIRED")
           ELSE WindowStep(t, m, bar)
      ELSE IF s.state = "ARMED" /\ s.prev # None /\ s.prev <= s.orh /\ bar.close > s.orh THEN BrokenOut(t, m) ELSE t

\* The structure before each minute, with the bars in the order of their minutes.
Stream(bars) ==
  LET upTo[m \in 0..Length] ==
        IF m = 0 THEN Blank
        ELSE IF bars[m - 1] # NoBar THEN Update(upTo[m - 1], m - 1, bars[m - 1])
        ELSE upTo[m - 1]
  IN  upTo
Streamed(bars) == Stream(bars)[Length]

=============================================================================
