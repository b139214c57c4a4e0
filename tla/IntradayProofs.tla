---------------------------- MODULE IntradayProofs ----------------------------
(***************************************************************************)
(* Theorems about the intraday retest structure, for any bars, any number  *)
(* of backfilling tasks and fetches and any length of the session.  What   *)
(* compute_structure computes from a tape of bars: a valid retest has its  *)
(* evidence in the bars, and update_intraday_structure comes to the same   *)
(* bar by bar.  How the stored structure comes about: unless two           *)
(* transactions overlapped, it is the structure of the stored bars, and    *)
(* never calls a full opening range empty.                                 *)
(*                                                                         *)
(* The loops over the bars are recursive functions; what they do is proved *)
(* by induction over the minutes (IntervalInduction of Foundations).       *)
(***************************************************************************)
EXTENDS IntradayStructure, Foundations, TLAPS

-----------------------------------------------------------------------------
(* Structures and tapes *)

AnyTape == [Minutes -> BarType \cup {NoBar}]
Forms   == {s \in StructureType : WellFormed(s)}

LEMMA BarTypes ==
  ASSUME NEW bars \in AnyTape, NEW m \in Minutes
  PROVE  /\ bars[m].high \in Int /\ bars[m].low \in Int /\ bars[m].close \in Int /\ bars[m].onVwap \in BOOLEAN
         /\ bars[m] # NoBar => bars[m] \in BarType
         /\ bars[m] \in BarType => bars[m] # NoBar /\ bars[m].close # None
<1>1. CASE bars[m] = NoBar
  BY <1>1 DEF BarType, NoBar, None
<1>2. CASE bars[m] \in BarType
  BY <1>2 DEF BarType, NoBar, None
<1> QED BY <1>1, <1>2 DEF AnyTape

LEMMA BlankForm == Blank \in Forms
BY RulesAssumption DEF Blank, Forms, WellFormed, StructureType, States, Reasons, None

\* The opening range of any tape, all of whose prices are numbers.
LEMMA RangeFacts ==
  ASSUME NEW bars \in AnyTape
  PROVE  /\ RangeOf(bars) \in Forms
         /\ RangeOf(bars).state = "BUILDING_OR"
         /\ RangeOf(bars).breakout = None /\ RangeOf(bars).retest = None
         /\ InOpening(bars) # {} =>
              /\ RangeOf(bars).orh = Max({bars[m].high : m \in InOpening(bars)})
              /\ RangeOf(bars).orl = Min({bars[m].low : m \in InOpening(bars)})
<1> DEFINE In == InOpening(bars)
           highs == {bars[m].high : m \in In}
           lows == {bars[m].low : m \in In}
<1>1. In \subseteq Minutes /\ In \subseteq 0..(Opening - 1)
  BY DEF InOpening, Present, OpeningMinutes
<1>2. IsFiniteSet(In) /\ Cardinality(In) \in 0..Opening
  <2>1. IsFiniteSet(0..(Opening - 1)) /\ Cardinality(0..(Opening - 1)) = Opening
    <3>1. 0 \in Int /\ Opening - 1 \in Int /\ 0 <= Opening - 1 /\ ((Opening - 1) - 0) + 1 = Opening
      BY RulesAssumption
    <3> QED BY <3>1, FS_Interval
  <2>2. IsFiniteSet(In) /\ Cardinality(In) <= Opening
    BY <1>1, <2>1, FS_Subset
  <2>3. Cardinality(In) \in Nat
    BY <2>2, FS_CardinalityType
  <2> QED BY <2>2, <2>3, RulesAssumption
<1> HIDE DEF In
<1>3. highs \in SUBSET Int /\ lows \in SUBSET Int
  BY <1>1, BarTypes
<1>4. IsFiniteSet(highs) /\ IsFiniteSet(lows)
  <2> DEFINE f == [m \in In |-> bars[m].high]
             g == [m \in In |-> bars[m].low]
  <2>1. f \in Surjection(In, highs) /\ g \in Surjection(In, lows)
    BY DEF Surjection
  <2> HIDE DEF f, g, highs, lows
  <2> QED BY <1>2, <2>1, FS_Surjection
<1>5. In # {} => highs # {} /\ lows # {}
  OBVIOUS
<1> HIDE DEF highs, lows
<1>6. In # {} => Max(highs) \in Int /\ Min(lows) \in Int
  BY <1>3, <1>4, <1>5, MaxFacts, MinFacts
<1>7. RangeOf(bars) = [Blank EXCEPT !.seen = Cardinality(In),
                                    !.orh = IF In = {} THEN None ELSE Max(highs),
                                    !.orl = IF In = {} THEN None ELSE Min(lows)]
  BY DEF RangeOf, In, highs, lows
<1>8. None \in Int
  BY DEF None
<1> DEFINE high == IF In = {} THEN None ELSE Max(highs)
           low == IF In = {} THEN None ELSE Min(lows)
           n == Cardinality(In)
<1>9. high \in Int /\ low \in Int /\ n \in 0..Opening
  BY <1>2, <1>6, <1>8
<1>10. RangeOf(bars) = [Blank EXCEPT !.seen = n, !.orh = high, !.orl = low]
  BY <1>7
<1>11. In # {} => high = Max(highs) /\ low = Min(lows)
  OBVIOUS
<1> HIDE DEF high, low, n
<1>12. /\ RangeOf(bars) \in Forms
       /\ RangeOf(bars).state = "BUILDING_OR"
       /\ RangeOf(bars).breakout = None /\ RangeOf(bars).retest = None
       /\ RangeOf(bars).orh = high /\ RangeOf(bars).orl = low
  <2>1. RangeOf(bars) = [state |-> "BUILDING_OR", reason |-> "none", breakout |-> None, retest |-> None,
                         orh |-> high, orl |-> low, seen |-> n, last |-> None, prev |-> None]
    BY <1>10 DEF Blank
  <2> QED BY <1>8, <1>9, <2>1 DEF Forms, WellFormed, StructureType, States, Reasons
<1> QED BY <1>11, <1>12 DEF In, highs, lows

LEMMA EstablishedFacts ==
  ASSUME NEW bars \in AnyTape
  PROVE  /\ Established(bars) \in Forms
         /\ Established(bars).state = "ARMED"
         /\ Established(bars).breakout = None /\ Established(bars).retest = None
         /\ Established(bars).last = Opening - 1 /\ Established(bars).prev = bars[Opening - 1].close
         /\ Established(bars).orh = RangeOf(bars).orh /\ Established(bars).orl = RangeOf(bars).orl
<1>1. Opening - 1 \in Minutes
  BY RulesAssumption DEF Minutes
<1>2. bars[Opening - 1].close \in Int
  BY <1>1, BarTypes
<1> QED BY <1>1, <1>2, RangeFacts DEF Established, Forms, WellFormed, StructureType, States, Reasons, None

LEMMA RecomputeStepForm ==
  ASSUME NEW s \in Forms, NEW m \in Minutes, NEW bar \in BarType
  PROVE  RecomputeStep(s, m, bar) \in Forms
<1> DEFINE why == InvalidationReason(s, bar.low)
           t == [s EXCEPT !.last = m, !.prev = bar.close]
<1>1. bar.close \in Int /\ why \in Reasons /\ None \in Int
  BY DEF BarType, InvalidationReason, Reasons, None
<1>2. t \in Forms /\ t.breakout = s.breakout /\ t.state = s.state /\ t.retest = s.retest
  BY <1>1 DEF Forms, WellFormed, StructureType
<1>3. m # None
  BY RulesAssumption DEF Minutes, None
<1> DEFINE r == RecomputeStep(s, m, bar)
<1>4. \/ r = s
      \/ r = t
      \/ r = Invalid(t, why)
      \/ r = Rearmed(t, "RETEST_WINDOW_EXPIRED") \/ r = Rearmed(t, "RETEST_CLOSE_BELOW_ORH")
      \/ r = Retested(t, m)
      \/ r = [t EXCEPT !.reason = "RETEST_WINDOW_OPEN"]
      \/ r = BrokenOut(t, m)
  BY DEF RecomputeStep
<1> HIDE DEF r, t, why
<1>5. Invalid(t, why) \in Forms
  BY <1>1, <1>2 DEF Invalid, Forms, WellFormed, StructureType, States
<1>6. \A w \in Reasons : Rearmed(t, w) \in Forms
  BY <1>1, <1>2 DEF Rearmed, Forms, WellFormed, StructureType, States
<1>7. Retested(t, m) \in Forms /\ BrokenOut(t, m) \in Forms
  <2>1. Retested(t, m) \in StructureType /\ BrokenOut(t, m) \in StructureType
    BY <1>2 DEF Retested, BrokenOut, Forms, StructureType, States, Reasons
  <2>2. WellFormed(Retested(t, m)) /\ WellFormed(BrokenOut(t, m))
    BY <1>2, <1>3, <2>1 DEF Retested, BrokenOut, Forms, WellFormed, StructureType
  <2> QED BY <2>1, <2>2 DEF Forms
<1>8. [t EXCEPT !.reason = "RETEST_WINDOW_OPEN"] \in Forms
  BY <1>2 DEF Forms, WellFormed, StructureType, Reasons
<1>9. "RETEST_WINDOW_EXPIRED" \in Reasons /\ "RETEST_CLOSE_BELOW_ORH" \in Reasons
  BY DEF Reasons
<1> QED BY <1>2, <1>4, <1>5, <1>6, <1>7, <1>8, <1>9 DEF r

\* One step of the loop over the bars.
Walked(bars, s, m) == IF bars[m] # NoBar THEN RecomputeStep(s, m, bars[m]) ELSE s

\* The recursion of the loop has a solution, so Walk satisfies its own equation.
LEMMA WalkFacts ==
  ASSUME NEW bars \in AnyTape
  PROVE  /\ Walk(bars) \in [Opening..Length -> Forms]
         /\ Walk(bars)[Opening] = Established(bars)
         /\ \A m \in (Opening + 1)..Length : Walk(bars)[m] = Walked(bars, Walk(bars)[m - 1], m - 1)
<1> DEFINE D == Opening..Length
           E == (Opening + 1)..Length
           body(f) == [m \in D |-> IF m = Opening THEN Established(bars)
                                   ELSE IF bars[m - 1] # NoBar THEN RecomputeStep(f[m - 1], m - 1, bars[m - 1])
                                   ELSE f[m - 1]]
           step == [m \in E |-> [s \in Forms |-> Walked(bars, s, m - 1)]]
<1>1. Opening \in Int /\ Length \in Int /\ Opening <= Length /\ Opening \in D
  BY RulesAssumption
<1>2. ASSUME NEW m \in E, NEW s \in Forms
      PROVE  Walked(bars, s, m - 1) \in Forms
  <2>1. m - 1 \in Minutes
    BY RulesAssumption DEF Minutes
  <2> QED BY <2>1, BarTypes, RecomputeStepForm DEF Walked
<1>3. step \in Steps(Opening, Length, Forms)
  BY <1>2 DEF Steps
<1>4. Established(bars) \in Forms
  BY EstablishedFacts
<1>5. PICK g \in [D -> Forms] : Recurs(g, Opening, Length, Established(bars), step)
  <2> HIDE DEF step
  <2> QED BY <1>1, <1>3, <1>4, IntervalRecursion
<1>6. \A m \in D : m # Opening => m \in E /\ m - 1 \in D
  BY <1>1
<1>7. g = body(g)
  <2>1. ASSUME NEW m \in D
        PROVE  g[m] = body(g)[m]
    <3>1. CASE m = Opening
      BY <1>5, <3>1 DEF Recurs
    <3>2. CASE m # Opening
      <4>1. m \in E /\ g[m - 1] \in Forms
        BY <1>6, <3>2
      <4>2. g[m] = Walked(bars, g[m - 1], m - 1)
        <5>1. step[m] = [s \in Forms |-> Walked(bars, s, m - 1)]
          BY <4>1
        <5>2. g[m] = step[m][g[m - 1]]
          BY <1>5, <4>1 DEF Recurs
        <5> QED BY <4>1, <5>1, <5>2
      <4> QED BY <3>2, <4>2 DEF Walked
    <3> QED BY <3>1, <3>2
  <2> QED BY <2>1
<1>8. Walk(bars) = CHOOSE f : f = body(f)
  BY DEF Walk
<1> DEFINE w == Walk(bars)
<1>9. w = body(w)
  <2> HIDE DEF body
  <2> QED BY <1>7, <1>8
<1> HIDE DEF w
<1>10. w[Opening] = Established(bars)
  BY <1>1, <1>9
<1>11. ASSUME NEW m \in E
       PROVE  w[m] = Walked(bars, w[m - 1], m - 1)
  <2>1. m \in D /\ m # Opening
    BY <1>1
  <2> QED BY <1>9, <2>1 DEF Walked
<1>12. \A m \in D : w[m] \in Forms
  <2> DEFINE T == {m \in D : w[m] \in Forms}
  <2>1. Opening \in T
    BY <1>1, <1>4, <1>10
  <2>2. ASSUME NEW m \in E, m - 1 \in T
        PROVE  m \in T
    BY <1>1, <1>2, <1>11, <2>2
  <2>3. \A m \in E : m - 1 \in T => m \in T
    BY <2>2
  <2> HIDE DEF T
  <2>4. \A m \in D : m \in T
    BY <1>1, <2>1, <2>3, IntervalInduction
  <2> QED BY <2>4 DEF T
<1>13. w \in [D -> Forms]
  BY <1>9, <1>12
<1> QED BY <1>10, <1>11, <1>13 DEF w

\* What is computed from a tape, for any coverage.
LEMMA RecomputeForm ==
  ASSUME NEW bars \in AnyTape, NEW c
  PROVE  Recompute(bars, c) \in Forms
<1> DEFINE range == RangeOf(bars)
           there == Present(bars)
           last  == Max(there)
           ends  == [range EXCEPT !.last = last, !.prev = bars[last].close]
<1>1. range \in Forms /\ range.state = "BUILDING_OR" /\ range.breakout = None
  BY RangeFacts
<1>2. ASSUME there # {}
      PROVE  ends \in Forms
  <2>1. there \in SUBSET Int /\ IsFiniteSet(there)
    <3>1. IsFiniteSet(Minutes)
      BY RulesAssumption, FS_Interval DEF Minutes
    <3>2. there \subseteq Minutes
      BY DEF Present
    <3>3. IsFiniteSet(there)
      <4> HIDE DEF there
      <4> QED BY <3>1, <3>2, FS_Subset
    <3> QED BY <3>2, <3>3 DEF Minutes
  <2>2. last \in there
    <3> HIDE DEF there
    <3> QED BY <1>2, <2>1, MaxFacts
  <2>3. last \in Minutes /\ bars[last].close \in Int
    BY <2>2, BarTypes DEF Present
  <2> HIDE DEF last, range
  <2> QED BY <1>1, <2>3 DEF Forms, WellFormed, StructureType
<1> DEFINE s == IF there = {} THEN range ELSE ends
<1>3. s \in Forms
  BY <1>1, <1>2
<1>4. Walk(bars)[Length] \in Forms
  BY WalkFacts, RulesAssumption
<1>5. \A t \in Forms : \A why \in Reasons : Invalid(t, why) \in Forms
  <2>1. ASSUME NEW t \in Forms, NEW why \in Reasons
        PROVE  Invalid(t, why) \in Forms
    BY DEF Invalid, Forms, WellFormed, StructureType, States
  <2> QED BY <2>1
<1>6. \A t \in Forms : [t EXCEPT !.reason = "OPENING_RANGE_WAITING_FOR_SIP"] \in Forms
  BY DEF Forms, WellFormed, StructureType, Reasons
<1>7. "OPENING_RANGE_CONFIRMED_EMPTY" \in Reasons /\ "OPENING_RANGE_INVALID" \in Reasons
  BY DEF Reasons
<1>8. \/ Recompute(bars, c) = Invalid(s, "OPENING_RANGE_CONFIRMED_EMPTY")
      \/ Recompute(bars, c) = [s EXCEPT !.reason = "OPENING_RANGE_WAITING_FOR_SIP"]
      \/ Recompute(bars, c) = Invalid(range, "OPENING_RANGE_INVALID")
      \/ Recompute(bars, c) = Walk(bars)[Length]
  BY DEF Recompute
<1> HIDE DEF s, range
<1> QED BY <1>1, <1>3, <1>4, <1>5, <1>6, <1>7, <1>8

-----------------------------------------------------------------------------
(* The evidence for a retest *)

\* The bar of minute k is the last one before minute m.
LastBefore(bars, k, m) ==
  k \in 0..(m - 1) /\ bars[k] # NoBar /\ \A j \in (k + 1)..(m - 1) : bars[j] = NoBar

\* A bar of minute b closed over the range e's high, the one before it did not, and no
\* later bar before minute m fell under the buffer.
BrokeOut(bars, e, b, m) ==
  /\ b \in Opening..(m - 1) /\ bars[b] # NoBar /\ bars[b].close > e.orh
  /\ \E k \in Minutes : LastBefore(bars, k, b) /\ bars[k].close <= e.orh
  /\ \A j \in (b + 1)..(m - 1) : bars[j] # NoBar => ~FailedBreakout(e, bars[j].low)

\* No bar from minute b to minute n closed at the high or under it.
HeldAbove(bars, e, b, n) == \A j \in b..n : bars[j] # NoBar => bars[j].close > e.orh

\* The bar of minute r touched the high or the VWAP inside the window of the breakout b.
TouchedAt(bars, e, b, r, m) ==
  /\ r \in (b + 1)..(m - 1) /\ r - b <= Window
  /\ bars[r] # NoBar /\ Touches(e, bars[r]) /\ HeldAbove(bars, e, b, r)

\* What the structure s before minute m says of the bars, e being the opening range.
Evidence(bars, e, s, m) ==
  /\ s.orh = e.orh /\ s.orl = e.orl
  /\ s.state # "BUILDING_OR"
  /\ s.state # "INVALID" => LastBefore(bars, s.last, m) /\ s.prev = bars[s.last].close
  /\ s.state \in {"BREAKOUT_SEEN", "RETEST_VALID"} => BrokeOut(bars, e, s.breakout, m)
  /\ s.state = "BREAKOUT_SEEN" => HeldAbove(bars, e, s.breakout, m - 1)
  /\ s.state = "RETEST_VALID" => TouchedAt(bars, e, s.breakout, s.retest, m)

\* The evidence outlasts a minute without a bar.
LEMMA EvidenceGap ==
  ASSUME NEW bars \in AnyTape, NEW e \in Forms, NEW s \in Forms, NEW m \in Opening..(Length - 1),
         Evidence(bars, e, s, m), bars[m] = NoBar
  PROVE  Evidence(bars, e, s, m + 1)
<1>1. m \in Int /\ (m + 1) - 1 = m /\ Opening \in Nat /\ Length \in Nat
  BY RulesAssumption
<1>2. s.state # "INVALID" => LastBefore(bars, s.last, m + 1)
  BY <1>1 DEF Evidence, LastBefore
<1>3. s.state \in {"BREAKOUT_SEEN", "RETEST_VALID"} => BrokeOut(bars, e, s.breakout, m + 1)
  BY <1>1 DEF Evidence, BrokeOut
<1>4. s.state = "BREAKOUT_SEEN" => HeldAbove(bars, e, s.breakout, (m + 1) - 1)
  BY <1>1 DEF Evidence, HeldAbove, BrokeOut
<1>5. s.state = "RETEST_VALID" => TouchedAt(bars, e, s.breakout, s.retest, m + 1)
  BY <1>1 DEF Evidence, TouchedAt, BrokeOut
<1> QED BY <1>2, <1>3, <1>4, <1>5 DEF Evidence

\* A bar that did no harm leaves the breakout standing.
LEMMA BrokeOutStays ==
  ASSUME NEW bars \in AnyTape, NEW e, NEW b, NEW m \in Opening..(Length - 1),
         BrokeOut(bars, e, b, m), ~FailedBreakout(e, bars[m].low)
  PROVE  BrokeOut(bars, e, b, m + 1)
<1>1. m \in Int /\ (m + 1) - 1 = m /\ Opening \in Nat /\ b \in Int
  BY RulesAssumption DEF BrokeOut
<1>2. \A j \in (b + 1)..m : j = m \/ j \in (b + 1)..(m - 1)
  BY <1>1
<1> QED BY <1>1, <1>2 DEF BrokeOut

LEMMA TouchedStays ==
  ASSUME NEW bars, NEW e, NEW b \in Int, NEW r, NEW m \in Int, TouchedAt(bars, e, b, r, m)
  PROVE  TouchedAt(bars, e, b, r, m + 1)
BY DEF TouchedAt

\* A bar leaves evidence behind.
LEMMA EvidenceStep ==
  ASSUME NEW bars \in AnyTape, NEW e \in Forms, NEW s \in Forms, NEW m \in Opening..(Length - 1),
         Evidence(bars, e, s, m), bars[m] # NoBar
  PROVE  Evidence(bars, e, RecomputeStep(s, m, bars[m]), m + 1)
<1> DEFINE bar == bars[m]
           why == InvalidationReason(s, bar.low)
           t == [s EXCEPT !.last = m, !.prev = bar.close]
           r == RecomputeStep(s, m, bar)
<1>1. m \in Int /\ (m + 1) - 1 = m /\ Opening \in Nat /\ Length \in Nat /\ m \in Minutes
  BY RulesAssumption DEF Minutes
<1>2. bar \in BarType /\ bar.close \in Int /\ bar.low \in Int /\ e.orh \in Int /\ s.orh \in Int /\ s.prev \in Int
  BY <1>1, BarTypes DEF Forms, StructureType
<1>3. LastBefore(bars, m, m + 1)
  BY <1>1 DEF LastBefore
<1>4. s.orh = e.orh /\ s.orl = e.orl /\ s.state \in States /\ s.state # "BUILDING_OR"
  BY DEF Evidence, Forms, StructureType
<1>5. FailedBreakout(s, bar.low) = FailedBreakout(e, bar.low) /\ Touches(s, bar) = Touches(e, bar)
  BY <1>4 DEF FailedBreakout, Touches
<1>6. /\ t.orh = e.orh /\ t.orl = e.orl /\ t.last = m /\ t.prev = bar.close
      /\ t.state = s.state /\ t.breakout = s.breakout /\ t.retest = s.retest /\ t \in StructureType
  BY <1>1, <1>2, <1>4 DEF Forms, StructureType
<1> HIDE DEF t
<1>7. CASE s.state = "INVALID"
  <2>1. r = s
    BY <1>7 DEF RecomputeStep
  <2> QED BY <1>4, <1>7, <2>1 DEF Evidence
<1>8. CASE s.state # "INVALID" /\ why # "none"
  <2>1. r = Invalid(t, why)
    BY <1>8 DEF RecomputeStep, t
  <2>2. r.state = "INVALID" /\ r.orh = e.orh /\ r.orl = e.orl
    BY <1>6, <2>1 DEF Invalid, StructureType
  <2> QED BY <2>2 DEF Evidence
<1>9. CASE s.state = "RETEST_VALID" /\ why = "none"
  <2>1. r = t
    BY <1>9 DEF RecomputeStep, t
  <2>2. ~FailedBreakout(e, bar.low)
    BY <1>5, <1>9 DEF InvalidationReason
  <2>3. BrokeOut(bars, e, s.breakout, m + 1)
    BY <1>9, <2>2, BrokeOutStays DEF Evidence
  <2>4. TouchedAt(bars, e, s.breakout, s.retest, m + 1)
    <3>1. s.breakout \in Int
      BY <1>1, <2>3 DEF BrokeOut
    <3> QED BY <1>1, <1>9, <3>1, TouchedStays DEF Evidence
  <2> QED BY <1>3, <1>6, <1>9, <2>1, <2>3, <2>4 DEF Evidence
<1>10. CASE s.state = "BREAKOUT_SEEN" /\ why = "none"
  <2>1. ~FailedBreakout(e, bar.low)
    BY <1>5, <1>10 DEF InvalidationReason
  <2>2. BrokeOut(bars, e, s.breakout, m + 1) /\ s.breakout \in Int /\ s.breakout < m
    <3>1. BrokeOut(bars, e, s.breakout, m)
      BY <1>10 DEF Evidence
    <3>2. s.breakout \in Int /\ s.breakout < m
      BY <1>1, <3>1 DEF BrokeOut
    <3> QED BY <2>1, <3>1, <3>2, BrokeOutStays
  <2>3. ASSUME NEW w, r = Rearmed(t, w)
        PROVE  Evidence(bars, e, r, m + 1)
    <3>1. r.state = "ARMED" /\ r.orh = e.orh /\ r.orl = e.orl /\ r.last = m /\ r.prev = bar.close
      BY <1>6, <2>3 DEF Rearmed, StructureType
    <3> QED BY <1>3, <3>1 DEF Evidence
  <2>4. ASSUME bar.close > e.orh
        PROVE  HeldAbove(bars, e, s.breakout, m)
    <3>1. \A j \in s.breakout..m : j = m \/ j \in s.breakout..(m - 1)
      BY <1>1, <2>2
    <3>2. HeldAbove(bars, e, s.breakout, m - 1)
      BY <1>10 DEF Evidence
    <3> QED BY <2>4, <3>1, <3>2 DEF HeldAbove
  <2>5. CASE m - s.breakout > Window \/ bar.close <= s.orh
    <3>1. \E w : r = Rearmed(t, w)
      BY <1>10, <2>5 DEF RecomputeStep, t
    <3> QED BY <2>3, <3>1
  <2>6. CASE ~(m - s.breakout > Window) /\ ~(bar.close <= s.orh) /\ Touches(s, bar)
    <3>1. r = Retested(t, m)
      BY <1>10, <2>6 DEF RecomputeStep, t
    <3>2. /\ r.state = "RETEST_VALID" /\ r.orh = e.orh /\ r.orl = e.orl /\ r.last = m /\ r.prev = bar.close
          /\ r.breakout = s.breakout /\ r.retest = m
      BY <1>6, <3>1 DEF Retested, StructureType
    <3>3. TouchedAt(bars, e, s.breakout, m, m + 1)
      <4>1. HeldAbove(bars, e, s.breakout, m) /\ m - s.breakout <= Window
        BY <1>1, <1>2, <1>4, <2>2, <2>4, <2>6, RulesAssumption
      <4> QED BY <1>1, <1>5, <2>2, <2>6, <4>1 DEF TouchedAt
    <3> QED BY <1>3, <2>2, <3>2, <3>3 DEF Evidence
  <2>7. CASE ~(m - s.breakout > Window) /\ ~(bar.close <= s.orh) /\ ~Touches(s, bar)
    <3>1. r = [t EXCEPT !.reason = "RETEST_WINDOW_OPEN"]
      BY <1>10, <2>7 DEF RecomputeStep, t
    <3>2. /\ r.state = "BREAKOUT_SEEN" /\ r.orh = e.orh /\ r.orl = e.orl /\ r.last = m /\ r.prev = bar.close
          /\ r.breakout = s.breakout
      BY <1>6, <1>10, <3>1 DEF StructureType
    <3>3. HeldAbove(bars, e, s.breakout, (m + 1) - 1)
      BY <1>1, <1>2, <1>4, <2>4, <2>7
    <3> QED BY <1>3, <2>2, <3>2, <3>3 DEF Evidence
  <2> QED BY <2>5, <2>6, <2>7
<1>11. CASE s.state = "ARMED" /\ why = "none"
  <2>1. CASE s.prev # None /\ s.prev <= s.orh /\ bar.close > s.orh
    <3>1. r = BrokenOut(t, m)
      BY <1>11, <2>1 DEF RecomputeStep, t
    <3>2. /\ r.state = "BREAKOUT_SEEN" /\ r.orh = e.orh /\ r.orl = e.orl /\ r.last = m /\ r.prev = bar.close
          /\ r.breakout = m
      BY <1>6, <3>1 DEF BrokenOut, StructureType
    <3>3. LastBefore(bars, s.last, m) /\ bars[s.last].close <= e.orh /\ s.last \in Minutes
      <4>1. LastBefore(bars, s.last, m) /\ s.prev = bars[s.last].close
        BY <1>11 DEF Evidence
      <4>2. s.last \in Minutes
        BY <1>1, <4>1 DEF LastBefore, Minutes
      <4> QED BY <1>4, <2>1, <4>1, <4>2
    <3>4. BrokeOut(bars, e, m, m + 1)
      <4>1. m \in Opening..((m + 1) - 1) /\ (m + 1)..((m + 1) - 1) = {}
        BY <1>1
      <4>2. bars[m] # NoBar /\ bars[m].close > e.orh
        BY <1>4, <2>1
      <4> QED BY <3>3, <4>1, <4>2 DEF BrokeOut
    <3>5. HeldAbove(bars, e, m, (m + 1) - 1)
      BY <1>1, <1>4, <2>1 DEF HeldAbove
    <3> QED BY <1>3, <3>2, <3>4, <3>5 DEF Evidence
  <2>2. CASE ~(s.prev # None /\ s.prev <= s.orh /\ bar.close > s.orh)
    <3>1. r = t
      BY <1>11, <2>2 DEF RecomputeStep, t
    <3> QED BY <1>3, <1>6, <1>11, <3>1 DEF Evidence
  <2> QED BY <2>1, <2>2
<1> QED BY <1>4, <1>7, <1>8, <1>9, <1>10, <1>11 DEF States

\* So every structure of the loop has its evidence.
LEMMA WalkEvidence ==
  ASSUME NEW bars \in AnyTape, OpeningMinutes \subseteq Present(bars)
  PROVE  \A m \in Opening..Length : Evidence(bars, Established(bars), Walk(bars)[m], m)
<1> DEFINE e == Established(bars)
           w == Walk(bars)
           T == {m \in Opening..Length : Evidence(bars, e, w[m], m)}
<1>1. Opening \in Int /\ Length \in Int /\ Opening \in Opening..Length
  BY RulesAssumption
<1>2. e \in Forms /\ w \in [Opening..Length -> Forms]
  BY EstablishedFacts, WalkFacts
<1>3. Opening \in T
  <2>1. Opening - 1 \in 0..(Opening - 1) /\ ((Opening - 1) + 1)..(Opening - 1) = {}
    BY RulesAssumption
  <2>2. bars[Opening - 1] # NoBar
    BY <2>1 DEF OpeningMinutes, Present
  <2>3. LastBefore(bars, Opening - 1, Opening)
    BY <2>1, <2>2 DEF LastBefore
  <2>4. Evidence(bars, e, e, Opening)
    BY <2>3, EstablishedFacts DEF Evidence
  <2> QED BY <1>1, <2>4, WalkFacts
<1>4. ASSUME NEW m \in (Opening + 1)..Length, m - 1 \in T
      PROVE  m \in T
  <2>1. m - 1 \in Opening..(Length - 1) /\ (m - 1) + 1 = m /\ m \in Opening..Length /\ m - 1 \in Opening..Length
    BY <1>1
  <2>2. w[m] = Walked(bars, w[m - 1], m - 1)
    BY WalkFacts
  <2>3. Evidence(bars, e, w[m - 1], m - 1) /\ w[m - 1] \in Forms
    BY <1>2, <1>4, <2>1
  <2> HIDE DEF e, w
  <2>4. CASE bars[m - 1] = NoBar
    <3>1. Evidence(bars, e, w[m - 1], (m - 1) + 1)
      BY <1>2, <2>1, <2>3, <2>4, EvidenceGap
    <3> QED BY <2>1, <2>2, <2>4, <3>1 DEF Walked
  <2>5. CASE bars[m - 1] # NoBar
    <3>1. Evidence(bars, e, RecomputeStep(w[m - 1], m - 1, bars[m - 1]), (m - 1) + 1)
      BY <1>2, <2>1, <2>3, <2>5, EvidenceStep
    <3> QED BY <2>1, <2>2, <2>5, <3>1 DEF Walked
  <2> QED BY <2>4, <2>5
<1>5. \A m \in (Opening + 1)..Length : m - 1 \in T => m \in T
  BY <1>4
<1> HIDE DEF T
<1>6. \A m \in Opening..Length : m \in T
  BY <1>1, <1>3, <1>5, IntervalInduction
<1> QED BY <1>6 DEF T

\* A valid retest and a range with a width come from the loop only.
LEMMA FromTheWalk ==
  ASSUME NEW bars \in AnyTape, NEW c,
         \/ Recompute(bars, c).state = "RETEST_VALID"
         \/ OpeningMinutes \subseteq Present(bars) /\ Recompute(bars, c).orh > Recompute(bars, c).orl
  PROVE  /\ OpeningMinutes \subseteq Present(bars)
         /\ RangeOf(bars).orh > RangeOf(bars).orl
         /\ Recompute(bars, c) = Walk(bars)[Length]
<1> DEFINE range == RangeOf(bars)
           there == Present(bars)
           missing == OpeningMinutes \ there
           ends  == [range EXCEPT !.last = Max(there), !.prev = bars[Max(there)].close]
           s == IF there = {} THEN range ELSE ends
           r == Recompute(bars, c)
<1>1. range \in Forms /\ range.state = "BUILDING_OR" /\ range.orh \in Int /\ range.orl \in Int
  BY RangeFacts DEF Forms, StructureType
<1>2. CASE missing # {}
  <2>1. r = Invalid(s, "OPENING_RANGE_CONFIRMED_EMPTY") \/ r = [s EXCEPT !.reason = "OPENING_RANGE_WAITING_FOR_SIP"]
    BY <1>2 DEF Recompute
  <2>2. s.state = "BUILDING_OR" /\ DOMAIN s = DOMAIN range /\ "state" \in DOMAIN range
    <3>1. ends.state = "BUILDING_OR" /\ DOMAIN ends = DOMAIN range /\ "state" \in DOMAIN range
      <4> HIDE DEF range
      <4> QED BY <1>1 DEF Forms, StructureType
    <3> HIDE DEF range, ends
    <3> QED BY <1>1, <3>1
  <2> HIDE DEF s
  <2>3. r.state # "RETEST_VALID"
    BY <2>1, <2>2 DEF Invalid
  <2> QED BY <1>2, <2>3
<1>3. CASE missing = {} /\ range.orh <= range.orl
  <2>1. r = Invalid(range, "OPENING_RANGE_INVALID")
    BY <1>3 DEF Recompute
  <2> HIDE DEF range
  <2>2. r.state = "INVALID" /\ r.orh = range.orh /\ r.orl = range.orl
    BY <1>1, <2>1 DEF Invalid, Forms, StructureType
  <2> QED BY <1>1, <1>3, <2>2
<1>4. CASE missing = {} /\ ~(range.orh <= range.orl)
  <2>1. r = Walk(bars)[Length]
    BY <1>4 DEF Recompute
  <2> HIDE DEF range
  <2>2. range.orh > range.orl
    BY <1>1, <1>4
  <2> QED BY <1>4, <2>1, <2>2 DEF range
<1> QED BY <1>2, <1>3, <1>4

\* The evidence of a valid retest, in the words of the property.
LEMMA RetestEvidence ==
  ASSUME NEW bars \in AnyTape, NEW c, Recompute(bars, c).state = "RETEST_VALID"
  PROVE  LET s == Recompute(bars, c)
             from(m, n) == {k \in m..n : bars[k] # NoBar}
             before(m)  == Max(from(0, m - 1))
         IN  /\ Opening <= s.breakout /\ s.breakout < s.retest /\ s.retest - s.breakout <= Window
             /\ bars[before(s.breakout)].close <= s.orh
             /\ \A k \in from(s.breakout, s.retest) : bars[k].close > s.orh
             /\ Touches(s, bars[s.retest])
             /\ \A k \in from(s.breakout + 1, Length - 1) : ~FailedBreakout(s, bars[k].low)
<1> DEFINE s == Recompute(bars, c)
           e == Established(bars)
           from(m, n) == {k \in m..n : bars[k] # NoBar}
           before(m)  == Max(from(0, m - 1))
<1>1. s = Walk(bars)[Length] /\ OpeningMinutes \subseteq Present(bars)
  BY FromTheWalk
<1>2. Evidence(bars, e, s, Length) /\ Opening \in Nat /\ Length \in Nat
  BY <1>1, WalkEvidence, RulesAssumption
<1>3. s.orh = e.orh /\ s.orl = e.orl
  BY <1>2 DEF Evidence
<1>4. BrokeOut(bars, e, s.breakout, Length) /\ TouchedAt(bars, e, s.breakout, s.retest, Length)
  BY <1>2 DEF Evidence
<1> DEFINE b == s.breakout
<1> HIDE DEF s, e
<1>5. b \in Opening..(Length - 1) /\ b \in Nat
  BY <1>2, <1>4 DEF BrokeOut
<1>6. PICK k \in Minutes : LastBefore(bars, k, b) /\ bars[k].close <= e.orh
  BY <1>4 DEF BrokeOut
<1>7. before(b) = k
  <2>1. k \in from(0, b - 1) /\ from(0, b - 1) \in SUBSET Int /\ k \in Int
    BY <1>6 DEF LastBefore
  <2>2. ASSUME NEW j \in from(0, b - 1)
        PROVE  j <= k
    <3>1. j \in Int /\ j <= b - 1 /\ bars[j] # NoBar
      BY <1>5
    <3>2. ~(j \in (k + 1)..(b - 1))
      BY <1>6, <3>1 DEF LastBefore
    <3> QED BY <1>5, <2>1, <3>1, <3>2
  <2> HIDE DEF from
  <2> QED BY <2>1, <2>2, MaxIs
<1>8. s.retest \in (b + 1)..(Length - 1) /\ s.retest - b <= Window
  BY <1>4 DEF TouchedAt
<1>9. Opening <= b /\ b < s.retest
  BY <1>2, <1>5, <1>8
<1>10. \A j \in from(b, s.retest) : bars[j].close > s.orh
  BY <1>3, <1>4 DEF TouchedAt, HeldAbove
<1>11. Touches(s, bars[s.retest])
  BY <1>3, <1>4 DEF TouchedAt, Touches
<1>12. \A j \in from(b + 1, Length - 1) : ~FailedBreakout(s, bars[j].low)
  BY <1>3, <1>4 DEF BrokeOut, FailedBreakout
<1>13. bars[before(b)].close <= s.orh
  BY <1>3, <1>6, <1>7
<1> QED BY <1>8, <1>9, <1>10, <1>11, <1>12, <1>13 DEF s

-----------------------------------------------------------------------------
(* Bar by bar *)

LEMMA OpeningStepType ==
  ASSUME NEW s \in StructureType, NEW m \in Minutes, NEW bar \in BarType, m < Opening
  PROVE  OpeningStep(s, m, bar) \in StructureType
<1> DEFINE t == [s EXCEPT !.last = m, !.prev = bar.close]
           high == IF t.orh = None \/ bar.high > t.orh THEN bar.high ELSE t.orh
           low  == IF t.orl = None \/ bar.low < t.orl THEN bar.low ELSE t.orl
           grown == [t EXCEPT !.seen = @ + 1, !.orh = high, !.orl = low]
           r == OpeningStep(s, m, bar)
<1>1. bar.close \in Int /\ bar.high \in Int /\ bar.low \in Int
  BY DEF BarType
<1>2. t \in StructureType /\ t.seen = s.seen /\ t.orh \in Int /\ t.orl \in Int
  BY <1>1 DEF StructureType
<1>3. \/ r = Invalid(t, "OPENING_RANGE_INCOMPLETE")
      \/ m = s.seen /\ r = [grown EXCEPT !.state = "ARMED", !.reason = "OPENING_RANGE_ESTABLISHED"]
      \/ m = s.seen /\ r = grown
  BY DEF OpeningStep
<1>4. high \in Int /\ low \in Int
  BY <1>1, <1>2
<1> HIDE DEF t, high, low, r
<1>5. Invalid(t, "OPENING_RANGE_INCOMPLETE") \in StructureType
  BY <1>2 DEF Invalid, StructureType, States, Reasons
<1>6. ASSUME m = s.seen
      PROVE  grown \in StructureType
  <2>1. t.seen + 1 \in 0..Opening
    BY <1>2, <1>6, RulesAssumption DEF Minutes
  <2> QED BY <1>2, <1>4, <2>1 DEF StructureType
<1> HIDE DEF grown
<1>7. ASSUME m = s.seen
      PROVE  [grown EXCEPT !.state = "ARMED", !.reason = "OPENING_RANGE_ESTABLISHED"] \in StructureType
  BY <1>6, <1>7 DEF StructureType, States, Reasons
<1> QED BY <1>3, <1>5, <1>6, <1>7 DEF r

LEMMA UpdateType ==
  ASSUME NEW s \in StructureType, NEW m \in Minutes, NEW bar \in BarType
  PROVE  Update(s, m, bar) \in StructureType
<1> DEFINE why == InvalidationReason(s, bar.low)
           t == [s EXCEPT !.last = m, !.prev = bar.close]
           r == Update(s, m, bar)
<1>1. bar.close \in Int /\ why \in Reasons
  BY DEF BarType, InvalidationReason, Reasons
<1>2. t \in StructureType
  BY <1>1 DEF StructureType
<1>3. \/ r = s
      \/ m < Opening /\ r = OpeningStep(s, m, bar)
      \/ r = t
      \/ r = Invalid(t, "OPENING_RANGE_INCOMPLETE") \/ r = Invalid(t, "OPENING_RANGE_INVALID")
      \/ r = Invalid(t, why)
      \/ r = Rearmed(t, "RETEST_WINDOW_EXPIRED") \/ r = Rearmed(t, "RETEST_CLOSE_BELOW_ORH")
      \/ r = Retested(t, m)
      \/ r = [t EXCEPT !.reason = "RETEST_WINDOW_OPEN"]
      \/ r = BrokenOut(t, m)
  BY DEF Update, WindowStep
<1> HIDE DEF r, t, why
<1>4. \A w \in Reasons : Invalid(t, w) \in StructureType
  BY <1>2 DEF Invalid, StructureType, States
<1>5. \A w \in Reasons : Rearmed(t, w) \in StructureType
  BY <1>2 DEF Rearmed, StructureType, States
<1>6. Retested(t, m) \in StructureType /\ BrokenOut(t, m) \in StructureType
  BY <1>2 DEF Retested, BrokenOut, StructureType, States, Reasons
<1>7. [t EXCEPT !.reason = "RETEST_WINDOW_OPEN"] \in StructureType
  BY <1>2 DEF StructureType, Reasons
<1>8. {"RETEST_WINDOW_EXPIRED", "RETEST_CLOSE_BELOW_ORH", "OPENING_RANGE_INCOMPLETE", "OPENING_RANGE_INVALID"}
        \subseteq Reasons
  BY DEF Reasons
<1> QED BY <1>1, <1>2, <1>3, <1>4, <1>5, <1>6, <1>7, <1>8, OpeningStepType DEF r

\* One bar of the stream.
Updated(bars, s, m) == IF bars[m] # NoBar THEN Update(s, m, bars[m]) ELSE s

\* Stream satisfies its own equation too.
LEMMA StreamFacts ==
  ASSUME NEW bars \in AnyTape
  PROVE  /\ Stream(bars) \in [0..Length -> StructureType]
         /\ Stream(bars)[0] = Blank
         /\ \A m \in 1..Length : Stream(bars)[m] = Updated(bars, Stream(bars)[m - 1], m - 1)
<1> DEFINE D == 0..Length
           E == (0 + 1)..Length
           body(f) == [m \in D |-> IF m = 0 THEN Blank
                                   ELSE IF bars[m - 1] # NoBar THEN Update(f[m - 1], m - 1, bars[m - 1])
                                   ELSE f[m - 1]]
           step == [m \in E |-> [s \in StructureType |-> Updated(bars, s, m - 1)]]
<1>1. 0 \in Int /\ Length \in Int /\ 0 <= Length /\ 0 \in D
  BY RulesAssumption
<1>2. ASSUME NEW m \in E, NEW s \in StructureType
      PROVE  Updated(bars, s, m - 1) \in StructureType
  <2>1. m - 1 \in Minutes
    BY RulesAssumption DEF Minutes
  <2> QED BY <2>1, BarTypes, UpdateType DEF Updated
<1>3. step \in Steps(0, Length, StructureType)
  BY <1>2 DEF Steps
<1>4. Blank \in StructureType
  BY BlankForm DEF Forms
<1>5. PICK g \in [D -> StructureType] : Recurs(g, 0, Length, Blank, step)
  <2> HIDE DEF step
  <2> QED BY <1>1, <1>3, <1>4, IntervalRecursion
<1>6. \A m \in D : m # 0 => m \in E /\ m - 1 \in D
  BY <1>1
<1>7. g = body(g)
  <2>1. ASSUME NEW m \in D
        PROVE  g[m] = body(g)[m]
    <3>1. CASE m = 0
      BY <1>5, <3>1 DEF Recurs
    <3>2. CASE m # 0
      <4>1. m \in E /\ g[m - 1] \in StructureType
        BY <1>6, <3>2
      <4>2. g[m] = Updated(bars, g[m - 1], m - 1)
        <5>1. step[m] = [s \in StructureType |-> Updated(bars, s, m - 1)]
          BY <4>1
        <5>2. g[m] = step[m][g[m - 1]]
          BY <1>5, <4>1 DEF Recurs
        <5> QED BY <4>1, <5>1, <5>2
      <4> QED BY <3>2, <4>2 DEF Updated
    <3> QED BY <3>1, <3>2
  <2> QED BY <2>1
<1>8. Stream(bars) = CHOOSE f : f = body(f)
  BY DEF Stream
<1> DEFINE w == Stream(bars)
<1>9. w = body(w)
  <2> HIDE DEF body
  <2> QED BY <1>7, <1>8
<1> HIDE DEF w
<1>10. w[0] = Blank
  BY <1>1, <1>9
<1>11. ASSUME NEW m \in E
       PROVE  w[m] = Updated(bars, w[m - 1], m - 1)
  <2>1. m \in D /\ m # 0
    BY <1>1
  <2> QED BY <1>9, <2>1 DEF Updated
<1>12. \A m \in D : w[m] \in StructureType
  <2> DEFINE T == {m \in D : w[m] \in StructureType}
  <2>1. 0 \in T
    BY <1>1, <1>4, <1>10
  <2>2. ASSUME NEW m \in E, m - 1 \in T
        PROVE  m \in T
    BY <1>1, <1>2, <1>11, <2>2
  <2>3. \A m \in E : m - 1 \in T => m \in T
    BY <2>2
  <2> HIDE DEF T
  <2>4. \A m \in D : m \in T
    BY <1>1, <2>1, <2>3, IntervalInduction
  <2> QED BY <2>4 DEF T
<1>13. w \in [D -> StructureType]
  BY <1>9, <1>12
<1> QED BY <1>10, <1>11, <1>13 DEF w

\* The stream before minute m of a full opening range.
Opened(bars, s, m) ==
  /\ s.seen = m /\ s.last = m - 1 /\ s.breakout = None /\ s.retest = None
  /\ s.state = IF m = Opening THEN "ARMED" ELSE "BUILDING_OR"
  /\ m = 0 => s.orh = None /\ s.orl = None
  /\ m # 0 => /\ s.prev = bars[m - 1].close
              /\ \E k \in 0..(m - 1) : s.orh = bars[k].high
              /\ \E k \in 0..(m - 1) : s.orl = bars[k].low
              /\ \A k \in 0..(m - 1) : bars[k].high <= s.orh /\ bars[k].low >= s.orl

LEMMA OpenedStep ==
  ASSUME NEW bars \in AnyTape, OpeningMinutes \subseteq Present(bars),
         NEW s \in StructureType, NEW m \in 0..(Opening - 1), Opened(bars, s, m)
  PROVE  Opened(bars, Update(s, m, bars[m]), m + 1)
<1> DEFINE bar == bars[m]
           t == [s EXCEPT !.last = m, !.prev = bar.close]
           high == IF t.orh = None \/ bar.high > t.orh THEN bar.high ELSE t.orh
           low  == IF t.orl = None \/ bar.low < t.orl THEN bar.low ELSE t.orl
           grown == [t EXCEPT !.seen = @ + 1, !.orh = high, !.orl = low]
           r == Update(s, m, bar)
<1>1. m \in Nat /\ m < Opening /\ Opening \in Nat /\ m \in Minutes /\ (m + 1) - 1 = m /\ m + 1 # 0
  BY RulesAssumption DEF Minutes
<1>2. \A k \in 0..m : /\ bars[k].high \in Nat \ {0} /\ bars[k].low \in Nat \ {0} /\ bars[k].close \in Int
  <2>1. ASSUME NEW k \in 0..m
        PROVE  bars[k] \in BarType
    <3>1. k \in OpeningMinutes
      BY <1>1 DEF OpeningMinutes
    <3> QED BY <3>1, BarTypes DEF Present
  <2> QED BY <2>1 DEF BarType
<1>3. bar.high \in Nat \ {0} /\ bar.low \in Nat \ {0} /\ bar.close \in Int
  BY <1>1, <1>2
<1>4. /\ t.last = m /\ t.prev = bar.close /\ t.seen = m /\ t.breakout = None /\ t.retest = None
      /\ t.orh = s.orh /\ t.orl = s.orl /\ s.orh \in Int /\ s.orl \in Int /\ t \in StructureType
      /\ t.state = "BUILDING_OR"
  <2>1. s.seen = m /\ s.breakout = None /\ s.retest = None /\ s.state = "BUILDING_OR"
    BY <1>1 DEF Opened
  <2>2. s.orh \in Int /\ s.orl \in Int
    BY DEF StructureType
  <2> HIDE DEF bar
  <2> QED BY <1>1, <1>3, <2>1, <2>2 DEF StructureType
<1>5. /\ \E k \in 0..m : high = bars[k].high
      /\ \A k \in 0..m : bars[k].high <= high
  <2>1. m \in 0..m
    BY <1>1
  <2>2. CASE m = 0
    <3>1. high = bar.high
      BY <1>4, <2>2 DEF Opened
    <3>2. \A k \in 0..m : k = m
      BY <2>2
    <3> QED BY <1>3, <2>1, <3>1, <3>2
  <2>3. CASE m # 0
    <3>1. PICK j \in 0..(m - 1) : s.orh = bars[j].high
      BY <2>3 DEF Opened
    <3>2. j \in 0..m /\ s.orh # None
      BY <1>1, <1>2, <3>1 DEF None
    <3>3. high = IF bar.high > s.orh THEN bar.high ELSE s.orh
      BY <1>4, <3>2
    <3>4. \E k \in 0..m : high = bars[k].high
      BY <2>1, <3>1, <3>2, <3>3
    <3>5. high \in Int /\ high >= s.orh /\ high >= bar.high
      BY <1>3, <1>4, <3>3
    <3> HIDE DEF high
    <3>6. ASSUME NEW k \in 0..m
          PROVE  bars[k].high <= high
      <4>1. CASE k = m
        BY <1>3, <3>5, <4>1
      <4>2. CASE k # m
        <5>1. k \in 0..(m - 1)
          BY <1>1, <4>2
        <5>2. bars[k].high <= s.orh
          BY <2>3, <5>1 DEF Opened
        <5> QED BY <1>2, <1>4, <3>5, <5>2
      <4> QED BY <4>1, <4>2
    <3> QED BY <3>4, <3>6
  <2> QED BY <2>2, <2>3
<1>6. /\ \E k \in 0..m : low = bars[k].low
      /\ \A k \in 0..m : bars[k].low >= low
  <2>1. m \in 0..m
    BY <1>1
  <2>2. CASE m = 0
    <3>1. low = bar.low
      BY <1>4, <2>2 DEF Opened
    <3>2. \A k \in 0..m : k = m
      BY <2>2
    <3> QED BY <1>3, <2>1, <3>1, <3>2
  <2>3. CASE m # 0
    <3>1. PICK j \in 0..(m - 1) : s.orl = bars[j].low
      BY <2>3 DEF Opened
    <3>2. j \in 0..m /\ s.orl # None
      BY <1>1, <1>2, <3>1 DEF None
    <3>3. low = IF bar.low < s.orl THEN bar.low ELSE s.orl
      BY <1>4, <3>2
    <3>4. \E k \in 0..m : low = bars[k].low
      BY <2>1, <3>1, <3>2, <3>3
    <3>5. low \in Int /\ low <= s.orl /\ low <= bar.low
      BY <1>3, <1>4, <3>3
    <3> HIDE DEF low
    <3>6. ASSUME NEW k \in 0..m
          PROVE  bars[k].low >= low
      <4>1. CASE k = m
        BY <1>3, <3>5, <4>1
      <4>2. CASE k # m
        <5>1. k \in 0..(m - 1)
          BY <1>1, <4>2
        <5>2. bars[k].low >= s.orl
          BY <2>3, <5>1 DEF Opened
        <5> QED BY <1>2, <1>4, <3>5, <5>2
      <4> QED BY <4>1, <4>2
    <3> QED BY <3>4, <3>6
  <2> QED BY <2>2, <2>3
<1>7. r = OpeningStep(s, m, bar)
  BY <1>1 DEF Update, Opened
<1>8. r = IF grown.seen = Opening THEN [grown EXCEPT !.state = "ARMED", !.reason = "OPENING_RANGE_ESTABLISHED"]
          ELSE grown
  BY <1>7 DEF OpeningStep, Opened
<1> HIDE DEF t, high, low, r, bar
<1>9. /\ grown.seen = m + 1 /\ grown.orh = high /\ grown.orl = low /\ grown.last = m /\ grown.prev = bar.close
      /\ grown.breakout = None /\ grown.retest = None /\ grown.state = "BUILDING_OR"
      /\ "state" \in DOMAIN grown
  BY <1>1, <1>4 DEF StructureType
<1> HIDE DEF grown
<1>10. /\ r.seen = m + 1 /\ r.orh = high /\ r.orl = low /\ r.last = m /\ r.prev = bar.close
       /\ r.breakout = None /\ r.retest = None
       /\ r.state = IF m + 1 = Opening THEN "ARMED" ELSE "BUILDING_OR"
  BY <1>8, <1>9
<1> QED BY <1>1, <1>5, <1>6, <1>10 DEF Opened, r, bar

\* At the end of a full opening range both ways have the same range.
LEMMA OpenedRange ==
  ASSUME NEW bars \in AnyTape, OpeningMinutes \subseteq Present(bars),
         NEW s \in StructureType, Opened(bars, s, Opening)
  PROVE  s.orh = RangeOf(bars).orh /\ s.orl = RangeOf(bars).orl
<1> DEFINE highs == {bars[m].high : m \in InOpening(bars)}
           lows == {bars[m].low : m \in InOpening(bars)}
<1>1. InOpening(bars) = 0..(Opening - 1) /\ Opening # 0 /\ Opening \in Nat /\ OpeningMinutes \subseteq Minutes
  BY RulesAssumption DEF InOpening, OpeningMinutes, Minutes
<1>2. highs \in SUBSET Int /\ lows \in SUBSET Int
  <2>1. \A m \in InOpening(bars) : bars[m].high \in Int /\ bars[m].low \in Int
    BY <1>1, BarTypes DEF OpeningMinutes
  <2> QED BY <2>1
<1>3. s.orh \in highs /\ (\A y \in highs : y <= s.orh)
  BY <1>1 DEF Opened
<1>4. s.orl \in lows /\ (\A y \in lows : s.orl <= y)
  <2>1. s.orl \in lows /\ s.orl \in Int
    BY <1>1 DEF Opened, StructureType
  <2>2. ASSUME NEW y \in lows
        PROVE  s.orl <= y
    <3>1. PICK m \in 0..(Opening - 1) : y = bars[m].low
      BY <1>1
    <3>2. y >= s.orl
      BY <1>1, <3>1 DEF Opened
    <3> QED BY <1>2, <2>1, <3>2
  <2> QED BY <2>1, <2>2
<1>5. RangeOf(bars).orh = Max(highs) /\ RangeOf(bars).orl = Min(lows)
  <2>1. InOpening(bars) # {}
    BY <1>1
  <2> QED BY <2>1, RangeFacts
<1> HIDE DEF highs, lows
<1> QED BY <1>2, <1>3, <1>4, <1>5, MaxIs, MinIs

\* The stream has been through the whole opening range.
LEMMA StreamOpened ==
  ASSUME NEW bars \in AnyTape, OpeningMinutes \subseteq Present(bars)
  PROVE  Opened(bars, Stream(bars)[Opening], Opening)
<1> DEFINE w == Stream(bars)
           T == {m \in 0..Opening : Opened(bars, w[m], m)}
<1>1. Opening \in Nat \ {0} /\ Length \in Nat /\ Opening < Length /\ 0 \in 0..Opening
  BY RulesAssumption
<1>2. 0 \in T
  <2>1. w[0] = Blank
    BY StreamFacts
  <2>2. Opened(bars, Blank, 0)
    BY <1>1 DEF Opened, Blank, None
  <2> QED BY <1>1, <2>1, <2>2
<1>3. ASSUME NEW m \in (0 + 1)..Opening, m - 1 \in T
      PROVE  m \in T
  <2>1. m - 1 \in 0..(Opening - 1) /\ m \in 1..Length /\ m - 1 \in 0..Length /\ (m - 1) + 1 = m /\ m \in 0..Opening
    BY <1>1
  <2>2. w[m] = Updated(bars, w[m - 1], m - 1) /\ w[m - 1] \in StructureType
    BY <2>1, StreamFacts
  <2>3. bars[m - 1] # NoBar
    BY <2>1 DEF OpeningMinutes, Present
  <2>4. Opened(bars, w[m - 1], m - 1)
    BY <1>3
  <2> HIDE DEF w
  <2>5. Opened(bars, Update(w[m - 1], m - 1, bars[m - 1]), (m - 1) + 1)
    BY <2>1, <2>2, <2>4, OpenedStep
  <2> QED BY <2>1, <2>2, <2>3, <2>5 DEF Updated
<1>4. \A m \in (0 + 1)..Opening : m - 1 \in T => m \in T
  BY <1>3
<1> HIDE DEF T
<1>5. \A m \in 0..Opening : m \in T
  BY <1>1, <1>2, <1>4, IntervalInduction
<1> QED BY <1>1, <1>5 DEF T

\* The structures a of the loop and b of the stream say the same before minute m.
Alike(a, b, m) ==
  /\ b.seen = Opening /\ b.last < m
  /\ a.orh = b.orh /\ a.orl = b.orl /\ a.orh > a.orl
  /\ a.state = b.state /\ a.breakout = b.breakout /\ a.retest = b.retest
  /\ a.state # "BUILDING_OR"
  /\ a.state # "INVALID" => a.prev = b.prev

LEMMA AlikeStep ==
  ASSUME NEW a \in StructureType, NEW b \in StructureType, NEW m \in Opening..(Length - 1), NEW bar \in BarType,
         Alike(a, b, m)
  PROVE  Alike(RecomputeStep(a, m, bar), Update(b, m, bar), m + 1)
<1> DEFINE why == InvalidationReason(b, bar.low)
           t == [a EXCEPT !.last = m, !.prev = bar.close]
           u == [b EXCEPT !.last = m, !.prev = bar.close]
           r == RecomputeStep(a, m, bar)
           q == Update(b, m, bar)
           TheSame(x, y) == /\ y.seen = Opening /\ y.last = m /\ x.orh = y.orh /\ x.orl = y.orl /\ x.orh > x.orl
                            /\ x.state = y.state /\ x.breakout = y.breakout /\ x.retest = y.retest
                            /\ x.state # "BUILDING_OR" /\ x.prev = y.prev
<1>1. m \in Int /\ m < m + 1 /\ ~(m < Opening) /\ m \in Minutes /\ Opening \in Nat
  BY RulesAssumption DEF Minutes
<1>2. bar.close \in Int /\ b.orh \in Int /\ b.orl \in Int /\ b.last \in Int
  BY RulesAssumption DEF BarType, StructureType, Minutes, None
<1>3. /\ b.seen = Opening /\ b.last < m /\ a.orh = b.orh /\ a.orl = b.orl /\ b.orh > b.orl
      /\ a.state = b.state /\ a.breakout = b.breakout /\ a.retest = b.retest /\ b.state # "BUILDING_OR"
      /\ b.state # "INVALID" => a.prev = b.prev
  BY DEF Alike
<1>4. ~(b.last # None /\ m <= b.last) /\ ~(b.seen < Opening) /\ ~(b.orh <= b.orl)
  BY <1>1, <1>2, <1>3
<1>5. InvalidationReason(a, bar.low) = why /\ Touches(a, bar) = Touches(b, bar) /\ Touches(u, bar) = Touches(b, bar)
  BY <1>3 DEF InvalidationReason, Touches, Breakdown, FailedBreakout, StructureType
<1>6. t \in StructureType /\ u \in StructureType /\ TheSame(t, u) /\ t.state = b.state /\ u.orh = b.orh
  BY <1>1, <1>2, <1>3 DEF StructureType
<1>7. ASSUME NEW x, NEW y, TheSame(x, y), y.last = m
      PROVE  Alike(x, y, m + 1)
  BY <1>1, <1>7 DEF Alike
<1>8. q = IF b.state = "INVALID" THEN u
          ELSE IF why # "none" THEN Invalid(u, why)
          ELSE IF b.state = "RETEST_VALID" THEN u
          ELSE IF b.state = "BREAKOUT_SEEN"
          THEN IF m - b.breakout > Window THEN Rearmed(u, "RETEST_WINDOW_EXPIRED") ELSE WindowStep(u, m, bar)
          ELSE IF b.state = "ARMED" /\ b.prev # None /\ b.prev <= b.orh /\ bar.close > b.orh
          THEN BrokenOut(u, m) ELSE u
  BY <1>1, <1>4 DEF Update
<1>9. r = IF a.state = "INVALID" THEN a
          ELSE IF why # "none" THEN Invalid(t, why)
          ELSE IF a.state = "RETEST_VALID" THEN t
          ELSE IF a.state = "BREAKOUT_SEEN"
          THEN IF m - a.breakout > Window THEN Rearmed(t, "RETEST_WINDOW_EXPIRED")
               ELSE IF bar.close <= a.orh THEN Rearmed(t, "RETEST_CLOSE_BELOW_ORH")
               ELSE IF Touches(a, bar) THEN Retested(t, m)
               ELSE [t EXCEPT !.reason = "RETEST_WINDOW_OPEN"]
          ELSE IF a.prev # None /\ a.prev <= a.orh /\ bar.close > a.orh THEN BrokenOut(t, m) ELSE t
  BY <1>5 DEF RecomputeStep
<1> HIDE DEF t, u, why, r, q
<1>10. \A w : TheSame(Invalid(t, w), Invalid(u, w)) /\ TheSame(Rearmed(t, w), Rearmed(u, w))
  BY <1>6 DEF Invalid, Rearmed, StructureType
<1>11. TheSame(Retested(t, m), Retested(u, m)) /\ TheSame(BrokenOut(t, m), BrokenOut(u, m))
  BY <1>6 DEF Retested, BrokenOut, StructureType
<1>12. TheSame([t EXCEPT !.reason = "RETEST_WINDOW_OPEN"], [u EXCEPT !.reason = "RETEST_WINDOW_OPEN"])
  BY <1>6 DEF StructureType
<1>13. CASE b.state = "INVALID"
  <2>1. r = a /\ q = u
    BY <1>3, <1>8, <1>9, <1>13
  <2>2. u.seen = Opening /\ u.last = m /\ u.orh = b.orh /\ u.orl = b.orl
        /\ u.state = b.state /\ u.breakout = b.breakout /\ u.retest = b.retest
    BY <1>1, <1>2, <1>3 DEF u, StructureType
  <2> QED BY <1>1, <1>3, <1>13, <2>1, <2>2 DEF Alike, r, q
<1>14. CASE b.state # "INVALID"
  <2>1. TheSame(r, q)
    <3>1. bar.close <= b.orh <=> ~(bar.close > b.orh)
      BY <1>2
    <3>2. WindowStep(u, m, bar) = IF Touches(b, bar) /\ bar.close > b.orh THEN Retested(u, m)
                                  ELSE IF bar.close <= b.orh THEN Rearmed(u, "RETEST_CLOSE_BELOW_ORH")
                                  ELSE [u EXCEPT !.reason = "RETEST_WINDOW_OPEN"]
      BY <1>5, <1>6 DEF WindowStep
    <3>3. b.state \in {"ARMED", "BREAKOUT_SEEN", "RETEST_VALID"} /\ a.prev = b.prev
      BY <1>3, <1>14 DEF StructureType, States
    <3>4. TheSame(t, u)
      BY <1>6
    <3> HIDE DEF TheSame
    <3>5. CASE why # "none"
      BY <1>3, <1>8, <1>9, <1>10, <1>14, <3>5
    <3>6. CASE why = "none" /\ b.state = "RETEST_VALID"
      BY <1>3, <1>8, <1>9, <3>4, <3>6
    <3>7. CASE why = "none" /\ b.state = "ARMED"
      BY <1>3, <1>8, <1>9, <1>11, <3>3, <3>4, <3>7
    <3>8. CASE why = "none" /\ b.state = "BREAKOUT_SEEN"
      BY <1>3, <1>5, <1>8, <1>9, <1>10, <1>11, <1>12, <3>1, <3>2, <3>8
    <3> QED BY <3>3, <3>5, <3>6, <3>7, <3>8
  <2> QED BY <1>7, <2>1 DEF r, q
<1> QED BY <1>13, <1>14

\* From the end of the opening range on the two ways stay alike.
LEMMA StaysAlike ==
  ASSUME NEW bars \in AnyTape, OpeningMinutes \subseteq Present(bars), RangeOf(bars).orh > RangeOf(bars).orl
  PROVE  Alike(Walk(bars)[Length], Stream(bars)[Length], Length)
<1> DEFINE v == Walk(bars)
           w == Stream(bars)
           T == {m \in Opening..Length : Alike(v[m], w[m], m)}
<1>1. Opening \in Nat \ {0} /\ Length \in Nat /\ Opening < Length /\ Opening \in Opening..Length
  BY RulesAssumption
<1>2. v \in [Opening..Length -> StructureType] /\ w \in [0..Length -> StructureType]
  BY WalkFacts, StreamFacts DEF Forms
<1>3. Opening \in T
  <2>1. Opened(bars, w[Opening], Opening) /\ w[Opening] \in StructureType
    BY <1>1, <1>2, StreamOpened
  <2>2. w[Opening].orh = RangeOf(bars).orh /\ w[Opening].orl = RangeOf(bars).orl
    BY <2>1, OpenedRange
  <2>3. v[Opening] = Established(bars)
    BY WalkFacts
  <2> HIDE DEF v, w
  <2>4. Alike(v[Opening], w[Opening], Opening)
    BY <1>1, <2>1, <2>2, <2>3, EstablishedFacts DEF Alike, Opened
  <2> QED BY <1>1, <2>4
<1>4. ASSUME NEW m \in (Opening + 1)..Length, m - 1 \in T
      PROVE  m \in T
  <2>1. /\ m - 1 \in Opening..(Length - 1) /\ (m - 1) + 1 = m /\ m \in Opening..Length
        /\ m \in 1..Length /\ m - 1 \in Opening..Length /\ m - 1 \in 0..Length /\ m - 1 \in Minutes
    BY <1>1 DEF Minutes
  <2>2. v[m] = Walked(bars, v[m - 1], m - 1) /\ w[m] = Updated(bars, w[m - 1], m - 1)
    BY <2>1, WalkFacts, StreamFacts
  <2>3. Alike(v[m - 1], w[m - 1], m - 1) /\ v[m - 1] \in StructureType /\ w[m - 1] \in StructureType
    BY <1>2, <1>4, <2>1
  <2> HIDE DEF v, w
  <2>4. CASE bars[m - 1] = NoBar
    <3>1. Alike(v[m - 1], w[m - 1], m)
      <4>1. w[m - 1].last \in Int /\ m - 1 < m /\ m \in Int
        BY <1>1, <2>1, <2>3 DEF StructureType, Minutes, None
      <4> QED BY <2>3, <4>1 DEF Alike
    <3> QED BY <2>1, <2>2, <2>4, <3>1 DEF Walked, Updated
  <2>5. CASE bars[m - 1] # NoBar
    <3>1. bars[m - 1] \in BarType
      BY <2>1, <2>5, BarTypes
    <3>2. Alike(RecomputeStep(v[m - 1], m - 1, bars[m - 1]), Update(w[m - 1], m - 1, bars[m - 1]), (m - 1) + 1)
      BY <2>1, <2>3, <3>1, AlikeStep
    <3> QED BY <2>1, <2>2, <2>5, <3>2 DEF Walked, Updated
  <2> QED BY <2>4, <2>5
<1>5. \A m \in (Opening + 1)..Length : m - 1 \in T => m \in T
  BY <1>4
<1> HIDE DEF T
<1>6. \A m \in Opening..Length : m \in T
  BY <1>1, <1>3, <1>5, IntervalInduction
<1> QED BY <1>1, <1>6 DEF T

-----------------------------------------------------------------------------
(* The transactions *)

BarTapes == [Minutes -> BarSet]
Transactions ==
  [stage : {"idle", "fetched", "written", "read", "computed"}, bars : BarTapes, covers : Nat,
   rows : BarTapes, result : Forms, missed : BOOLEAN]

Shape ==
  /\ table \in [Minutes -> [iex : BarSet, sip : BarSet]]
  /\ coverage \in Nat
  /\ writer \in [Writers -> Transactions]

\* The tapes of the pipeline are tapes of bars.
LEMMA TapesAreTapes == BarTapes \subseteq AnyTape
<1>1. BarSet \subseteq BarType \cup {NoBar}
  BY BarsAssumption DEF BarSet
<1> QED BY <1>1 DEF BarTapes, AnyTape

LEMMA NoBarIsOne == NoBar \in BarSet
BY DEF BarSet

LEMMA IdleTransaction == Idle \in Transactions /\ Idle.stage = "idle"
<1>1. Absent \in BarTapes
  BY NoBarIsOne DEF Absent, BarTapes
<1> QED BY <1>1, BlankForm DEF Idle, Transactions

LEMMA MergedTypes ==
  ASSUME NEW rows \in [Minutes -> [iex : BarSet, sip : BarSet]]
  PROVE  Merged(rows) \in BarTapes
BY DEF Merged, BarTapes

LEMMA WrittenTypes ==
  ASSUME Shape, NEW t \in Writers
  PROVE  Written(t) \in [Minutes -> [iex : BarSet, sip : BarSet]]
<1> DEFINE entry(m) == IF writer[t].bars[m] = NoBar THEN table[m]
                       ELSE IF t = "live" THEN [table[m] EXCEPT !.iex = writer[t].bars[m]]
                       ELSE [table[m] EXCEPT !.sip = writer[t].bars[m]]
<1>1. ASSUME NEW m \in Minutes
      PROVE  entry(m) \in [iex : BarSet, sip : BarSet]
  <2>1. writer[t].bars[m] \in BarSet /\ table[m] \in [iex : BarSet, sip : BarSet]
    BY DEF Shape, Transactions, BarTapes
  <2> QED BY <2>1
<1> QED BY <1>1 DEF Written

LEMMA CoveredTypes ==
  ASSUME Shape, NEW t \in Writers
  PROVE  Covered(t) \in Nat
BY DEF Shape, Covered, Transactions

-----------------------------------------------------------------------------
(* What a transaction knows is true as long as no other has committed *)

Knows(t) ==
  /\ writer[t].stage = "read" /\ ~writer[t].missed => writer[t].rows = Merged(Written(t))
  /\ writer[t].stage = "computed" /\ ~writer[t].missed
       => writer[t].result = Recompute(Merged(Written(t)), Covered(t))

Current == SettledStructureCurrent /\ \A t \in Writers : Knows(t)

\* A transaction is not disturbed by a step that leaves it, the table and the coverage.
LEMMA KnowsStays ==
  ASSUME NEW t \in Writers, Knows(t), writer'[t] = writer[t], UNCHANGED <<table, coverage>>
  PROVE  Knows(t)'
<1>1. Written(t)' = Written(t) /\ Covered(t)' = Covered(t)
  BY DEF Written, Covered
<1> QED BY <1>1 DEF Knows

\* A step of one transaction that is no commit: the others and what is stored stay.
LEMMA OneWriter ==
  ASSUME Shape, Current, NEW t \in Writers, NEW w \in Transactions,
         writer' = [writer EXCEPT ![t] = w], Knows(t)',
         UNCHANGED <<table, coverage, structure, alone>>
  PROVE  Shape' /\ Current'
<1>1. Shape'
  BY DEF Shape
<1>2. ASSUME NEW u \in Writers
      PROVE  Knows(u)'
  <2>1. CASE u = t
    BY <2>1
  <2>2. CASE u # t
    BY <2>2, KnowsStays DEF Shape, Current
  <2> QED BY <2>1, <2>2
<1>3. SettledStructureCurrent'
  BY DEF Current, SettledStructureCurrent
<1> QED BY <1>1, <1>2, <1>3 DEF Current

\* Before it has read anything a transaction knows nothing.
LEMMA KnowsNothing ==
  ASSUME NEW t \in Writers, writer'[t].stage \notin {"read", "computed"}
  PROVE  Knows(t)'
BY DEF Knows

LEMMA CurrentInit == Init => Shape /\ Current
<1> SUFFICES ASSUME Init PROVE Shape /\ Current
  OBVIOUS
<1>1. Shape
  BY IdleTransaction, NoBarIsOne DEF Init, Shape, NoRow
<1>2. \A t \in Writers : Knows(t)
  BY IdleTransaction DEF Init, Knows
<1>3. SettledStructureCurrent
  BY DEF Init, SettledStructureCurrent
<1> QED BY <1>1, <1>2, <1>3 DEF Current

LEMMA CurrentLiveBar ==
  ASSUME Shape, Current, NEW m \in Minutes, NEW bar \in Bars[m], LiveBar(m, bar)
  PROVE  Shape' /\ Current'
<1> DEFINE w == [Idle EXCEPT !.stage = "written", !.bars[m] = bar]
<1>1. bar \in BarSet /\ "live" \in Writers
  BY DEF BarSet, Writers
<1>2. w \in Transactions /\ w.stage = "written"
  BY <1>1, IdleTransaction DEF Transactions, BarTapes
<1>3. writer' = [writer EXCEPT !["live"] = w] /\ UNCHANGED <<table, coverage, structure, alone>>
  BY DEF LiveBar
<1> HIDE DEF w
<1>4. Knows("live")'
  BY <1>1, <1>2, <1>3, KnowsNothing DEF Shape
<1> QED BY <1>1, <1>2, <1>3, <1>4, OneWriter

LEMMA CurrentFetch ==
  ASSUME Shape, Current, NEW t \in Backfills, NEW n \in 1..Length, NEW tape \in Tapes, Fetch(t, n, tape)
  PROVE  Shape' /\ Current'
<1> DEFINE w == [Idle EXCEPT !.stage = "fetched", !.bars = tape, !.covers = n]
<1>1. tape \in BarTapes /\ t \in Writers /\ n \in Nat
  BY RulesAssumption DEF Tapes, BarTapes, BarSet, Writers
<1>2. w \in Transactions /\ w.stage = "fetched"
  BY <1>1, IdleTransaction DEF Transactions
<1>3. writer' = [writer EXCEPT ![t] = w] /\ UNCHANGED <<table, coverage, structure, alone>>
  BY DEF Fetch
<1> HIDE DEF w
<1>4. Knows(t)'
  BY <1>1, <1>2, <1>3, KnowsNothing DEF Shape
<1> QED BY <1>1, <1>2, <1>3, <1>4, OneWriter

LEMMA CurrentWriteFetched ==
  ASSUME Shape, Current, NEW t \in Backfills, WriteFetched(t)
  PROVE  Shape' /\ Current'
<1> DEFINE w == [writer[t] EXCEPT !.stage = "written"]
<1>1. t \in Writers
  BY DEF Writers
<1>2. w \in Transactions /\ w.stage = "written"
  BY <1>1 DEF Shape, Transactions
<1>3. writer' = [writer EXCEPT ![t] = w] /\ UNCHANGED <<table, coverage, structure, alone>>
  BY DEF WriteFetched
<1> HIDE DEF w
<1>4. Knows(t)'
  BY <1>1, <1>2, <1>3, KnowsNothing DEF Shape
<1> QED BY <1>1, <1>2, <1>3, <1>4, OneWriter

\* The rows read are those of the table with the transaction's own bars.
LEMMA CurrentReadRows ==
  ASSUME Shape, Current, NEW t \in Writers, ReadRows(t)
  PROVE  Shape' /\ Current'
<1> DEFINE rows == Merged(Visible(t))
           w == [writer[t] EXCEPT !.stage = "read", !.missed = FALSE, !.rows = rows]
<1>1. rows \in BarTapes /\ rows = Merged(Written(t))
  BY WrittenTypes, MergedTypes DEF Visible
<1>2. writer' = [writer EXCEPT ![t] = [writer[t] EXCEPT !.stage = "read", !.missed = FALSE, !.rows = rows]]
      /\ UNCHANGED <<table, coverage, structure, alone>>
  BY DEF ReadRows, Shape
<1> HIDE DEF rows
<1>3. w \in Transactions /\ w.stage = "read" /\ w.rows = rows /\ w.bars = writer[t].bars
  BY <1>1 DEF Shape, Transactions
<1>4. writer' = [writer EXCEPT ![t] = w]
  BY <1>2
<1> HIDE DEF w
<1>5. writer'[t] = w
  BY <1>4 DEF Shape
<1>6. Written(t)' = Written(t)
  BY <1>2, <1>3, <1>5 DEF Written
<1>7. Knows(t)'
  BY <1>1, <1>3, <1>5, <1>6 DEF Knows
<1> QED BY <1>2, <1>3, <1>4, <1>7, OneWriter

\* The coverage a live bar reads after the rows is the one of the rows.
LEMMA CurrentCompute ==
  ASSUME Shape, Current, NEW t \in Writers, Compute(t)
  PROVE  Shape' /\ Current'
<1> DEFINE s == Recompute(writer[t].rows, Covered(t))
           w == [writer[t] EXCEPT !.stage = "computed", !.rows = Absent, !.result = s]
<1>1. s \in Forms
  BY TapesAreTapes, RecomputeForm DEF Shape, Transactions
<1>2. ~writer[t].missed => s = Recompute(Merged(Written(t)), Covered(t))
  BY DEF Compute, Current, Knows
<1>3. writer' = [writer EXCEPT ![t] = [writer[t] EXCEPT !.stage = "computed", !.rows = Absent, !.result = s]]
      /\ UNCHANGED <<table, coverage, structure, alone>>
  BY DEF Compute, Shape
<1> HIDE DEF s
<1>4. /\ w \in Transactions /\ w.stage = "computed" /\ w.result = s
      /\ w.bars = writer[t].bars /\ w.covers = writer[t].covers /\ w.missed = writer[t].missed
  BY <1>1, IdleTransaction DEF Shape, Transactions, Idle
<1>5. writer' = [writer EXCEPT ![t] = w]
  BY <1>3
<1> HIDE DEF w
<1>6. writer'[t] = w
  BY <1>5 DEF Shape
<1>7. Written(t)' = Written(t) /\ Covered(t)' = Covered(t)
  BY <1>3, <1>4, <1>6 DEF Written, Covered
<1>8. Knows(t)'
  BY <1>2, <1>4, <1>6, <1>7 DEF Knows
<1> QED BY <1>3, <1>4, <1>5, <1>8, OneWriter

\* A commit tells every transaction that has read that it missed something.
LEMMA CurrentCommit ==
  ASSUME Shape, Current, NEW t \in Writers, Commit(t)
  PROVE  Shape' /\ Current'
<1> DEFINE left(w) == IF w = t THEN Idle
                      ELSE [writer[w] EXCEPT !.missed = @ \/ writer[w].stage \in {"read", "computed"}]
<1>1. ASSUME NEW w \in Writers
      PROVE  /\ left(w) \in Transactions
             /\ left(w).stage \in {"read", "computed"} => left(w).missed
  BY IdleTransaction DEF Shape, Transactions
<1>2. writer' = [w \in Writers |-> left(w)]
  BY DEF Commit
<1> HIDE DEF left
<1>3. table' = Written(t) /\ coverage' = Covered(t) /\ coverage' \in Nat
  BY CoveredTypes DEF Commit, Covered
<1>4. Shape'
  BY <1>1, <1>2, <1>3, WrittenTypes DEF Shape
<1>5. \A u \in Writers : Knows(u)'
  BY <1>1, <1>2 DEF Knows
<1>6. SettledStructureCurrent'
  BY <1>3 DEF Commit, Current, Knows, SettledStructureCurrent
<1> QED BY <1>4, <1>5, <1>6 DEF Current

LEMMA CurrentStep ==
  ASSUME Shape, Current, [Next]_vars
  PROVE  Shape' /\ Current'
<1>1. CASE MinutePasses \/ UNCHANGED vars
  <2>1. UNCHANGED <<table, coverage, structure, writer, alone>>
    BY <1>1 DEF MinutePasses, vars
  <2>2. \A t \in Writers : Knows(t)'
    BY <2>1, KnowsStays DEF Current
  <2> QED BY <2>1, <2>2 DEF Shape, Current, SettledStructureCurrent
<1>2. CASE \E m \in Minutes : \E bar \in Bars[m] : LiveBar(m, bar)
  BY <1>2, CurrentLiveBar
<1>3. CASE \E t \in Backfills : WriteFetched(t) \/ \E n \in 1..Length, tape \in Tapes : Fetch(t, n, tape)
  BY <1>3, CurrentWriteFetched, CurrentFetch
<1>4. CASE \E t \in Writers : ReadRows(t) \/ Compute(t) \/ Commit(t)
  BY <1>4, CurrentReadRows, CurrentCompute, CurrentCommit
<1> QED BY <1>1, <1>2, <1>3, <1>4 DEF Next

\* The structure an activation is answered from is the one of the bars and the
\* coverage stored with it, when the transaction that stored it overlapped no other:
\* each transaction sees its own bars before it commits them, and a live bar that
\* reads the coverage later than the rows still reads the one that belongs to them.
THEOREM StructureOfStoredBars == Spec => []SettledStructureCurrent
<1>1. Current => SettledStructureCurrent
  BY DEF Current
<1> QED BY <1>1, CurrentInit, CurrentStep, PTL DEF Spec

-----------------------------------------------------------------------------
(* What is stored *)

\* The bounds of the clock, the coverage and the fetches, and the structure's form.
Bounds ==
  /\ clock \in 0..Length /\ fetches \in 0..MaxFetches /\ alone \in BOOLEAN
  /\ structure \in Forms
  /\ coverage <= clock
  /\ \A t \in Writers : writer[t].covers <= clock

LEMMA BoundsInit == Init => Bounds
<1> SUFFICES ASSUME Init PROVE Bounds
  OBVIOUS
<1>1. clock \in 0..Length /\ fetches \in 0..MaxFetches /\ coverage <= clock
  <2>1. Length \in Nat /\ MaxFetches \in Nat
    BY RulesAssumption, PipelineAssumption
  <2>2. clock = 0 /\ fetches = 0 /\ coverage = 0
    BY DEF Init
  <2> QED BY <2>1, <2>2
<1>2. \A t \in Writers : writer[t].covers <= clock
  BY DEF Init, Idle
<1> QED BY <1>1, <1>2, BlankForm DEF Init, Bounds

LEMMA BoundsStep ==
  ASSUME Shape, Bounds, [Next]_vars
  PROVE  Bounds'
<1>1. CASE MinutePasses \/ UNCHANGED vars
  <2>1. clock' \in 0..Length /\ clock' >= clock /\ UNCHANGED <<coverage, structure, writer, fetches, alone>>
    BY <1>1, RulesAssumption DEF MinutePasses, vars, Bounds
  <2>2. coverage \in Nat /\ clock \in Nat /\ \A t \in Writers : writer[t].covers \in Nat
    BY DEF Shape, Transactions, Bounds
  <2> QED BY <2>1, <2>2 DEF Bounds
<1>2. ASSUME NEW m \in Minutes, NEW bar \in Bars[m], LiveBar(m, bar)
      PROVE  Bounds'
  <2> DEFINE w == [Idle EXCEPT !.stage = "written", !.bars[m] = bar]
  <2>1. \A t \in Writers : writer'[t] = (IF t = "live" THEN w ELSE writer[t])
    BY <1>2 DEF LiveBar, Shape
  <2>2. w.covers = 0 /\ clock \in Nat
    BY DEF Idle, Bounds
  <2> HIDE DEF w
  <2>3. UNCHANGED <<clock, coverage, structure, fetches, alone>>
    BY <1>2 DEF LiveBar
  <2>4. \A t \in Writers : writer'[t].covers <= clock
    BY <2>1, <2>2 DEF Bounds
  <2> QED BY <2>3, <2>4 DEF Bounds
<1>3. ASSUME NEW t \in Backfills, NEW n \in 1..Length, NEW tape \in Tapes, Fetch(t, n, tape)
      PROVE  Bounds'
  <2> DEFINE w == [Idle EXCEPT !.stage = "fetched", !.bars = tape, !.covers = n]
  <2>1. \A u \in Writers : writer'[u] = (IF u = t THEN w ELSE writer[u])
    BY <1>3 DEF Fetch, Shape
  <2>2. w.covers = n /\ n <= clock
    <3>1. n + Lag <= clock /\ clock \in Nat /\ Lag \in Nat /\ n \in Nat
      BY <1>3, RulesAssumption, PipelineAssumption DEF Fetch, Bounds
    <3> QED BY <3>1 DEF Idle
  <2> HIDE DEF w
  <2>3. fetches' \in 0..MaxFetches
    BY <1>3, PipelineAssumption DEF Fetch, Bounds
  <2> QED BY <1>3, <2>1, <2>2, <2>3 DEF Fetch, Bounds
<1>4. ASSUME NEW t \in Writers, \/ t \in Backfills /\ WriteFetched(t)
                                \/ ReadRows(t)
                                \/ Compute(t)
      PROVE  Bounds'
  <2>1. UNCHANGED <<clock, coverage, structure, fetches, alone>>
    BY <1>4 DEF WriteFetched, ReadRows, Compute
  <2>2. \A u \in Writers : writer'[u].covers = writer[u].covers
    BY <1>4 DEF WriteFetched, ReadRows, Compute, Shape, Transactions
  <2> QED BY <2>1, <2>2 DEF Bounds
<1>5. ASSUME NEW t \in Writers, Commit(t)
      PROVE  Bounds'
  <2>1. structure' \in Forms /\ alone' \in BOOLEAN /\ UNCHANGED <<clock, fetches>>
    BY <1>5 DEF Commit, Shape, Transactions
  <2>2. coverage' <= clock
    BY <1>5 DEF Commit, Bounds
  <2>3. ASSUME NEW u \in Writers
        PROVE  writer'[u].covers <= clock
    <3>1. CASE u = t
      BY <1>5, <3>1 DEF Commit, Idle, Bounds
    <3>2. CASE u # t
      BY <1>5, <3>2 DEF Commit, Bounds, Shape, Transactions
    <3> QED BY <3>1, <3>2
  <2> QED BY <2>1, <2>2, <2>3 DEF Bounds
<1>6. \A t \in Backfills : t \in Writers
  BY DEF Writers
<1> QED BY <1>1, <1>2, <1>3, <1>4, <1>5, <1>6 DEF Next

\* The tables and the transactions keep their shape, and a structure that is stored or
\* about to be stored is well formed: whatever bars _intraday_bar_record lets through,
\* compute_structure ends in one of its five states, a structure that has not broken
\* out knows no breakout, and a valid retest knows its minute.
THEOREM IntradayTypeCorrect == Spec => []TypeOK
<1>1. Shape /\ Bounds => TypeOK
  <2> SUFFICES ASSUME Shape, Bounds PROVE TypeOK
    OBVIOUS
  <2>1. coverage \in 0..clock
    BY DEF Shape, Bounds
  <2>2. ASSUME NEW t \in Writers
        PROVE  /\ writer[t].stage \in {"idle", "fetched", "written", "read", "computed"}
               /\ writer[t].result \in Forms
               /\ writer[t].covers \in 0..clock
    <3>1. writer[t] \in Transactions /\ writer[t].covers <= clock
      BY DEF Shape, Bounds
    <3> QED BY <3>1 DEF Transactions, Bounds
  <2> QED BY <2>1, <2>2 DEF TypeOK, Shape, Bounds, Forms
<1>2. Init => Shape /\ Current /\ Bounds
  BY CurrentInit, BoundsInit
<1>3. Shape /\ Current /\ Bounds /\ [Next]_vars => (Shape /\ Current /\ Bounds)'
  BY CurrentStep, BoundsStep
<1> QED BY <1>1, <1>2, <1>3, PTL DEF Spec

\* The bars stored are a tape of bars.
LEMMA StoredTape == Shape => Merged(table) \in AnyTape
BY MergedTypes, TapesAreTapes DEF Shape

\* A RETEST_VALID structure, which server_retest lets an activation through on, always
\* has its evidence in the stored bars: the close that broke out, the closes that
\* held, the touch inside the window, and no low under the buffer since.
THEOREM RetestIsSound == Spec => []RetestSound
<1>1. Shape => RetestSound
  BY StoredTape, RetestEvidence DEF RetestSound
<1> QED BY <1>1, CurrentInit, CurrentStep, PTL DEF Spec

\* Replay and recomputation produce the same state: on stored bars that fill an opening
\* range with a width, moving the structure bar by bar (update_intraday_structure)
\* ends in the state, breakout and retest that compute_structure finds.
THEOREM StreamingAgrees == Spec => []StreamAgrees
<1>1. Shape => StreamAgrees
  <2> SUFFICES ASSUME Shape PROVE StreamAgrees
    OBVIOUS
  <2> DEFINE bars == Merged(table)
             a == Recompute(bars, coverage)
             b == Streamed(bars)
  <2>1. bars \in AnyTape
    BY StoredTape
  <2>2. ASSUME \A m \in 0..(Opening - 1) : bars[m] # NoBar, a.orh > a.orl
        PROVE  a.state = b.state /\ a.breakout = b.breakout /\ a.retest = b.retest
    <3> HIDE DEF bars
    <3>1. OpeningMinutes \subseteq Present(bars)
      BY <2>2, RulesAssumption DEF OpeningMinutes, Present, Minutes
    <3>2. a = Walk(bars)[Length] /\ RangeOf(bars).orh > RangeOf(bars).orl
      BY <2>1, <2>2, <3>1, FromTheWalk
    <3>3. Alike(Walk(bars)[Length], Stream(bars)[Length], Length)
      BY <2>1, <3>1, <3>2, StaysAlike
    <3> QED BY <3>2, <3>3 DEF Alike, Streamed
  <2> HIDE DEF a, b, bars
  <2>3. (\A m \in 0..(Opening - 1) : bars[m] # NoBar) /\ a.orh > a.orl =>
          a.state = b.state /\ a.breakout = b.breakout /\ a.retest = b.retest
    BY <2>2
  <2> QED BY <2>3 DEF StreamAgrees, a, b, bars
<1> QED BY <1>1, CurrentInit, CurrentStep, PTL DEF Spec

-----------------------------------------------------------------------------
(* A full opening range *)

Empty == "OPENING_RANGE_CONFIRMED_EMPTY"

\* No bar after the opening range makes the range look empty.
LEMMA StepKeepsNonempty ==
  ASSUME NEW s \in Forms, NEW m \in Minutes, NEW bar \in BarType, s.reason # Empty
  PROVE  RecomputeStep(s, m, bar).reason # Empty
<1> DEFINE why == InvalidationReason(s, bar.low)
           t == [s EXCEPT !.last = m, !.prev = bar.close]
           r == RecomputeStep(s, m, bar)
<1>1. why # Empty /\ bar.close \in Int /\ None \in Int
  BY DEF InvalidationReason, Empty, BarType, None
<1>2. t \in StructureType /\ t.reason = s.reason
  BY <1>1 DEF Forms, WellFormed, StructureType
<1>3. \/ r = s
      \/ r = t
      \/ r = Invalid(t, why)
      \/ r = Rearmed(t, "RETEST_WINDOW_EXPIRED") \/ r = Rearmed(t, "RETEST_CLOSE_BELOW_ORH")
      \/ r = Retested(t, m)
      \/ r = [t EXCEPT !.reason = "RETEST_WINDOW_OPEN"]
      \/ r = BrokenOut(t, m)
  BY DEF RecomputeStep
<1> HIDE DEF r, t, why
<1>4. Invalid(t, why).reason # Empty
  BY <1>1, <1>2 DEF Invalid, StructureType
<1>5. \A w \in Reasons : Rearmed(t, w).reason = w
  BY <1>2 DEF Rearmed, StructureType
<1>6. Retested(t, m).reason # Empty
  BY <1>2 DEF Retested, StructureType, Empty
<1>7. BrokenOut(t, m).reason # Empty
  BY <1>2 DEF BrokenOut, StructureType, Empty
<1>8. [t EXCEPT !.reason = "RETEST_WINDOW_OPEN"].reason # Empty
  BY <1>2 DEF StructureType, Empty
<1>9. /\ Rearmed(t, "RETEST_WINDOW_EXPIRED").reason # Empty
      /\ Rearmed(t, "RETEST_CLOSE_BELOW_ORH").reason # Empty
  BY <1>5 DEF Reasons, Empty
<1> QED BY <1>2, <1>3, <1>4, <1>6, <1>7, <1>8, <1>9 DEF r

\* So compute_structure never calls a full opening range confirmed empty.
LEMMA FullRangeNotEmpty ==
  ASSUME NEW bars \in AnyTape, NEW c, OpeningMinutes \subseteq Present(bars)
  PROVE  Recompute(bars, c).reason # Empty
<1> DEFINE w == Walk(bars)
           T == {m \in Opening..Length : w[m].reason # Empty}
           range == RangeOf(bars)
<1>1. Opening \in Int /\ Length \in Int /\ Opening \in Opening..Length /\ Length \in Opening..Length
  BY RulesAssumption
<1>2. w \in [Opening..Length -> Forms] /\ range \in Forms
  BY WalkFacts, RangeFacts
<1>3. Opening \in T
  <2>1. Established(bars).reason = "OPENING_RANGE_ESTABLISHED"
    <3> HIDE DEF range
    <3> QED BY <1>2 DEF Established, Forms, StructureType, range
  <2> QED BY <1>1, <2>1, WalkFacts DEF Empty
<1>4. ASSUME NEW m \in (Opening + 1)..Length, m - 1 \in T
      PROVE  m \in T
  <2>1. m - 1 \in Minutes /\ m \in Opening..Length /\ m - 1 \in Opening..Length
    BY RulesAssumption DEF Minutes
  <2>2. w[m] = Walked(bars, w[m - 1], m - 1)
    BY WalkFacts
  <2>3. w[m - 1] \in Forms /\ w[m - 1].reason # Empty
    BY <1>2, <1>4, <2>1
  <2> HIDE DEF w
  <2>4. bars[m - 1] # NoBar => bars[m - 1] \in BarType
    BY <2>1 DEF AnyTape
  <2>5. w[m].reason # Empty
    BY <2>1, <2>2, <2>3, <2>4, StepKeepsNonempty DEF Walked
  <2> QED BY <2>1, <2>5
<1>5. \A m \in (Opening + 1)..Length : m - 1 \in T => m \in T
  BY <1>4
<1>6. w[Length].reason # Empty
  <2> HIDE DEF T
  <2>1. \A m \in Opening..Length : m \in T
    BY <1>1, <1>3, <1>5, IntervalInduction
  <2> QED BY <1>1, <2>1 DEF T
<1>7. \/ Recompute(bars, c) = Invalid(range, "OPENING_RANGE_INVALID")
      \/ Recompute(bars, c) = w[Length]
  <2>1. OpeningMinutes \ Present(bars) = {}
    OBVIOUS
  <2> QED BY <2>1 DEF Recompute
<1>8. Invalid(range, "OPENING_RANGE_INVALID").reason # Empty
  <2> HIDE DEF range
  <2> QED BY <1>2 DEF Invalid, Forms, StructureType, Empty
<1> HIDE DEF range, w
<1> QED BY <1>6, <1>7, <1>8

\* What the race of BackfillArms takes: only transactions that overlapped can leave a
\* full opening range stored as confirmed empty.
THEOREM OnlyOverlapDisarms == Spec => [](alone => BackfillArms)
<1>1. Shape /\ Current => (alone => BackfillArms)
  <2> SUFFICES ASSUME Shape, Current, alone, \A m \in 0..(Opening - 1) : Merged(table)[m] # NoBar
               PROVE  structure.reason # "OPENING_RANGE_CONFIRMED_EMPTY"
    BY DEF BackfillArms
  <2>1. structure = Recompute(Merged(table), coverage)
    BY DEF Current, SettledStructureCurrent
  <2>2. OpeningMinutes \subseteq Present(Merged(table))
    BY RulesAssumption DEF OpeningMinutes, Present, Minutes
  <2>3. Merged(table) \in AnyTape
    BY StoredTape
  <2> QED BY <2>1, <2>2, <2>3, FullRangeNotEmpty DEF Empty
<1> QED BY <1>1, CurrentInit, CurrentStep, PTL DEF Spec

=============================================================================
