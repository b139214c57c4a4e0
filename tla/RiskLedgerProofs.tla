-------------------------- MODULE RiskLedgerProofs --------------------------
(***************************************************************************)
(* What TLAPS proves of RiskLedger for every choice of its constants: any  *)
(* number of plans and positions, any geometry build_trade_plan returns,   *)
(* any limits, and no bound on time, seeds or activations in flight other  *)
(* than that MaxTime, MaxSeeds and MaxInflight are natural numbers.        *)
(***************************************************************************)
EXTENDS RiskLedger, Foundations

-----------------------------------------------------------------------------
(* Arithmetic *)

\* Averages and budgets are quotients of naturals.
LEMMA DivType ==
  ASSUME NEW a \in Int, NEW b \in Nat \ {0}
  PROVE  a \div b \in Int /\ (a >= 0 => a \div b \in Nat)
OBVIOUS

\* A position is worth its price times its quantity.
LEMMA ProductType ==
  ASSUME NEW a \in Nat, NEW b \in Nat
  PROVE  a * b \in Nat
OBVIOUS

\* The max(0.0, x) of the code.
LEMMA Max0Type ==
  ASSUME NEW x \in Int
  PROVE  Max0(x) \in Nat /\ Max0(x) >= x /\ (x >= 0 => Max0(x) = x)
BY DEF Max0

\* The risk of a position is a natural number whatever its stop.
LEMMA PositionRiskType ==
  ASSUME NEW avg \in Nat, NEW stop \in Nat, NEW quantity \in Nat
  PROVE  PositionRisk(avg, stop, quantity) \in Nat
<1>1. (avg - stop) * quantity \in Int
  OBVIOUS
<1> QED BY <1>1, Max0Type DEF PositionRisk

\* What every plan's offer satisfies.
LEMMA OfferFacts ==
  ASSUME NEW o \in Offers
  PROVE  /\ o \in OfferType
         /\ o.zone \in Nat \ {0} /\ o.trigger \in Nat /\ o.stop \in Nat \ {0} /\ o.mult \in 1 .. 100
         /\ o.symbol \in Symbols /\ o.trigger <= o.zone
         /\ RiskPerShare(o) \in Nat \ {0}
BY OffersAssumption DEF OfferType, RiskPerShare

-----------------------------------------------------------------------------
(* Types *)

\* The held amounts can be added up.
LEMMA HeldCounts ==
  ASSUME TypeOK, NEW S \in SUBSET Plans
  PROVE  /\ IsFiniteSet(S) /\ IsCount(HeldCash, S) /\ IsCount(HeldRisk, S)
         /\ SumFunctionOnSet(HeldCash, S) \in Nat /\ SumFunctionOnSet(HeldRisk, S) \in Nat
<1>1. IsFiniteSet(S)
  BY PlansAssumption, FS_Subset
<1>2. IsCount(HeldCash, S) /\ IsCount(HeldRisk, S)
  BY DEF TypeOK, IsCount, HeldCash, HeldRisk, ReservationType
<1> QED BY <1>1, <1>2, SumType

\* release_reservation leaves a well-formed wallet.
LEMMA ReleasedWalletType ==
  ASSUME TypeOK, NEW S \in SUBSET Plans
  PROVE  ReleasedWallet(S) \in WalletType
<1> DEFINE c == SumFunctionOnSet(HeldCash, S)
           r == SumFunctionOnSet(HeldRisk, S)
<1>1. c \in Nat /\ r \in Nat
  BY HeldCounts
<1> HIDE DEF c, r
<1>2. Max0(wallet.reserved - c) \in Nat /\ Max0(wallet.risk - r) \in Nat
  BY <1>1, Max0Type DEF TypeOK, WalletType
<1>3. ReleasedWallet(S) =
        [wallet EXCEPT !.reserved = Max0(wallet.reserved - c), !.risk = Max0(wallet.risk - r)]
  BY DEF ReleasedWallet, TypeOK, WalletType, c, r
<1> QED BY <1>2, <1>3 DEF TypeOK, WalletType

\* A released plan has a status, and it is not RESERVED.
LEMMA ReleasedStatusType ==
  ASSUME TypeOK, NEW p \in Plans, NEW reason
  PROVE  /\ ReleasedStatus(p, reason) \in Statuses
         /\ ReleasedStatus(p, reason) # "RESERVED"
         /\ plan[p].status # "RESERVED" => ReleasedStatus(p, reason) = plan[p].status
         /\ plan[p].status = "RESERVED" => ReleasedStatus(p, reason) \in {"ACTIVE", "FILLED"}
BY DEF ReleasedStatus, TypeOK, PlanType, Statuses

\* Neither is one the sweep touched; so a plan that is RESERVED after the sweep
\* was not swept, nor was its reservation.
LEMMA SweepFacts ==
  ASSUME TypeOK, NEW t \in Nat
  PROVE  /\ SweptWallet(t) \in WalletType
         /\ SweptResv(t) \in [Plans -> ReservationType]
         /\ SweptPlan(t) \in [Plans -> PlanType]
         /\ \A p \in Plans :
              /\ SweptPlan(t)[p].offer = plan[p].offer
              /\ SweptPlan(t)[p].expires = plan[p].expires
              /\ p \notin SweptPlans(t) => SweptPlan(t)[p] = plan[p] /\ SweptResv(t)[p] = resv[p]
              /\ p \in SweptPlans(t) => /\ SweptPlan(t)[p].status # "RESERVED"
                                        /\ SweptPlan(t)[p].status # "NEW" \/ plan[p].status = "NEW"
                                        /\ SweptResv(t)[p] = NoReservation
              /\ plan[p].status \in Terminal => SweptPlan(t)[p].status = plan[p].status
<1>1. SweptWallet(t) \in WalletType
  BY ReleasedWalletType DEF SweptWallet, SweptHolds, SweptPlans, ExpiredPlans, LapsedPlans
<1>2. SweptResv(t) \in [Plans -> ReservationType]
  BY DEF SweptResv, NoReservation, ReservationType, TypeOK
<1>3. ASSUME NEW p \in Plans
      PROVE  /\ SweptPlan(t)[p] \in PlanType
             /\ SweptPlan(t)[p].offer = plan[p].offer
             /\ SweptPlan(t)[p].expires = plan[p].expires
             /\ p \notin SweptPlans(t) => SweptPlan(t)[p] = plan[p] /\ SweptResv(t)[p] = resv[p]
             /\ p \in SweptPlans(t) => /\ SweptPlan(t)[p].status # "RESERVED"
                                       /\ SweptPlan(t)[p].status # "NEW" \/ plan[p].status = "NEW"
                                       /\ SweptResv(t)[p] = NoReservation
             /\ plan[p].status \in Terminal => SweptPlan(t)[p].status = plan[p].status
  <2>1. plan[p] \in PlanType
    BY DEF TypeOK
  <2>2. CASE p \in ExpiredPlans(t)
    <3>1. SweptPlan(t)[p] = [plan[p] EXCEPT !.status = "EXPIRED"]
      BY <2>2 DEF SweptPlan
    <3>2. plan[p].status \in Live /\ p \in SweptPlans(t)
      BY <2>2 DEF ExpiredPlans, SweptPlans
    <3> QED BY <2>1, <3>1, <3>2 DEF PlanType, Statuses, SweptResv, Live, Terminal
  <2>3. CASE p \in LapsedPlans(t)
    <3> DEFINE status == ReleasedStatus(p, "RESERVATION_EXPIRED")
    <3>1. SweptPlan(t)[p] = [plan[p] EXCEPT !.status = status]
      BY <2>3 DEF SweptPlan, LapsedPlans
    <3>2. p \in SweptPlans(t)
      BY <2>3 DEF SweptPlans
    <3>3. /\ status \in Statuses /\ status # "RESERVED"
          /\ plan[p].status # "RESERVED" => status = plan[p].status
          /\ plan[p].status = "RESERVED" => status \in {"ACTIVE", "FILLED"}
      BY ReleasedStatusType
    <3> HIDE DEF status
    <3> QED BY <2>1, <3>1, <3>2, <3>3 DEF PlanType, SweptResv, Terminal
  <2>4. CASE p \notin SweptPlans(t)
    <3>1. SweptPlan(t)[p] = plan[p] /\ SweptResv(t)[p] = resv[p]
      BY <2>4 DEF SweptPlan, SweptResv, SweptPlans
    <3> QED BY <2>1, <2>4, <3>1
  <2> QED BY <2>2, <2>3, <2>4 DEF SweptPlans
<1>4. SweptPlan(t) \in [Plans -> PlanType]
  BY <1>3 DEF SweptPlan
<1> QED BY <1>1, <1>2, <1>3, <1>4

\* size_from_wallet returns a number of shares.
LEMMA SizeType ==
  ASSUME NEW w \in WalletType, NEW o \in Offers
  PROVE  SizeFromWallet(w, o) \in Nat
<1> DEFINE daily == DailyCap(w) - w.loss - w.risk
           budget == (Lesser(TradeRisk(w), daily) * o.mult) \div 100
           byRisk == budget \div RiskPerShare(o)
           byCash == FreeCash(w) \div o.zone
           byNotional == NotionalCap(w) \div o.zone
<1>1. w.capital \in Nat /\ w.cash \in Int /\ w.reserved \in Nat /\ w.risk \in Nat /\ w.loss \in Nat
  BY DEF WalletType
<1>2. TradeRisk(w) \in Int /\ DailyCap(w) \in Int /\ NotionalCap(w) \in Int
  BY <1>1, LimitsAssumption, DivType DEF TradeRisk, DailyCap, NotionalCap
<1>3. FreeCash(w) \in Int
  BY <1>1, Max0Type DEF FreeCash
<1>4. Lesser(TradeRisk(w), daily) \in Int
  BY <1>1, <1>2 DEF Lesser
<1>5. o.zone \in Nat \ {0} /\ o.mult \in Nat /\ RiskPerShare(o) \in Nat \ {0}
  BY OfferFacts
<1>6. budget \in Int
  BY <1>4, <1>5, DivType
<1>7. byRisk \in Int /\ byCash \in Int /\ byNotional \in Int
  <2> HIDE DEF budget
  <2> QED BY <1>2, <1>3, <1>5, <1>6, DivType
<1> HIDE DEF byRisk, byCash, byNotional
<1>8. Max0(Lesser(byRisk, Lesser(byCash, byNotional))) \in Nat
  BY <1>7, Max0Type DEF Lesser
<1>9. SizeFromWallet(w, o) = IF w.cash <= 0 \/ daily <= 0 THEN 0
                             ELSE Max0(Lesser(byRisk, Lesser(byCash, byNotional)))
  BY DEF SizeFromWallet, byRisk, byCash, byNotional
<1> QED BY <1>8, <1>9

\* The position a fill produces, for any stop order it carries.
LEMMA FilledPositionType ==
  ASSUME TypeOK, NEW p \in Plans, NEW f \in Fills, NEW i \in Slots
  PROVE  /\ FilledPosition(p, f, i) \in PositionType
         /\ FilledPosition(p, f, i).quantity > 0
         /\ BookedRisk(FilledPosition(p, f, i)) \in Nat
<1> DEFINE old == pos[i]
           quantity == old.quantity + f.quantity
           avg == (old.avg * old.quantity + f.price * f.quantity) \div quantity
<1>1. old \in PositionType
  BY DEF TypeOK
<1>2. f.price \in Nat /\ f.quantity \in Nat \ {0} /\ f.stop \in Nat
  BY RequestsAssumption
<1>3. /\ old.quantity \in Nat /\ old.remaining \in Nat /\ old.avg \in Nat
      /\ old.stop \in Nat /\ old.covered \in Nat
  BY <1>1 DEF PositionType
<1>4. quantity \in Nat \ {0}
  BY <1>2, <1>3
<1>5. old.avg * old.quantity \in Nat /\ f.price * f.quantity \in Nat
  BY <1>2, <1>3, ProductType
<1>6. avg \in Nat
  <2> HIDE DEF quantity, old
  <2> QED BY <1>4, <1>5, DivType
<1>7. plan[p].offer \in Offers
  BY DEF TypeOK, PlanType
<1>8. EffectiveStop(p, f, i) \in Nat /\ plan[p].offer.symbol \in Symbols
  BY <1>2, <1>3, <1>7, OfferFacts DEF EffectiveStop
<1> DEFINE x == FilledPosition(p, f, i)
<1>9. /\ x.quantity = quantity /\ x.avg = avg /\ x.stop = EffectiveStop(p, f, i)
      /\ x \in PositionType
  <2> HIDE DEF avg
  <2>1. FilledPosition(p, f, i).avg = avg
    BY DEF FilledPosition, avg
  <2>2. f.quantity + old.remaining \in Nat
    BY <1>2, <1>3
  <2> QED BY <1>2, <1>3, <1>4, <1>6, <1>8, <2>1, <2>2 DEF FilledPosition, PositionType, Protection
<1> HIDE DEF x, avg
<1>10. BookedRisk(x) \in Nat
  BY <1>4, <1>6, <1>8, <1>9, PositionRiskType DEF BookedRisk
<1> QED BY <1>4, <1>9, <1>10 DEF x

\* What a fill that passes the checks knows: its plan was not swept and what is
\* left of the reservation is well formed.
LEMMA FillFacts ==
  ASSUME TypeOK, NEW p \in Plans, NEW f \in Fills, NEW i \in Slots, FillAccepted(p, f, i)
  PROVE  /\ p \notin SweptPlans(now)
         /\ plan[p].status = "RESERVED" /\ Holding(p)
         /\ f.quantity <= resv[p].quantity
         /\ FilledReservation(p, f) \in ReservationType
         /\ FilledReservation(p, f).quantity = resv[p].quantity - f.quantity
         /\ FilledReservation(p, f).quantity = 0 => FilledReservation(p, f) = NoReservation
<1>1. now \in Nat
  BY DEF TypeOK
<1>2. SweptPlan(now)[p].status = "RESERVED"
  BY DEF FillAccepted
<1>3. p \notin SweptPlans(now) /\ SweptPlan(now)[p] = plan[p] /\ SweptResv(now)[p] = resv[p]
  BY <1>1, <1>2, SweepFacts
<1>4. resv[p].quantity > 0 /\ f.quantity <= resv[p].quantity
  BY <1>3 DEF FillAccepted
<1>5. f.quantity \in Nat \ {0}
  BY RequestsAssumption
<1>6. resv[p] \in ReservationType
  BY DEF TypeOK
<1> DEFINE left == resv[p].quantity - f.quantity
           o == plan[p].offer
<1>7. left \in Nat
  BY <1>4, <1>5, <1>6 DEF ReservationType
<1>8. o.zone \in Nat /\ RiskPerShare(o) \in Nat
  BY OfferFacts DEF TypeOK, PlanType
<1>9. left * o.zone \in Nat /\ left * RiskPerShare(o) \in Nat
  <2> HIDE DEF left, o
  <2> QED BY <1>7, <1>8, ProductType
<1> DEFINE cash == left * o.zone
           risk == left * RiskPerShare(o)
<1>10. FilledReservation(p, f) = IF left = 0 THEN NoReservation
         ELSE [resv[p] EXCEPT !.quantity = left, !.cash = cash, !.risk = risk]
  BY DEF FilledReservation
<1> HIDE DEF cash, risk
<1>11. FilledReservation(p, f) \in ReservationType /\ FilledReservation(p, f).quantity = left
  <2>1. cash \in Nat /\ risk \in Nat
    BY <1>9 DEF cash, risk
  <2> HIDE DEF left, o
  <2>2. CASE left = 0
    BY <1>10, <2>2 DEF ReservationType, NoReservation
  <2>3. CASE left # 0
    <3> DEFINE r == resv[p]
    <3>1. FilledReservation(p, f) = [r EXCEPT !.quantity = left, !.cash = cash, !.risk = risk]
      BY <1>10, <2>3
    <3>2. r \in ReservationType
      BY <1>6
    <3> HIDE DEF r
    <3> QED BY <1>7, <2>1, <3>1, <3>2 DEF ReservationType
  <2> QED BY <2>2, <2>3
<1>12. left = 0 => FilledReservation(p, f) = NoReservation
  BY <1>10
<1> QED BY <1>2, <1>3, <1>4, <1>11, <1>12 DEF Holding, left

\* Every action of the ledger, named for the proofs that go action by action.
LEMMA NextCases ==
  ASSUME Next
  PROVE  \/ \E s \in Seeds : SeedWallet(s)
         \/ \E p \in Plans, o \in Offers : BuildPlan(p, o)
         \/ \E p \in Plans : RecordTriggerHit(p)
         \/ \E p \in Plans : ReleaseReservation(p)
         \/ \E p \in Plans : ActivateBegin(p)
         \/ SweepExpired
         \/ \E a \in inflight : ActivateFails(a)
         \/ \E a \in inflight : ActivateExpired(a)
         \/ \E a \in inflight : ActivateAtLimit(a)
         \/ \E a \in inflight : ActivateKeeps(a)
         \/ \E a \in inflight, b \in BOOLEAN : ActivateEvaluates(a, b)
         \/ \E p \in Plans, f \in Fills, i \in Slots : ConfirmFill(p, f, i)
         \/ \E i \in Slots, stop \in Stops : ProtectPosition(i, stop)
         \/ \E i \in Slots, x \in Exits : ConfirmExit(i, x)
         \/ \E i \in Slots, m \in Imports : ImportPosition(i, m)
         \/ Tick
<1>1. \/ \E s \in Seeds : SeedWallet(s)
      \/ \E p \in Plans, o \in Offers : BuildPlan(p, o)
      \/ \E p \in Plans : RecordTriggerHit(p) \/ ReleaseReservation(p) \/ ActivateBegin(p)
      \/ SweepExpired
      \/ \E a \in inflight : \/ ActivateFails(a) \/ ActivateExpired(a) \/ ActivateAtLimit(a)
                             \/ ActivateKeeps(a) \/ \E b \in BOOLEAN : ActivateEvaluates(a, b)
      \/ \E p \in Plans, f \in Fills, i \in Slots : ConfirmFill(p, f, i)
      \/ \E i \in Slots : \/ \E stop \in Stops : ProtectPosition(i, stop)
                          \/ \E x \in Exits : ConfirmExit(i, x)
                          \/ \E m \in Imports : ImportPosition(i, m)
      \/ Tick
  BY Zenon DEF Next
<1> QED BY <1>1

\* Sharing the conclusion of release_reservation between the actions that call it.
LEMMA ReleaseType ==
  ASSUME TypeOK, NEW p \in Plans, NEW S \in SUBSET Plans, NEW status \in Statuses,
         wallet' = ReleasedWallet(S),
         resv' = [resv EXCEPT ![p] = NoReservation],
         plan' = WithStatus(p, status)
  PROVE  /\ wallet' \in WalletType
         /\ resv' \in [Plans -> ReservationType]
         /\ plan' \in [Plans -> PlanType]
<1>1. wallet' \in WalletType
  BY ReleasedWalletType
<1>2. NoReservation \in ReservationType
  BY DEF NoReservation, ReservationType
<1>3. resv' \in [Plans -> ReservationType]
  BY <1>2 DEF TypeOK
<1>4. [plan[p] EXCEPT !.status = status] \in PlanType
  BY DEF TypeOK, PlanType
<1>5. plan' = [plan EXCEPT ![p] = [plan[p] EXCEPT !.status = status]]
  BY DEF WithStatus
<1>6. plan' \in [Plans -> PlanType]
  BY <1>4, <1>5 DEF TypeOK
<1> QED BY <1>1, <1>3, <1>6

\* What an activation that reaches activate_plan writes: if it reserves, the n shares
\* it takes at the zone's upper price; if not, the release of a lapsed reservation.
Granted(a, n, reserve, taken, status) ==
  LET p == a.plan
      w == ReleasedWallet(IF Holding(p) THEN {p} ELSE {})
  IN  /\ reserve => n > 0 /\ status = "RESERVED"
      /\ ~reserve => status = ReleasedStatus(p, "RESERVATION_EXPIRED")
      /\ taken.quantity = n /\ taken.cash = n * plan[p].offer.zone
      /\ resv' = [resv EXCEPT ![p] = IF reserve THEN taken ELSE NoReservation]
      /\ plan' = WithStatus(p, status)
      /\ journal' = Replayed(reserve \/ Holding(p), IF reserve \/ Holding(p) THEN {p} ELSE {},
                            IF reserve THEN {p} ELSE {},
                            IF ~reserve /\ Holding(p) THEN {p} ELSE {}, {})
      /\ wallet' = IF reserve THEN [w EXCEPT !.reserved = w.reserved + taken.cash,
                                             !.risk = w.risk + taken.risk]
                   ELSE w

\* Every evaluation is such a step.
LEMMA EvaluatesFacts ==
  ASSUME TypeOK, NEW a \in inflight, NEW b \in BOOLEAN, ActivateEvaluates(a, b)
  PROVE  \E n \in Nat, reserve \in BOOLEAN, taken \in ReservationType, status \in Statuses :
           Granted(a, n, reserve, taken, status)
<1> DEFINE p == a.plan
           o == plan[p].offer
           held == IF Holding(p) THEN {p} ELSE {}
           w == ReleasedWallet(held)
           n == SizeFromWallet(w, o)
           reserve == b /\ n > 0
           taken == [quantity |-> n, cash |-> n * o.zone, risk |-> n * RiskPerShare(o),
                     expires |-> a.at + ReservationTTL]
           status == IF reserve THEN "RESERVED" ELSE ReleasedStatus(p, "RESERVATION_EXPIRED")
<1>1. p \in Plans /\ a.at \in Nat
  BY DEF TypeOK, InflightType
<1>2. o \in Offers
  BY <1>1 DEF TypeOK, PlanType
<1>3. w \in WalletType
  BY <1>1, ReleasedWalletType
<1>4. n \in Nat
  <2> HIDE DEF w, o
  <2> QED BY <1>2, <1>3, SizeType
<1>5. n * o.zone \in Nat /\ n * RiskPerShare(o) \in Nat
  <2> HIDE DEF n, o
  <2> QED BY <1>2, <1>4, OfferFacts, ProductType
<1>6. taken \in ReservationType
  <2> DEFINE c == n * o.zone
             k == n * RiskPerShare(o)
  <2> HIDE DEF n, c, k
  <2> QED BY <1>1, <1>4, <1>5, LimitsAssumption DEF ReservationType, c, k
<1>7. status \in Statuses
  <2> HIDE DEF reserve, p
  <2> QED BY <1>1, ReleasedStatusType DEF Statuses
<1>8. /\ wallet' = IF reserve THEN [w EXCEPT !.reserved = @ + taken.cash, !.risk = @ + taken.risk]
                   ELSE w
      /\ resv' = [resv EXCEPT ![p] = IF reserve THEN taken ELSE NoReservation]
      /\ plan' = WithStatus(p, status)
      /\ journal' = Replayed(reserve \/ held # {}, IF reserve THEN {p} ELSE held,
                 IF reserve THEN {p} ELSE {}, IF reserve THEN {} ELSE held, {})
  BY Zenon DEF ActivateEvaluates, Journal
<1>9. reserve \in BOOLEAN
  OBVIOUS
<1>10. /\ (reserve \/ held # {}) = (reserve \/ Holding(p))
       /\ (IF reserve THEN {p} ELSE held) = (IF reserve \/ Holding(p) THEN {p} ELSE {})
       /\ (IF reserve THEN {} ELSE held) = (IF ~reserve /\ Holding(p) THEN {p} ELSE {})
  <2> HIDE DEF reserve
  <2> QED BY <1>9
<1>11. taken.quantity = n /\ taken.cash = n * o.zone
  BY Zenon
<1>12. reserve => n > 0
  OBVIOUS
<1>13. wallet' = IF reserve THEN [w EXCEPT !.reserved = w.reserved + taken.cash,
                                           !.risk = w.risk + taken.risk]
                 ELSE w
  <2> HIDE DEF w, taken, reserve
  <2> QED BY <1>3, <1>8 DEF WalletType
<1>14. journal' = Replayed(reserve \/ Holding(p), IF reserve \/ Holding(p) THEN {p} ELSE {},
                    IF reserve THEN {p} ELSE {}, IF ~reserve /\ Holding(p) THEN {p} ELSE {}, {})
  <2> HIDE DEF reserve, held
  <2> QED BY <1>8, <1>10
<1>15. (reserve => status = "RESERVED") /\ (~reserve => status = ReleasedStatus(p, "RESERVATION_EXPIRED"))
  OBVIOUS
<1>16. /\ resv' = [resv EXCEPT ![p] = IF reserve THEN taken ELSE NoReservation]
       /\ plan' = WithStatus(p, status)
       /\ wallet' = IF reserve THEN [ReleasedWallet(IF Holding(p) THEN {p} ELSE {}) EXCEPT
                         !.reserved = ReleasedWallet(IF Holding(p) THEN {p} ELSE {}).reserved + taken.cash,
                         !.risk = ReleasedWallet(IF Holding(p) THEN {p} ELSE {}).risk + taken.risk]
                    ELSE ReleasedWallet(IF Holding(p) THEN {p} ELSE {})
  <2> HIDE DEF taken, reserve, status
  <2> QED BY <1>8, <1>13
<1>17. Granted(a, n, reserve, taken, status)
  <2> HIDE DEF reserve, taken, status, n
  <2> QED BY <1>11, <1>12, <1>14, <1>15, <1>16 DEF Granted
<1> HIDE DEF reserve, taken, status, n
<1> QED BY <1>4, <1>6, <1>7, <1>9, <1>17

\* The reservation an activation takes is well formed, and so is the wallet.
LEMMA EvaluatesType ==
  ASSUME TypeOK, NEW a \in inflight, NEW b \in BOOLEAN, ActivateEvaluates(a, b)
  PROVE  /\ wallet' \in WalletType
         /\ resv' \in [Plans -> ReservationType]
         /\ plan' \in [Plans -> PlanType]
<1> DEFINE p == a.plan
           w == ReleasedWallet(IF Holding(p) THEN {p} ELSE {})
<1>1. p \in Plans
  BY DEF TypeOK, InflightType
<1>a. PICK n \in Nat, reserve \in BOOLEAN, taken \in ReservationType, status \in Statuses :
        Granted(a, n, reserve, taken, status)
  BY EvaluatesFacts
<1>2. /\ resv' = [resv EXCEPT ![p] = IF reserve THEN taken ELSE NoReservation]
      /\ plan' = WithStatus(p, status)
      /\ wallet' = IF reserve THEN [w EXCEPT !.reserved = w.reserved + taken.cash,
                                             !.risk = w.risk + taken.risk]
                   ELSE w
  BY <1>a DEF Granted
<1>3. w \in WalletType
  BY <1>1, ReleasedWalletType
<1>4. wallet' \in WalletType
  <2> HIDE DEF w
  <2>1. w.reserved + taken.cash \in Nat /\ w.risk + taken.risk \in Nat
    BY <1>3 DEF WalletType, ReservationType
  <2>2. [w EXCEPT !.reserved = w.reserved + taken.cash, !.risk = w.risk + taken.risk] \in WalletType
    BY <1>3, <2>1 DEF WalletType
  <2> QED BY <1>2, <1>3, <2>2
<1>5. resv' \in [Plans -> ReservationType]
  BY <1>1, <1>2 DEF TypeOK, NoReservation, ReservationType
<1>6. [plan[p] EXCEPT !.status = status] \in PlanType
  BY <1>1, <1>2 DEF TypeOK, PlanType
<1>7. plan' = [plan EXCEPT ![p] = [plan[p] EXCEPT !.status = status]]
  BY <1>2 DEF WithStatus
<1> QED BY <1>4, <1>5, <1>6, <1>7 DEF TypeOK

\* The tables after an accepted fill, its sweep included, are well formed.
LEMMA FillType ==
  ASSUME TypeOK, NEW p \in Plans, NEW f \in Fills, NEW i \in Slots, ConfirmFill(p, f, i)
  PROVE  /\ wallet' \in WalletType
         /\ resv' \in [Plans -> ReservationType]
         /\ plan' \in [Plans -> PlanType]
         /\ pos' \in [Slots -> PositionType]
<1>1. FillAccepted(p, f, i) /\ AccountingHolds(p, f, i) /\ wallet' = FilledWallet(p, f, i)
  BY DEF ConfirmFill
<1>2. /\ SweptWallet(now) \in WalletType
      /\ SweptResv(now) \in [Plans -> ReservationType]
      /\ SweptPlan(now) \in [Plans -> PlanType]
  BY SweepFacts DEF TypeOK
<1>3. FilledReservation(p, f) \in ReservationType
  BY <1>1, FillFacts
<1>4. FilledPosition(p, f, i) \in PositionType /\ BookedRisk(FilledPosition(p, f, i)) \in Nat
  BY FilledPositionType
<1>5. resv' \in [Plans -> ReservationType]
  BY <1>2, <1>3 DEF ConfirmFill
<1>6. pos' \in [Slots -> PositionType]
  BY <1>4 DEF ConfirmFill, TypeOK
<1>7. plan' \in [Plans -> PlanType]
  <2> DEFINE status == IF f.quantity = resv[p].quantity THEN "FILLED" ELSE "RESERVED"
  <2>1. plan' = [SweptPlan(now) EXCEPT ![p].status = status]
    BY DEF ConfirmFill
  <2>2. [SweptPlan(now)[p] EXCEPT !.status = status] \in PlanType
    BY <1>2 DEF PlanType, Statuses
  <2>3. plan' = [SweptPlan(now) EXCEPT ![p] = [SweptPlan(now)[p] EXCEPT !.status = status]]
    BY <2>1
  <2> HIDE DEF status
  <2> QED BY <1>2, <2>2, <2>3
<1>8. wallet' \in WalletType
  <2> DEFINE w == SweptWallet(now)
             reserved == w.reserved - CashReleased(p, f)
             risk == w.risk - resv[p].risk + FilledReservation(p, f).risk - BookedRisk(pos[i])
                       + BookedRisk(FilledPosition(p, f, i))
             cash == w.cash - f.price * f.quantity
  <2>1. FilledWallet(p, f, i) = [w EXCEPT !.reserved = reserved, !.risk = risk, !.cash = cash]
    BY <1>2 DEF FilledWallet, WalletType
  <2>2. BookedRisk(pos[i]) \in Nat
    BY PositionRiskType DEF BookedRisk, TypeOK, PositionType
  <2>3. CashReleased(p, f) \in Int
    BY <1>3 DEF CashReleased, ReservationType, TypeOK
  <2>4. f.price \in Nat /\ f.quantity \in Nat
    BY RequestsAssumption
  <2>5. w.reserved \in Nat /\ w.risk \in Nat /\ w.cash \in Int
    BY <1>2 DEF WalletType
  <2>6. reserved \in Int
    BY <2>3, <2>5
  <2>7. f.price * f.quantity \in Nat
    BY <2>4, ProductType
  <2>8. cash \in Int
    BY <2>5, <2>7
  <2>9. risk \in Int
    <3>1. resv[p].risk \in Nat /\ FilledReservation(p, f).risk \in Nat
      BY <1>3 DEF ReservationType, TypeOK
    <3> HIDE DEF w
    <3> QED BY <1>4, <2>2, <2>5, <3>1
  <2> HIDE DEF w, reserved, risk, cash
  <2>10. reserved >= 0 /\ risk >= 0
    <3>1. /\ FilledWallet(p, f, i).reserved = reserved
          /\ FilledWallet(p, f, i).risk = risk
      BY <1>2, <2>1 DEF WalletType, w
    <3> QED BY <1>1, <3>1 DEF AccountingHolds
  <2>11. reserved \in Nat /\ risk \in Nat
    BY <2>6, <2>9, <2>10
  <2>12. w \in WalletType
    BY <1>2 DEF w
  <2> QED BY <1>1, <2>1, <2>8, <2>11, <2>12 DEF WalletType
<1> QED BY <1>5, <1>6, <1>7, <1>8

\* Protecting, selling and importing keep the wallet and the positions well formed.
LEMMA PositionStepType ==
  ASSUME TypeOK, NEW i \in Slots,
         \/ \E stop \in Stops : ProtectPosition(i, stop)
         \/ \E x \in Exits : ConfirmExit(i, x)
         \/ \E m \in Imports : ImportPosition(i, m)
  PROVE  wallet' \in WalletType /\ pos' \in [Slots -> PositionType]
<1>1. /\ pos[i] \in PositionType /\ wallet \in WalletType
      /\ pos[i].avg \in Nat /\ pos[i].stop \in Nat /\ pos[i].remaining \in Nat
      /\ wallet.risk \in Nat /\ wallet.cash \in Int /\ wallet.loss \in Nat
  BY DEF TypeOK, PositionType, WalletType
<1>2. ASSUME NEW stop \in Stops, ProtectPosition(i, stop)
      PROVE  wallet' \in WalletType /\ pos' \in [Slots -> PositionType]
  <2> DEFINE risk == wallet.risk - PositionRisk(pos[i].avg, pos[i].stop, pos[i].remaining)
                       + PositionRisk(pos[i].avg, stop, pos[i].remaining)
             y == [pos[i] EXCEPT !.stop = stop, !.covered = pos[i].remaining,
                                 !.protection = "PROTECTED"]
  <2>1. stop \in Nat
    BY RequestsAssumption
  <2>2. risk \in Int
    <3>1. /\ PositionRisk(pos[i].avg, pos[i].stop, pos[i].remaining) \in Nat
          /\ PositionRisk(pos[i].avg, stop, pos[i].remaining) \in Nat
      BY <1>1, <2>1, PositionRiskType
    <3> QED BY <1>1, <3>1
  <2>3. risk >= 0 /\ wallet' = [wallet EXCEPT !.risk = risk] /\ pos' = [pos EXCEPT ![i] = y]
    BY <1>2 DEF ProtectPosition
  <2> HIDE DEF risk
  <2>4. y \in PositionType
    BY <1>1, <2>1 DEF PositionType
  <2> HIDE DEF y
  <2> QED BY <2>2, <2>3, <2>4 DEF TypeOK, WalletType
<1>3. ASSUME NEW x \in Exits, ConfirmExit(i, x)
      PROVE  wallet' \in WalletType /\ pos' \in [Slots -> PositionType]
  <2> DEFINE stop == IF pos[i].stop = NoStop THEN pos[i].avg ELSE pos[i].stop
             pnl == (x.price - pos[i].avg) * x.quantity
             cash == wallet.cash + x.price * x.quantity
             risk == Max0(wallet.risk - PositionRisk(pos[i].avg, stop, x.quantity))
             loss == wallet.loss + Max0(-pnl)
             y == [pos[i] EXCEPT !.remaining = pos[i].remaining - x.quantity]
  <2>1. x.price \in Nat /\ x.quantity \in Nat /\ stop \in Nat /\ x.quantity <= pos[i].remaining
    BY <1>1, <1>3, RequestsAssumption DEF ConfirmExit
  <2>2. pnl \in Int /\ x.price * x.quantity \in Int
    BY <1>1, <2>1
  <2>3. PositionRisk(pos[i].avg, stop, x.quantity) \in Nat
    <3> HIDE DEF stop
    <3> QED BY <1>1, <2>1, PositionRiskType
  <2>4. Max0(-pnl) \in Nat
    <3> HIDE DEF pnl
    <3> QED BY <2>2, Max0Type
  <2>5. cash \in Int /\ loss \in Nat
    <3> HIDE DEF pnl
    <3> QED BY <1>1, <2>2, <2>4
  <2>6. risk \in Nat
    <3> HIDE DEF stop
    <3> QED BY <1>1, <2>3, Max0Type
  <2>7. /\ wallet' = [wallet EXCEPT !.cash = cash, !.risk = risk, !.loss = loss]
        /\ pos' = [pos EXCEPT ![i] = y]
    <3>1. /\ pos' = [pos EXCEPT ![i].remaining = @ - x.quantity]
          /\ wallet' = [wallet EXCEPT
               !.cash = @ + x.price * x.quantity,
               !.risk = Max0(@ - PositionRisk(pos[i].avg, stop, x.quantity)),
               !.loss = @ + Max0(-pnl)]
      BY <1>3 DEF ConfirmExit
    <3> QED BY <1>1, <3>1 DEF WalletType
  <2> HIDE DEF cash, risk, loss
  <2>8. y \in PositionType
    BY <1>1, <2>1 DEF PositionType
  <2> HIDE DEF y
  <2> QED BY <2>5, <2>6, <2>7, <2>8 DEF TypeOK, WalletType
<1>4. ASSUME NEW m \in Imports, ImportPosition(i, m)
      PROVE  wallet' \in WalletType /\ pos' \in [Slots -> PositionType]
  <2> DEFINE notional == m.price * m.quantity
             more == IF m.stop = NoStop THEN notional
                     ELSE PositionRisk(m.price, m.stop, m.quantity)
  <2>1. /\ m.price \in Nat /\ m.quantity \in Nat /\ m.stop \in Nat /\ m.symbol \in Symbols
    BY RequestsAssumption
  <2>2. notional \in Nat
    BY <2>1, ProductType
  <2>3. more \in Nat
    <3> HIDE DEF notional
    <3> QED BY <2>1, <2>2, PositionRiskType
  <2>4. wallet' = [wallet EXCEPT !.cash = wallet.cash - notional, !.risk = wallet.risk + more]
    <3>1. wallet' = [wallet EXCEPT !.cash = @ - notional, !.risk = @ + more]
      BY <1>4 DEF ImportPosition
    <3> HIDE DEF notional, more
    <3> QED BY <1>1, <3>1 DEF WalletType
  <2> HIDE DEF notional, more
  <2>5. wallet.cash - notional \in Int /\ wallet.risk + more \in Nat
    BY <1>1, <2>2, <2>3
  <2>6. wallet' \in WalletType
    BY <1>1, <2>4, <2>5 DEF WalletType
  <2>7. pos' \in [Slots -> PositionType]
    BY <1>4, <2>1 DEF ImportPosition, TypeOK, PositionType
  <2> QED BY <2>6, <2>7
<1> QED BY <1>2, <1>3, <1>4

-----------------------------------------------------------------------------
(* The type invariant *)

\* The empty records of the initial state are well formed.
LEMMA EmptyTypes ==
  /\ NoReservation \in ReservationType
  /\ NoPosition \in PositionType
  /\ Unissued \in PlanType
BY NamesAssumption
   DEF NoReservation, NoPosition, Unissued, ReservationType, PositionType, PlanType, Statuses, NoStop

\* The initial tables are well formed.
LEMMA TypeInit == Init => TypeOK
<1> SUFFICES ASSUME Init PROVE TypeOK
  OBVIOUS
<1>1. wallet \in WalletType
  BY DEF Init, WalletType
<1>2. /\ plan \in [Plans -> PlanType] /\ resv \in [Plans -> ReservationType]
      /\ pos \in [Slots -> PositionType]
  BY EmptyTypes DEF Init
<1> QED BY <1>1, <1>2 DEF Init, TypeOK

\* Every method of the service keeps every table well formed.
LEMMA TypeStep ==
  ASSUME TypeOK, [Next]_vars
  PROVE  TypeOK'
<1> USE DEF TypeOK
<1>1. ASSUME NEW s \in Seeds, SeedWallet(s) PROVE TypeOK'
  <2>1. s.capital \in Nat /\ s.cash \in Nat
    BY RequestsAssumption
  <2>2. wallet' \in WalletType
    BY <1>1, <2>1 DEF SeedWallet, WalletType
  <2> QED BY <1>1, <2>2 DEF SeedWallet
<1>2. ASSUME NEW p \in Plans, NEW o \in Offers, BuildPlan(p, o) PROVE TypeOK'
  <2>1. now + PlanTTL \in Nat
    BY LimitsAssumption
  <2>2. plan' \in [Plans -> PlanType]
    BY <1>2, <2>1 DEF BuildPlan, PlanType, Statuses
  <2> QED BY <1>2, <2>2 DEF BuildPlan
<1>3. ASSUME NEW p \in Plans, RecordTriggerHit(p) PROVE TypeOK'
  <2>1. plan[p] \in PlanType
    OBVIOUS
  <2>2. Deadline(p) \in Nat
    BY <2>1, LimitsAssumption DEF Deadline, PlanType
  <2>3. plan' = [plan EXCEPT ![p] = [plan[p] EXCEPT !.triggered = TRUE, !.expires = Deadline(p)]]
    BY <1>3 DEF RecordTriggerHit
  <2>4. [plan[p] EXCEPT !.triggered = TRUE, !.expires = Deadline(p)] \in PlanType
    BY <2>1, <2>2 DEF PlanType
  <2>5. plan' \in [Plans -> PlanType]
    BY <2>3, <2>4
  <2> QED BY <1>3, <2>5 DEF RecordTriggerHit
<1>4. ASSUME NEW p \in Plans, ReleaseReservation(p) PROVE TypeOK'
  <2>1. ReleasedStatus(p, "USER_RELEASED") \in Statuses
    BY ReleasedStatusType
  <2>2. /\ wallet' \in WalletType /\ resv' \in [Plans -> ReservationType]
        /\ plan' \in [Plans -> PlanType]
    BY <1>4, <2>1, ReleaseType DEF ReleaseReservation
  <2> QED BY <1>4, <2>2 DEF ReleaseReservation
<1>5. ASSUME NEW p \in Plans, ActivateBegin(p) PROVE TypeOK'
  <2>1. /\ wallet' \in WalletType /\ resv' \in [Plans -> ReservationType]
        /\ plan' \in [Plans -> PlanType]
    BY <1>5, SweepFacts DEF ActivateBegin
  <2>2. inflight' \subseteq InflightType
    BY <1>5 DEF ActivateBegin, InflightType
  <2> QED BY <1>5, <2>1, <2>2 DEF ActivateBegin
<1>6. ASSUME SweepExpired PROVE TypeOK'
  <2>1. /\ wallet' \in WalletType /\ resv' \in [Plans -> ReservationType]
        /\ plan' \in [Plans -> PlanType]
    BY <1>6, SweepFacts DEF SweepExpired
  <2> QED BY <1>6, <2>1 DEF SweepExpired
<1>7. ASSUME NEW a \in inflight, ActivateFails(a) \/ ActivateKeeps(a) PROVE TypeOK'
  BY <1>7 DEF ActivateFails, ActivateKeeps
<1>8. ASSUME NEW a \in inflight, ActivateExpired(a) PROVE TypeOK'
  <2> DEFINE p == a.plan
             held == IF Holding(p) THEN {p} ELSE {}
  <2>1. p \in Plans
    BY DEF InflightType
  <2>2. /\ wallet' = ReleasedWallet(held)
        /\ resv' = [resv EXCEPT ![p] = NoReservation]
        /\ plan' = WithStatus(p, "EXPIRED")
    BY <1>8 DEF ActivateExpired
  <2>3. held \in SUBSET Plans /\ "EXPIRED" \in Statuses
    BY <2>1 DEF Statuses
  <2> HIDE DEF p, held
  <2>4. /\ wallet' \in WalletType /\ resv' \in [Plans -> ReservationType]
        /\ plan' \in [Plans -> PlanType]
    BY <2>1, <2>2, <2>3, ReleaseType
  <2> QED BY <1>8, <2>4 DEF ActivateExpired
<1>9. ASSUME NEW a \in inflight, ActivateAtLimit(a) PROVE TypeOK'
  <2> DEFINE p == a.plan
             status == ReleasedStatus(p, "MAX_CONCURRENT_POSITIONS_REACHED")
  <2>1. p \in Plans
    BY DEF InflightType
  <2>2. /\ wallet' = ReleasedWallet({p})
        /\ resv' = [resv EXCEPT ![p] = NoReservation]
        /\ plan' = WithStatus(p, status)
    BY <1>9 DEF ActivateAtLimit
  <2>3. {p} \in SUBSET Plans /\ status \in Statuses
    BY <2>1, ReleasedStatusType
  <2> HIDE DEF p, status
  <2>4. /\ wallet' \in WalletType /\ resv' \in [Plans -> ReservationType]
        /\ plan' \in [Plans -> PlanType]
    BY <2>1, <2>2, <2>3, ReleaseType
  <2> QED BY <1>9, <2>4 DEF ActivateAtLimit
<1>10. ASSUME NEW a \in inflight, NEW b \in BOOLEAN, ActivateEvaluates(a, b) PROVE TypeOK'
  <2>1. /\ wallet' \in WalletType /\ resv' \in [Plans -> ReservationType]
        /\ plan' \in [Plans -> PlanType]
    BY <1>10, EvaluatesType
  <2>2. /\ inflight' = inflight \ {a}
        /\ UNCHANGED <<now, pos, seeds>>
    BY <1>10, Zenon DEF ActivateEvaluates
  <2> QED BY <2>1, <2>2
<1>11. ASSUME NEW p \in Plans, NEW f \in Fills, NEW i \in Slots, ConfirmFill(p, f, i) PROVE TypeOK'
  <2>1. /\ wallet' \in WalletType /\ resv' \in [Plans -> ReservationType]
        /\ plan' \in [Plans -> PlanType] /\ pos' \in [Slots -> PositionType]
    BY <1>11, FillType
  <2>2. UNCHANGED <<now, inflight, seeds>>
    BY <1>11, Zenon DEF ConfirmFill
  <2> QED BY <2>1, <2>2
<1>12. ASSUME NEW i \in Slots,
              \/ \E stop \in Stops : ProtectPosition(i, stop)
              \/ \E x \in Exits : ConfirmExit(i, x)
              \/ \E m \in Imports : ImportPosition(i, m)
       PROVE  TypeOK'
  <2>1. wallet' \in WalletType /\ pos' \in [Slots -> PositionType]
    BY <1>12, PositionStepType
  <2>2. UNCHANGED <<now, plan, resv, inflight, seeds>>
    BY <1>12, Zenon DEF ProtectPosition, ConfirmExit, ImportPosition
  <2> QED BY <2>1, <2>2
<1>13. CASE Tick \/ UNCHANGED vars
  BY <1>13 DEF Tick, vars
<1> HIDE DEF TypeOK
<1> QED
  BY NextCases, <1>1, <1>2, <1>3, <1>4, <1>5, <1>6, <1>7, <1>8, <1>9, <1>10, <1>11, <1>12, <1>13

\* In every reachable state every table holds records of its type: no method of
\* DecisionService, in any order, drives reserved_cash, open_risk, daily_realized_loss
\* or the remaining shares of a twin below zero.
THEOREM TypeCorrect == Spec => []TypeOK
<1>1. Init => TypeOK
  BY TypeInit
<1>2. TypeOK /\ [Next]_vars => TypeOK'
  BY TypeStep
<1> QED BY <1>1, <1>2, PTL DEF Spec

-----------------------------------------------------------------------------
(* Plans and reservations *)

\* A plan without a reservation row has no leftovers of one.
EmptyReservations == \A p \in Plans : ~Holding(p) => resv[p] = NoReservation

\* A plan whose activation awaits market data was issued and, as its deadline
\* never moves back, was not late when the activation read the clock.
InflightInTime ==
  \A a \in inflight : plan[a.plan].status # "NEW" /\ a.at <= plan[a.plan].expires

\* The invariant that is preserved by every step: ReservationMatchesPlan alone is
\* not enough, since what release_reservation and activate do to a plan depends on
\* what a missing row looks like and on what the activation read before its await.
PlanInv == TypeOK /\ ReservationMatchesPlan /\ EmptyReservations /\ InflightInTime

\* The rows a release leaves: shared by every action that releases one plan.
LEMMA ReleaseMatches ==
  ASSUME PlanInv, NEW p \in Plans, NEW status \in Statuses \ {"RESERVED"},
         resv' = [resv EXCEPT ![p] = NoReservation],
         plan' = WithStatus(p, status)
  PROVE  ReservationMatchesPlan' /\ EmptyReservations'
<1>1. \A q \in Plans : /\ resv'[q] = IF q = p THEN NoReservation ELSE resv[q]
                       /\ plan'[q].status = IF q = p THEN status ELSE plan[q].status
  BY DEF PlanInv, TypeOK, WithStatus, PlanType
<1> QED
  BY <1>1 DEF PlanInv, ReservationMatchesPlan, EmptyReservations, Holding, NoReservation

\* The rows the sweep leaves.
LEMMA SweepMatches ==
  ASSUME PlanInv, resv' = SweptResv(now), plan' = SweptPlan(now)
  PROVE  ReservationMatchesPlan' /\ EmptyReservations'
<1>1. ASSUME NEW q \in Plans
      PROVE  /\ Holding(q)' <=> plan'[q].status = "RESERVED"
             /\ ~Holding(q)' => resv'[q] = NoReservation
  <2>1. now \in Nat /\ TypeOK
    BY DEF PlanInv, TypeOK
  <2>2. CASE q \in SweptPlans(now)
    BY <2>1, <2>2, SweepFacts DEF Holding, NoReservation
  <2>3. CASE q \notin SweptPlans(now)
    BY <2>1, <2>3, SweepFacts DEF PlanInv, ReservationMatchesPlan, EmptyReservations, Holding
  <2> QED BY <2>2, <2>3
<1> QED BY <1>1 DEF ReservationMatchesPlan, EmptyReservations

\* A fill leaves the other plans as the sweep left them, and its own plan either
\* FILLED with nothing reserved or RESERVED with shares to go.
LEMMA FillMatches ==
  ASSUME PlanInv, NEW p \in Plans, NEW f \in Fills, NEW i \in Slots, ConfirmFill(p, f, i)
  PROVE  ReservationMatchesPlan' /\ EmptyReservations'
<1>1. now \in Nat /\ TypeOK
  BY DEF PlanInv, TypeOK
<1>2. /\ p \notin SweptPlans(now) /\ Holding(p)
      /\ FilledReservation(p, f).quantity = resv[p].quantity - f.quantity
      /\ FilledReservation(p, f).quantity = 0 => FilledReservation(p, f) = NoReservation
      /\ FilledReservation(p, f) \in ReservationType
  BY <1>1, FillFacts DEF ConfirmFill
<1>3. /\ SweptResv(now) \in [Plans -> ReservationType]
      /\ SweptPlan(now) \in [Plans -> PlanType]
  BY <1>1, SweepFacts
<1>4. /\ resv' = [SweptResv(now) EXCEPT ![p] = FilledReservation(p, f)]
      /\ plan' = [SweptPlan(now) EXCEPT ![p].status =
                    IF f.quantity = resv[p].quantity THEN "FILLED" ELSE "RESERVED"]
  BY DEF ConfirmFill
<1>5. f.quantity \in Nat /\ resv[p].quantity \in Nat
  BY <1>1, RequestsAssumption DEF TypeOK, ReservationType
<1>6. ASSUME NEW q \in Plans
      PROVE  /\ Holding(q)' <=> plan'[q].status = "RESERVED"
             /\ ~Holding(q)' => resv'[q] = NoReservation
  <2>1. CASE q = p
    <3>1. resv'[q] = FilledReservation(p, f)
      BY <1>3, <1>4, <2>1
    <3>2. plan'[q].status = IF f.quantity = resv[p].quantity THEN "FILLED" ELSE "RESERVED"
      BY <1>3, <1>4, <2>1 DEF PlanType
    <3>3. FilledReservation(p, f).quantity \in Nat
      BY <1>2 DEF ReservationType
    <3> QED BY <1>2, <1>5, <3>1, <3>2, <3>3 DEF Holding
  <2>2. CASE q # p
    <3>1. resv'[q] = SweptResv(now)[q] /\ plan'[q] = SweptPlan(now)[q]
      BY <1>3, <1>4, <2>2
    <3>2. CASE q \in SweptPlans(now)
      BY <1>1, <3>1, <3>2, SweepFacts DEF Holding, NoReservation
    <3>3. CASE q \notin SweptPlans(now)
      BY <1>1, <3>1, <3>3, SweepFacts
         DEF PlanInv, ReservationMatchesPlan, EmptyReservations, Holding
    <3> QED BY <3>2, <3>3
  <2> QED BY <2>1, <2>2
<1> QED BY <1>6 DEF ReservationMatchesPlan, EmptyReservations

\* What no step does to a plan: unissue it, move its deadline back, or reopen it.
LEMMA PlanProgress ==
  ASSUME PlanInv, [Next]_vars
  PROVE  \A p \in Plans :
           /\ plan[p].status # "NEW" => plan'[p].status # "NEW" /\ plan'[p].expires >= plan[p].expires
           /\ plan[p].status \in Terminal => plan'[p].status = plan[p].status
<1> SUFFICES ASSUME NEW q \in Plans
             PROVE  /\ plan[q].status # "NEW" =>
                         plan'[q].status # "NEW" /\ plan'[q].expires >= plan[q].expires
                    /\ plan[q].status \in Terminal => plan'[q].status = plan[q].status
  OBVIOUS
<1> DEFINE Goal == /\ plan[q].status # "NEW" =>
                        plan'[q].status # "NEW" /\ plan'[q].expires >= plan[q].expires
                   /\ plan[q].status \in Terminal => plan'[q].status = plan[q].status
<1>a. /\ TypeOK /\ now \in Nat /\ plan \in [Plans -> PlanType]
      /\ plan[q].expires \in Nat /\ plan[q].status \in Statuses
  BY DEF PlanInv, TypeOK, PlanType
<1>b. ASSUME NEW p \in Plans, NEW status \in Statuses, plan' = WithStatus(p, status),
             plan[p].status # "NEW" => status # "NEW",
             plan[p].status \in Terminal => status = plan[p].status
      PROVE  Goal
  <2>1. plan'[q].status = (IF q = p THEN status ELSE plan[q].status) /\ plan'[q].expires = plan[q].expires
    BY <1>a, <1>b DEF WithStatus, PlanType
  <2> QED BY <1>a, <1>b, <2>1
<1>c. ASSUME NEW p \in Plans, NEW reason, plan' = WithStatus(p, ReleasedStatus(p, reason)) PROVE Goal
  <2>1. /\ ReleasedStatus(p, reason) \in Statuses
        /\ plan[p].status # "RESERVED" => ReleasedStatus(p, reason) = plan[p].status
        /\ plan[p].status = "RESERVED" => ReleasedStatus(p, reason) \in {"ACTIVE", "FILLED"}
    BY <1>a, ReleasedStatusType
  <2> DEFINE status == ReleasedStatus(p, reason)
  <2>2. plan' = WithStatus(p, status)
    BY <1>c
  <2> HIDE DEF status, Goal
  <2> QED BY <1>b, <2>1, <2>2 DEF Terminal, status
<1>d. ASSUME plan'[q] = SweptPlan(now)[q] PROVE Goal
  BY <1>a, <1>d, SweepFacts DEF Terminal
<1>1. ASSUME NEW p \in Plans, NEW o \in Offers, BuildPlan(p, o) PROVE Goal
  BY <1>a, <1>1 DEF BuildPlan, Terminal
<1>2. ASSUME NEW p \in Plans, RecordTriggerHit(p) PROVE Goal
  <2>1. Deadline(p) >= plan[p].expires
    BY <1>a, LimitsAssumption DEF Deadline, PlanType
  <2>2. /\ plan'[q].status = plan[q].status
        /\ plan'[q].expires = IF q = p THEN Deadline(p) ELSE plan[q].expires
    BY <1>a, <1>2 DEF RecordTriggerHit, PlanType
  <2> QED BY <1>a, <2>1, <2>2
<1>3. ASSUME NEW p \in Plans, ReleaseReservation(p) PROVE Goal
  <2> HIDE DEF Goal
  <2> QED BY <1>3, <1>c DEF ReleaseReservation
<1>4. ASSUME NEW p \in Plans, ActivateBegin(p) PROVE Goal
  BY <1>4, <1>d DEF ActivateBegin
<1>5. ASSUME SweepExpired PROVE Goal
  BY <1>5, <1>d DEF SweepExpired
<1>6. ASSUME NEW a \in inflight, ActivateExpired(a) PROVE Goal
  <2>1. a.plan \in Plans /\ a.at \in Nat /\ a.at <= plan[a.plan].expires
    BY <1>a DEF PlanInv, InflightInTime, TypeOK, InflightType
  <2>2. plan[a.plan].status = "EXPIRED"
    BY <1>a, <1>6, <2>1 DEF ActivateExpired, Overtaken, PlanType
  <2>3. plan' = WithStatus(a.plan, "EXPIRED")
    BY <1>6 DEF ActivateExpired
  <2> HIDE DEF Goal
  <2> QED BY <1>b, <2>1, <2>2, <2>3 DEF Statuses
<1>7. ASSUME NEW a \in inflight, ActivateAtLimit(a) PROVE Goal
  <2>1. a.plan \in Plans
    BY <1>a DEF TypeOK, InflightType
  <2> HIDE DEF Goal
  <2> QED BY <1>7, <1>c, <2>1 DEF ActivateAtLimit
<1>8. ASSUME NEW a \in inflight, NEW b \in BOOLEAN, ActivateEvaluates(a, b) PROVE Goal
  <2>1. a.plan \in Plans
    BY <1>a DEF TypeOK, InflightType
  <2>a. PICK n \in Nat, reserve \in BOOLEAN, taken \in ReservationType, status \in Statuses :
          Granted(a, n, reserve, taken, status)
    BY <1>a, <1>8, EvaluatesFacts
  <2>2. /\ reserve => status = "RESERVED"
        /\ ~reserve => status = ReleasedStatus(a.plan, "RESERVATION_EXPIRED")
        /\ plan' = WithStatus(a.plan, status)
    BY <2>a DEF Granted
  <2>3. plan[a.plan].status \notin Terminal
    BY <1>8, Zenon DEF ActivateEvaluates, Overtaken, FilledMeanwhile, Terminal
  <2> HIDE DEF Goal
  <2>4. CASE reserve
    BY <1>b, <2>1, <2>2, <2>3, <2>4
  <2>5. CASE ~reserve
    BY <1>c, <2>1, <2>2, <2>5
  <2> QED BY <2>4, <2>5
<1>9. ASSUME NEW p \in Plans, NEW f \in Fills, NEW i \in Slots, ConfirmFill(p, f, i) PROVE Goal
  <2>1. plan[p].status = "RESERVED" /\ p \notin SweptPlans(now)
    BY <1>a, <1>9, FillFacts DEF ConfirmFill
  <2>2. SweptPlan(now) \in [Plans -> PlanType] /\ SweptPlan(now)[p] = plan[p]
    BY <1>a, <2>1, SweepFacts
  <2>3. plan' = [SweptPlan(now) EXCEPT ![p].status =
                   IF f.quantity = resv[p].quantity THEN "FILLED" ELSE "RESERVED"]
    BY <1>9, Zenon DEF ConfirmFill
  <2>4. CASE q = p
    BY <1>a, <2>1, <2>2, <2>3, <2>4 DEF PlanType, Terminal
  <2>5. CASE q # p
    <3>1. plan'[q] = SweptPlan(now)[q]
      BY <2>2, <2>3, <2>5
    <3> QED BY <1>d, <3>1
  <2> QED BY <2>4, <2>5
<1>10. ASSUME plan' = plan PROVE Goal
  BY <1>a, <1>10
<1>11. ASSUME \/ \E s \in Seeds : SeedWallet(s)
              \/ \E a \in inflight : ActivateFails(a) \/ ActivateKeeps(a)
              \/ \E i \in Slots, stop \in Stops : ProtectPosition(i, stop)
              \/ \E i \in Slots, x \in Exits : ConfirmExit(i, x)
              \/ \E i \in Slots, m \in Imports : ImportPosition(i, m)
              \/ Tick \/ UNCHANGED vars
       PROVE  Goal
  <2>1. plan' = plan
    BY <1>11 DEF SeedWallet, ActivateFails, ActivateKeeps, ProtectPosition, ConfirmExit,
                 ImportPosition, Tick, vars
  <2> QED BY <1>10, <2>1
<1> HIDE DEF Goal
<1>12. Goal
  BY NextCases, <1>1, <1>2, <1>3, <1>4, <1>5, <1>6, <1>7, <1>8, <1>9, <1>11
<1> QED BY <1>12 DEF Goal

\* PlanInv holds of the empty tables,
LEMMA PlanInvInit == Init => PlanInv
<1> SUFFICES ASSUME Init PROVE PlanInv
  OBVIOUS
<1>1. TypeOK
  BY TypeInit
<1> QED
  BY <1>1 DEF Init, PlanInv, ReservationMatchesPlan, EmptyReservations, InflightInTime, Holding,
              Unissued, NoReservation

\* and every method of the service preserves it.
LEMMA PlanInvStep ==
  ASSUME PlanInv, [Next]_vars
  PROVE  PlanInv'
<1>1. TypeOK /\ now \in Nat
  BY DEF PlanInv, TypeOK
<1>2. TypeOK'
  BY <1>1, TypeStep
<1>3. InflightInTime'
  <2>1. ASSUME NEW a \in inflight PROVE plan'[a.plan].status # "NEW" /\ a.at <= plan'[a.plan].expires
    <3>1. a.plan \in Plans /\ a.at \in Nat
      BY <1>1 DEF TypeOK, InflightType
    <3>2. /\ plan[a.plan].status # "NEW" /\ a.at <= plan[a.plan].expires
          /\ plan[a.plan].expires \in Nat /\ plan'[a.plan].expires \in Nat
      BY <1>1, <1>2, <3>1 DEF PlanInv, InflightInTime, TypeOK, PlanType
    <3>3. plan'[a.plan].status # "NEW" /\ plan'[a.plan].expires >= plan[a.plan].expires
      BY <3>1, <3>2, PlanProgress
    <3> QED BY <3>1, <3>2, <3>3
  <2>2. \/ inflight' \subseteq inflight
        \/ \E p \in Plans : ActivateBegin(p)
    <3>1. [Next]_vars
      OBVIOUS
    <3> QED
      BY <3>1, NextCases
         DEF SeedWallet, BuildPlan, RecordTriggerHit, ReleaseReservation, SweepExpired,
             ActivateFails, ActivateExpired, ActivateAtLimit, ActivateKeeps, ActivateEvaluates,
             ConfirmFill, ProtectPosition, ConfirmExit, ImportPosition, Tick, vars
  <2>3. CASE inflight' \subseteq inflight
    BY <2>1, <2>3 DEF InflightInTime
  <2>4. ASSUME NEW p \in Plans, ActivateBegin(p) PROVE InflightInTime'
    <3>1. /\ plan' = SweptPlan(now) /\ SweptPlan(now)[p].status # "NEW" /\ now <= plan[p].expires
          /\ inflight' = inflight \cup {[plan |-> p, at |-> now]}
      BY <2>4 DEF ActivateBegin
    <3>2. plan'[p].status # "NEW" /\ now <= plan'[p].expires
      BY <1>1, <3>1, SweepFacts
    <3> QED BY <2>1, <3>1, <3>2 DEF InflightInTime
  <2> QED BY <2>2, <2>3, <2>4
<1> DEFINE Rows == ReservationMatchesPlan' /\ EmptyReservations'
<1>4. ASSUME UNCHANGED <<plan, resv>> PROVE Rows
  BY <1>4 DEF PlanInv, ReservationMatchesPlan, EmptyReservations, Holding
<1>5. ASSUME resv' = resv,
             \A q \in Plans : plan'[q].status = "RESERVED" <=> plan[q].status = "RESERVED"
      PROVE  Rows
  BY <1>5 DEF PlanInv, ReservationMatchesPlan, EmptyReservations, Holding
<1>6. ASSUME NEW p \in Plans, NEW reason, plan' = WithStatus(p, ReleasedStatus(p, reason)),
             resv' = [resv EXCEPT ![p] = NoReservation]
      PROVE  Rows
  <2> DEFINE status == ReleasedStatus(p, reason)
  <2>1. status \in Statuses \ {"RESERVED"}
    BY <1>1, ReleasedStatusType
  <2>2. plan' = WithStatus(p, status)
    BY <1>6
  <2> HIDE DEF status
  <2> QED BY <1>6, <2>1, <2>2, ReleaseMatches
<1>7. ASSUME NEW p \in Plans, ReleaseReservation(p) PROVE Rows
  <2> HIDE DEF Rows
  <2> QED BY <1>6, <1>7 DEF ReleaseReservation
<1>8. ASSUME SweepExpired \/ \E p \in Plans : ActivateBegin(p) PROVE Rows
  BY <1>8, SweepMatches DEF SweepExpired, ActivateBegin
<1>9. ASSUME NEW a \in inflight, ActivateExpired(a) PROVE Rows
  <2>1. a.plan \in Plans /\ "EXPIRED" \in Statuses \ {"RESERVED"}
    BY <1>1 DEF TypeOK, InflightType, Statuses
  <2>2. resv' = [resv EXCEPT ![a.plan] = NoReservation] /\ plan' = WithStatus(a.plan, "EXPIRED")
    BY <1>9 DEF ActivateExpired
  <2> QED BY <2>1, <2>2, ReleaseMatches
<1>10. ASSUME NEW a \in inflight, ActivateAtLimit(a) PROVE Rows
  <2>1. a.plan \in Plans
    BY <1>1 DEF TypeOK, InflightType
  <2> HIDE DEF Rows
  <2> QED BY <1>6, <1>10, <2>1 DEF ActivateAtLimit
<1>11. ASSUME NEW a \in inflight, NEW b \in BOOLEAN, ActivateEvaluates(a, b) PROVE Rows
  <2>1. a.plan \in Plans
    BY <1>1 DEF TypeOK, InflightType
  <2>a. PICK n \in Nat, reserve \in BOOLEAN, taken \in ReservationType, status \in Statuses :
          Granted(a, n, reserve, taken, status)
    BY <1>1, <1>11, EvaluatesFacts
  <2>2. /\ reserve => n > 0 /\ status = "RESERVED"
        /\ ~reserve => status = ReleasedStatus(a.plan, "RESERVATION_EXPIRED")
        /\ taken.quantity = n
        /\ resv' = [resv EXCEPT ![a.plan] = IF reserve THEN taken ELSE NoReservation]
        /\ plan' = WithStatus(a.plan, status)
    BY <2>a DEF Granted
  <2>3. CASE reserve
    <3>1. \A q \in Plans : /\ resv'[q] = IF q = a.plan THEN taken ELSE resv[q]
                           /\ plan'[q].status = IF q = a.plan THEN "RESERVED" ELSE plan[q].status
      BY <1>1, <2>1, <2>2, <2>3 DEF TypeOK, WithStatus, PlanType
    <3> QED
      BY <2>2, <2>3, <3>1 DEF PlanInv, ReservationMatchesPlan, EmptyReservations, Holding
  <2>4. CASE ~reserve
    <3> HIDE DEF Rows
    <3> QED BY <1>6, <2>1, <2>2, <2>4
  <2> QED BY <2>3, <2>4
<1>12. ASSUME NEW p \in Plans, NEW f \in Fills, NEW i \in Slots, ConfirmFill(p, f, i) PROVE Rows
  BY <1>12, FillMatches
<1>13. ASSUME \/ \E s \in Seeds : SeedWallet(s)
              \/ \E a \in inflight : ActivateFails(a) \/ ActivateKeeps(a)
              \/ \E i \in Slots, stop \in Stops : ProtectPosition(i, stop)
              \/ \E i \in Slots, x \in Exits : ConfirmExit(i, x)
              \/ \E i \in Slots, m \in Imports : ImportPosition(i, m)
              \/ Tick \/ UNCHANGED vars
       PROVE  Rows
  <2>1. UNCHANGED <<plan, resv>>
    BY <1>13 DEF SeedWallet, ActivateFails, ActivateKeeps, ProtectPosition, ConfirmExit,
                 ImportPosition, Tick, vars
  <2> HIDE DEF Rows
  <2> QED BY <1>4, <2>1
<1>14. ASSUME NEW p \in Plans, NEW o \in Offers, BuildPlan(p, o) PROVE Rows
  <2>1. \A q \in Plans : plan'[q].status = IF q = p THEN "ACTIVE" ELSE plan[q].status
    BY <1>1, <1>14 DEF BuildPlan, TypeOK
  <2>2. resv' = resv /\ plan[p].status = "NEW"
    BY <1>14 DEF BuildPlan
  <2> HIDE DEF Rows
  <2> QED BY <1>5, <2>1, <2>2
<1>15. ASSUME NEW p \in Plans, RecordTriggerHit(p) PROVE Rows
  <2>1. \A q \in Plans : plan'[q].status = plan[q].status
    BY <1>1, <1>15 DEF RecordTriggerHit, TypeOK, PlanType
  <2>2. resv' = resv
    BY <1>15 DEF RecordTriggerHit
  <2> HIDE DEF Rows
  <2> QED BY <1>5, <2>1, <2>2
<1> HIDE DEF Rows
<1>16. Rows
  BY NextCases, <1>7, <1>8, <1>9, <1>10, <1>11, <1>12, <1>13, <1>14, <1>15
<1> QED BY <1>2, <1>3, <1>16 DEF PlanInv, Rows

\* No interleaving of sweep, release, activation, fill and exit leaves a plan
\* RESERVED without a reservation row, or a row with a plan that is not RESERVED.
THEOREM ReservationsMatch == Spec => []ReservationMatchesPlan
<1>1. PlanInv => ReservationMatchesPlan
  BY DEF PlanInv
<1>2. Init => PlanInv
  BY PlanInvInit
<1>3. PlanInv /\ [Next]_vars => PlanInv'
  BY PlanInvStep
<1> QED BY <1>1, <1>2, <1>3, PTL DEF Spec

\* FILLED and EXPIRED are final whatever activations were awaiting market data
\* when a plan got there, and no step moves an issued plan's deadline back.
THEOREM TerminalStays == Spec => TerminalStable
<1> DEFINE Stable == \A p \in Plans :
      /\ plan[p].status \in Terminal => plan'[p].status = plan[p].status
      /\ plan[p].status # "NEW" => plan'[p].expires >= plan[p].expires
<1>1. Init => PlanInv
  BY PlanInvInit
<1>2. PlanInv /\ [Next]_vars => PlanInv'
  BY PlanInvStep
<1>3. PlanInv /\ [Next]_vars => [Stable]_vars
  BY PlanProgress
<1> QED BY <1>1, <1>2, <1>3, PTL DEF Spec, TerminalStable

-----------------------------------------------------------------------------
(* Replay *)

\* Releasing nothing leaves the wallet alone.
LEMMA ReleasedNothing ==
  ASSUME TypeOK
  PROVE  ReleasedWallet({}) = wallet
<1>1. SumFunctionOnSet(HeldCash, {}) = 0 /\ SumFunctionOnSet(HeldRisk, {}) = 0
  BY FS_EmptySet, SumOfZeros
<1>2. wallet.reserved \in Nat /\ wallet.risk \in Nat
  BY DEF TypeOK, WalletType
<1>3. Max0(wallet.reserved - 0) = wallet.reserved /\ Max0(wallet.risk - 0) = wallet.risk
  BY <1>2, Max0Type
<1>4. ReleasedWallet({}) = [wallet EXCEPT !.reserved = Max0(wallet.reserved - 0),
                                          !.risk = Max0(wallet.risk - 0)]
  BY <1>1 DEF ReleasedWallet, TypeOK, WalletType
<1> QED BY <1>3, <1>4 DEF TypeOK, WalletType

\* The snapshots of the plans ps, the reservations rs, the deletions ds and the
\* positions is cover what a step changed.
Covered(ps, rs, ds, is) ==
  /\ \A p \in Plans \ ps : plan'[p] = plan[p]
  /\ \A p \in Plans : IF p \in ds THEN resv'[p] = NoReservation
                      ELSE p \in rs \/ resv'[p] = resv[p]
  /\ \A i \in Slots \ is : pos'[i] = pos[i]

\* A method whose snapshots cover what it changed keeps the event log and the
\* tables in agreement.
LEMMA ReplayCovers ==
  ASSUME TypeOK, TypeOK', ReplayMatches,
         NEW ps, NEW rs, NEW ds, NEW is,
         \/ journal' = Replayed(TRUE, ps, rs, ds, is)
         \/ journal' = Replayed(FALSE, ps, rs, ds, is) /\ wallet' = wallet,
         Covered(ps, rs, ds, is)
  PROVE  ReplayMatches'
<1>1. /\ journal.wallet = wallet /\ journal.plan = plan
      /\ journal.resv = resv /\ journal.pos = pos
  BY DEF ReplayMatches
<1>2. journal' = [wallet |-> journal'.wallet, plan |-> journal'.plan,
                  resv |-> journal'.resv, pos |-> journal'.pos]
  BY DEF Replayed
<1>3. journal'.wallet = wallet'
  BY <1>1 DEF Replayed
<1>4. journal'.plan = plan'
  <2>1. journal'.plan = [p \in Plans |-> IF p \in ps THEN plan'[p] ELSE plan[p]]
    BY <1>1 DEF Replayed
  <2>2. journal'.plan = [p \in Plans |-> plan'[p]]
    BY <2>1 DEF Covered
  <2> QED BY <2>2 DEF TypeOK
<1>5. journal'.resv = resv'
  <2>1. journal'.resv = [p \in Plans |-> IF p \in ds THEN NoReservation
                                         ELSE IF p \in rs THEN resv'[p] ELSE resv[p]]
    BY <1>1 DEF Replayed
  <2>2. journal'.resv = [p \in Plans |-> resv'[p]]
    BY <2>1 DEF Covered
  <2> QED BY <2>2 DEF TypeOK
<1>6. journal'.pos = pos'
  <2>1. journal'.pos = [i \in Slots |-> IF i \in is THEN pos'[i] ELSE pos[i]]
    BY <1>1 DEF Replayed
  <2>2. journal'.pos = [i \in Slots |-> pos'[i]]
    BY <2>1 DEF Covered
  <2> QED BY <2>2 DEF TypeOK
<1> QED BY <1>2, <1>3, <1>4, <1>5, <1>6 DEF ReplayMatches

\* What the sweep changes is what its events snapshot.
LEMMA SweepCovers ==
  ASSUME PlanInv
  PROVE  /\ SweptHolds(now) = {} => SweptWallet(now) = wallet
         /\ \A p \in Plans \ SweptPlans(now) : SweptPlan(now)[p] = plan[p]
         /\ \A p \in Plans : IF p \in SweptHolds(now) THEN SweptResv(now)[p] = NoReservation
                             ELSE SweptResv(now)[p] = resv[p]
<1>1. TypeOK /\ now \in Nat
  BY DEF PlanInv, TypeOK
<1>2. SweptHolds(now) = {} => SweptWallet(now) = wallet
  BY <1>1, ReleasedNothing DEF SweptWallet
<1>3. \A p \in Plans \ SweptPlans(now) : SweptPlan(now)[p] = plan[p] /\ SweptResv(now)[p] = resv[p]
  BY <1>1, SweepFacts
<1>4. ASSUME NEW p \in Plans
      PROVE  IF p \in SweptHolds(now) THEN SweptResv(now)[p] = NoReservation
             ELSE SweptResv(now)[p] = resv[p]
  <2>1. CASE p \in SweptHolds(now)
    BY <1>1, <2>1, SweepFacts DEF SweptHolds
  <2>2. CASE p \in SweptPlans(now) /\ ~Holding(p)
    BY <1>1, <2>2, SweepFacts DEF SweptHolds, PlanInv, EmptyReservations
  <2>3. CASE p \notin SweptPlans(now)
    BY <1>3, <2>3 DEF SweptHolds
  <2> QED BY <2>1, <2>2, <2>3 DEF SweptHolds
<1> QED BY <1>2, <1>3, <1>4

\* Every method appends the snapshots its changes need.
LEMMA ReplayStep ==
  ASSUME PlanInv, ReplayMatches, [Next]_vars
  PROVE  ReplayMatches'
<1>1. /\ TypeOK /\ TypeOK' /\ now \in Nat
      /\ plan \in [Plans -> PlanType] /\ resv \in [Plans -> ReservationType]
      /\ pos \in [Slots -> PositionType]
  BY TypeStep DEF PlanInv, TypeOK
<1>2. ASSUME UNCHANGED <<wallet, plan, resv, pos, journal>> PROVE ReplayMatches'
  BY <1>2 DEF ReplayMatches
<1>3. ASSUME NEW s \in Seeds, SeedWallet(s) PROVE ReplayMatches'
  <2>1. journal' = Replayed(TRUE, {}, {}, {}, {}) /\ UNCHANGED <<plan, resv, pos>>
    BY <1>3 DEF SeedWallet, Journal
  <2>2. Covered({}, {}, {}, {})
    BY <2>1 DEF Covered
  <2> QED BY <1>1, <2>1, <2>2, ReplayCovers
<1>4. ASSUME NEW p \in Plans, (\E o \in Offers : BuildPlan(p, o)) \/ RecordTriggerHit(p)
      PROVE  ReplayMatches'
  <2>1. journal' = Replayed(FALSE, {p}, {}, {}, {}) /\ UNCHANGED <<wallet, resv, pos>>
    BY <1>4 DEF BuildPlan, RecordTriggerHit, Journal
  <2>2. \A q \in Plans \ {p} : plan'[q] = plan[q]
    BY <1>1, <1>4 DEF BuildPlan, RecordTriggerHit
  <2>3. Covered({p}, {}, {}, {})
    BY <2>1, <2>2 DEF Covered
  <2> QED BY <1>1, <2>1, <2>3, ReplayCovers
<1>5. ASSUME NEW p \in Plans, NEW status,
             resv' = [resv EXCEPT ![p] = NoReservation], plan' = WithStatus(p, status), pos' = pos,
             journal' = Replayed(TRUE, {p}, {}, {p}, {})
      PROVE  ReplayMatches'
  <2>1. /\ \A q \in Plans \ {p} : plan'[q] = plan[q] /\ resv'[q] = resv[q]
        /\ resv'[p] = NoReservation
    BY <1>1, <1>5 DEF WithStatus
  <2>2. Covered({p}, {}, {p}, {})
    BY <1>5, <2>1 DEF Covered
  <2> QED BY <1>1, <1>5, <2>2, ReplayCovers
<1>6. ASSUME NEW p \in Plans, ReleaseReservation(p) PROVE ReplayMatches'
  BY <1>5, <1>6 DEF ReleaseReservation, Journal
<1>7. ASSUME NEW a \in inflight, ActivateAtLimit(a) PROVE ReplayMatches'
  <2>1. a.plan \in Plans
    BY <1>1 DEF TypeOK, InflightType
  <2> QED BY <1>5, <1>7, <2>1 DEF ActivateAtLimit, Journal
<1>8. ASSUME SweepExpired \/ \E p \in Plans : ActivateBegin(p) PROVE ReplayMatches'
  <2>1. /\ journal' = Replayed(SweptHolds(now) # {}, SweptPlans(now), {}, SweptHolds(now), {})
        /\ wallet' = SweptWallet(now) /\ resv' = SweptResv(now) /\ plan' = SweptPlan(now)
        /\ pos' = pos
    BY <1>8 DEF SweepExpired, ActivateBegin, Journal
  <2>2. \/ journal' = Replayed(TRUE, SweptPlans(now), {}, SweptHolds(now), {})
        \/ journal' = Replayed(FALSE, SweptPlans(now), {}, SweptHolds(now), {}) /\ wallet' = wallet
    BY <2>1, SweepCovers
  <2>3. Covered(SweptPlans(now), {}, SweptHolds(now), {})
    BY <2>1, SweepCovers DEF Covered
  <2> QED BY <1>1, <2>2, <2>3, ReplayCovers
<1>9. ASSUME NEW a \in inflight, ActivateExpired(a) PROVE ReplayMatches'
  <2>1. a.plan \in Plans /\ a.at \in Nat /\ a.at <= plan[a.plan].expires
    BY <1>1 DEF PlanInv, InflightInTime, TypeOK, InflightType
  <2>2. plan[a.plan].status = "EXPIRED"
    BY <1>1, <1>9, <2>1 DEF ActivateExpired, Overtaken, PlanType
  <2>3. ~Holding(a.plan)
    BY <2>1, <2>2 DEF PlanInv, ReservationMatchesPlan
  <2>4. wallet' = wallet
    BY <1>1, <1>9, <2>3, ReleasedNothing DEF ActivateExpired
  <2>5. resv' = resv
    <3>1. resv' = [resv EXCEPT ![a.plan] = NoReservation]
      BY <1>9 DEF ActivateExpired
    <3>2. resv[a.plan] = NoReservation
      BY <2>1, <2>3 DEF PlanInv, EmptyReservations
    <3> QED BY <1>1, <3>1, <3>2
  <2>6. plan' = plan
    <3>1. plan' = WithStatus(a.plan, "EXPIRED")
      BY <1>9 DEF ActivateExpired
    <3> QED BY <1>1, <2>1, <2>2, <3>1 DEF WithStatus, PlanType
  <2>7. pos' = pos
    BY <1>9 DEF ActivateExpired
  <2>8. journal' = Replayed(FALSE, {}, {}, {}, {})
    <3>1. journal' = [Replayed(FALSE, {}, {}, {}, {}) EXCEPT !.plan = @]
      BY <1>9, <2>3 DEF ActivateExpired
    <3> QED BY <3>1 DEF Replayed
  <2>9. Covered({}, {}, {}, {})
    BY <2>5, <2>6, <2>7 DEF Covered
  <2> QED BY <1>1, <2>4, <2>8, <2>9, ReplayCovers
<1>10. ASSUME NEW a \in inflight, NEW b \in BOOLEAN, ActivateEvaluates(a, b) PROVE ReplayMatches'
  <2> DEFINE p == a.plan
             w == ReleasedWallet(IF Holding(p) THEN {p} ELSE {})
  <2>1. p \in Plans
    BY <1>1 DEF TypeOK, InflightType
  <2>a. PICK n \in Nat, reserve \in BOOLEAN, taken \in ReservationType, status \in Statuses :
          Granted(a, n, reserve, taken, status)
    BY <1>1, <1>10, EvaluatesFacts
  <2>2. /\ ~reserve => status = ReleasedStatus(p, "RESERVATION_EXPIRED")
        /\ resv' = [resv EXCEPT ![p] = IF reserve THEN taken ELSE NoReservation]
        /\ plan' = WithStatus(p, status)
        /\ journal' = Replayed(reserve \/ Holding(p), IF reserve \/ Holding(p) THEN {p} ELSE {},
                         IF reserve THEN {p} ELSE {},
                         IF ~reserve /\ Holding(p) THEN {p} ELSE {}, {})
        /\ ~reserve => wallet' = w
    BY <2>a DEF Granted
  <2>3. pos' = pos
    BY <1>10, Zenon DEF ActivateEvaluates
  <2>4. \A q \in Plans \ {p} : plan'[q] = plan[q] /\ resv'[q] = resv[q]
    BY <1>1, <2>1, <2>2 DEF WithStatus
  <2>5. CASE reserve
    <3>1. journal' = Replayed(TRUE, {p}, {p}, {}, {})
      BY <2>2, <2>5
    <3>2. Covered({p}, {p}, {}, {})
      BY <2>3, <2>4 DEF Covered
    <3> QED BY <1>1, <3>1, <3>2, ReplayCovers
  <2>6. CASE ~reserve /\ Holding(p)
    <3>1. journal' = Replayed(TRUE, {p}, {}, {p}, {})
      BY <2>2, <2>6
    <3>2. resv'[p] = NoReservation
      BY <1>1, <2>1, <2>2, <2>6
    <3>3. Covered({p}, {}, {p}, {})
      BY <2>3, <2>4, <3>2 DEF Covered
    <3> QED BY <1>1, <3>1, <3>3, ReplayCovers
  <2>7. CASE ~reserve /\ ~Holding(p)
    <3>1. journal' = Replayed(FALSE, {}, {}, {}, {})
      BY <2>2, <2>7
    <3>2. wallet' = wallet
      BY <1>1, <2>2, <2>7, ReleasedNothing
    <3>3. resv'[p] = resv[p]
      BY <1>1, <2>1, <2>2, <2>7 DEF PlanInv, EmptyReservations
    <3>4. status = plan[p].status
      BY <1>1, <2>1, <2>2, <2>7, ReleasedStatusType DEF PlanInv, ReservationMatchesPlan
    <3>5. plan'[p] = plan[p]
      BY <1>1, <2>1, <2>2, <3>4 DEF WithStatus, PlanType
    <3>6. Covered({}, {}, {}, {})
      BY <2>3, <2>4, <3>3, <3>5 DEF Covered
    <3> QED BY <1>1, <3>1, <3>2, <3>6, ReplayCovers
  <2> QED BY <2>5, <2>6, <2>7
<1>11. ASSUME NEW p \in Plans, NEW f \in Fills, NEW i \in Slots, ConfirmFill(p, f, i)
       PROVE  ReplayMatches'
  <2> DEFINE gone == IF f.quantity = resv[p].quantity THEN {p} ELSE {}
             ps == SweptPlans(now) \cup {p}
             ds == SweptHolds(now) \cup gone
  <2>1. /\ journal' = Replayed(TRUE, ps, {p} \ gone, ds, {i})
        /\ resv' = [SweptResv(now) EXCEPT ![p] = FilledReservation(p, f)]
        /\ plan' = [SweptPlan(now) EXCEPT ![p].status =
                      IF f.quantity = resv[p].quantity THEN "FILLED" ELSE "RESERVED"]
        /\ pos' = [pos EXCEPT ![i] = FilledPosition(p, f, i)]
    BY <1>11, Zenon DEF ConfirmFill, Journal
  <2>2. /\ p \notin SweptPlans(now) /\ p \notin SweptHolds(now)
        /\ f.quantity = resv[p].quantity => FilledReservation(p, f) = NoReservation
    <3>1. resv[p].quantity \in Nat
      BY <1>1 DEF ReservationType
    <3> QED BY <1>1, <1>11, <3>1, FillFacts DEF ConfirmFill, SweptHolds
  <2>3. SweptResv(now) \in [Plans -> ReservationType] /\ SweptPlan(now) \in [Plans -> PlanType]
    BY <1>1, SweepFacts
  <2>4. \A q \in Plans \ ps : plan'[q] = plan[q]
    BY <2>1, <2>3, SweepCovers
  <2>5. \A q \in Plans : IF q \in ds THEN resv'[q] = NoReservation
                         ELSE q \in {p} \ gone \/ resv'[q] = resv[q]
    <3>1. ASSUME NEW q \in Plans
          PROVE  IF q \in ds THEN resv'[q] = NoReservation
                 ELSE q \in {p} \ gone \/ resv'[q] = resv[q]
      <4>1. CASE q = p
        BY <2>1, <2>2, <2>3, <4>1
      <4>2. CASE q # p
        <5>1. resv'[q] = SweptResv(now)[q]
          BY <2>1, <2>3, <4>2
        <5> QED BY <4>2, <5>1, SweepCovers
      <4> QED BY <4>1, <4>2
    <3> QED BY <3>1
  <2>6. \A j \in Slots \ {i} : pos'[j] = pos[j]
    BY <1>1, <2>1
  <2>7. Covered(ps, {p} \ gone, ds, {i})
    BY <2>4, <2>5, <2>6 DEF Covered
  <2> HIDE DEF gone, ps, ds
  <2> QED BY <1>1, <2>1, <2>7, ReplayCovers
<1>12. ASSUME NEW i \in Slots,
              \/ \E stop \in Stops : ProtectPosition(i, stop)
              \/ \E x \in Exits : ConfirmExit(i, x)
              \/ \E m \in Imports : ImportPosition(i, m)
       PROVE  ReplayMatches'
  <2>1. /\ journal' = Replayed(TRUE, {}, {}, {}, {i}) /\ UNCHANGED <<plan, resv>>
        /\ \A j \in Slots \ {i} : pos'[j] = pos[j]
    BY <1>1, <1>12 DEF ProtectPosition, ConfirmExit, ImportPosition, Journal
  <2>2. Covered({}, {}, {}, {i})
    BY <2>1 DEF Covered
  <2> QED BY <1>1, <2>1, <2>2, ReplayCovers
<1>13. CASE (\E a \in inflight : ActivateFails(a) \/ ActivateKeeps(a)) \/ Tick \/ UNCHANGED vars
  BY <1>2, <1>13 DEF ActivateFails, ActivateKeeps, Tick, vars
<1> QED
  BY NextCases, <1>3, <1>4, <1>6, <1>7, <1>8, <1>9, <1>10, <1>11, <1>12, <1>13

\* replay_check never finds a difference: after any sequence of methods, folding the
\* events they appended gives the wallet, plans, reservations and positions tables.
THEOREM ReplayAgrees == Spec => []ReplayMatches
<1>1. Init => PlanInv /\ ReplayMatches
  BY PlanInvInit DEF Init, ReplayMatches
<1>2. PlanInv /\ ReplayMatches /\ [Next]_vars => PlanInv' /\ ReplayMatches'
  BY PlanInvStep, ReplayStep
<1> QED BY <1>1, <1>2, PTL DEF Spec

-----------------------------------------------------------------------------
(* Positions *)

\* Only fills, protect requests, exits and imports touch a position.
LEMMA PositionCases ==
  ASSUME [Next]_vars
  PROVE  \/ pos' = pos
         \/ \E p \in Plans, f \in Fills, i \in Slots : ConfirmFill(p, f, i)
         \/ \E i \in Slots, stop \in Stops : ProtectPosition(i, stop)
         \/ \E i \in Slots, x \in Exits : ConfirmExit(i, x)
         \/ \E i \in Slots, m \in Imports : ImportPosition(i, m)
BY NextCases
   DEF SeedWallet, BuildPlan, RecordTriggerHit, ReleaseReservation, ActivateBegin, SweepExpired,
       ActivateFails, ActivateExpired, ActivateAtLimit, ActivateKeeps, ActivateEvaluates, Tick, vars

\* What a fill does to the positions: it touches one, which is the plan's open twin
\* or an unused slot, and gives it a stop no lower than the one it had.
LEMMA FillPositions ==
  ASSUME TypeOK, NEW p \in Plans, NEW f \in Fills, NEW i \in Slots, ConfirmFill(p, f, i)
  PROVE  /\ pos' = [pos EXCEPT ![i] = FilledPosition(p, f, i)]
         /\ FillSlot(p, i) /\ RoomForTwin(i)
         /\ pos'[i].plan = p /\ pos'[i].remaining > 0 /\ pos'[i].stop \in Nat \ {0}
         /\ pos'[i].quantity = pos[i].quantity + f.quantity
         /\ pos'[i].remaining = pos[i].remaining + f.quantity
         /\ pos'[i].stop >= pos[i].stop
         /\ pos'[i].protection = "PROTECTED" => pos'[i].covered = pos'[i].remaining
<1> DEFINE x == FilledPosition(p, f, i)
<1>1. pos' = [pos EXCEPT ![i] = x]
  BY Zenon DEF ConfirmFill
<1>2. FillSlot(p, i) /\ FillAccepted(p, f, i)
  BY Zenon DEF ConfirmFill
<1>3. RoomForTwin(i) /\ (f.stop # NoStop => f.stop >= pos[i].stop)
  BY <1>2, Zenon DEF FillAccepted
<1>4. pos[i] \in PositionType /\ plan[p].offer \in Offers
  BY DEF TypeOK, PositionType, PlanType
<1>5. f.quantity \in Nat \ {0} /\ f.stop \in Nat
  BY RequestsAssumption
<1>6. /\ x.plan = p /\ x.quantity = pos[i].quantity + f.quantity
      /\ x.remaining = pos[i].remaining + f.quantity
      /\ x.stop = EffectiveStop(p, f, i)
      /\ x.protection = Protection(x.covered, x.remaining)
  BY Zenon DEF FilledPosition
<1>7. EffectiveStop(p, f, i) \in Nat \ {0} /\ EffectiveStop(p, f, i) >= pos[i].stop
  <2>1. plan[p].offer.stop \in Nat \ {0}
    BY <1>4, OfferFacts
  <2>2. pos[i].stop \in Nat
    BY <1>4 DEF PositionType
  <2> QED BY <1>3, <1>5, <2>1, <2>2 DEF EffectiveStop, NoStop
<1>8. pos'[i] = x
  BY <1>1 DEF TypeOK
<1>9. pos[i].remaining \in Nat
  BY <1>4 DEF PositionType
<1> HIDE DEF x
<1>10. pos'[i].protection = "PROTECTED" => pos'[i].covered = pos'[i].remaining
  BY <1>6, <1>8 DEF Protection
<1>11. pos'[i].remaining > 0
  BY <1>5, <1>6, <1>8, <1>9
<1> QED BY <1>1, <1>2, <1>3, <1>6, <1>7, <1>8, <1>10, <1>11 DEF x

\* What the other requests do to the one position they touch.
LEMMA OtherPositions ==
  ASSUME TypeOK, NEW i \in Slots,
         \/ \E stop \in Stops : ProtectPosition(i, stop)
         \/ \E x \in Exits : ConfirmExit(i, x)
         \/ \E m \in Imports : ImportPosition(i, m)
  PROVE  /\ \A j \in Slots \ {i} : pos'[j] = pos[j]
         /\ pos'[i].plan = pos[i].plan \/ pos'[i].plan = Manual
         /\ pos'[i].remaining <= pos[i].remaining \/ pos'[i].plan = Manual
         /\ pos[i].quantity > 0 => pos'[i].stop >= pos[i].stop
         /\ pos[i].remaining <= pos[i].quantity => pos'[i].remaining <= pos'[i].quantity
         /\ \/ pos'[i].protection = "PROTECTED" =>
                 pos'[i].covered = pos'[i].remaining /\ pos'[i].stop # NoStop
            \/ /\ pos'[i].protection = pos[i].protection /\ pos'[i].covered = pos[i].covered
               /\ pos'[i].stop = pos[i].stop /\ pos'[i].remaining <= pos[i].remaining
<1>1. pos \in [Slots -> PositionType] /\ pos[i] \in PositionType
  BY DEF TypeOK
<1>2. pos[i].remaining \in Nat /\ pos[i].stop \in Nat /\ pos[i].quantity \in Nat
  BY <1>1 DEF PositionType
<1>3. ASSUME NEW stop \in Stops, ProtectPosition(i, stop)
      PROVE  /\ \A j \in Slots \ {i} : pos'[j] = pos[j]
             /\ pos'[i] = [pos[i] EXCEPT !.stop = stop, !.covered = pos[i].remaining,
                                         !.protection = "PROTECTED"]
             /\ stop \in Nat \ {0} /\ stop >= pos[i].stop
  <2>1. /\ pos' = [pos EXCEPT ![i].stop = stop, ![i].covered = pos[i].remaining,
                              ![i].protection = "PROTECTED"]
        /\ stop >= LowestStop(pos[i])
    BY <1>3 DEF ProtectPosition
  <2>2. stop \in Nat \ {0}
    BY RequestsAssumption
  <2> DEFINE floor == IF pos[i].plan = Manual THEN pos[i].stop
                      ELSE plan[pos[i].plan].offer.stop - StopTolerance
  <2>3. LowestStop(pos[i]) = IF floor > pos[i].stop THEN floor ELSE pos[i].stop
    BY Zenon DEF LowestStop
  <2>4. floor \in Int
    <3>1. CASE pos[i].plan = Manual
      BY <1>2, <3>1
    <3>2. CASE pos[i].plan # Manual
      <4>1. pos[i].plan \in Plans
        BY <1>1, <3>2 DEF PositionType
      <4>2. plan[pos[i].plan].offer \in Offers
        BY <4>1 DEF TypeOK, PlanType
      <4>3. plan[pos[i].plan].offer.stop \in Nat
        BY <4>2, OfferFacts
      <4>4. StopTolerance \in Nat
        BY LimitsAssumption
      <4> QED BY <3>2, <4>3, <4>4
    <3> QED BY <3>1, <3>2
  <2>5. stop >= pos[i].stop
    <3> HIDE DEF floor
    <3> QED BY <1>2, <2>1, <2>2, <2>3, <2>4
  <2> QED BY <1>1, <2>1, <2>2, <2>5 DEF PositionType
<1>4. ASSUME NEW x \in Exits, ConfirmExit(i, x)
      PROVE  /\ \A j \in Slots \ {i} : pos'[j] = pos[j]
             /\ pos'[i] = [pos[i] EXCEPT !.remaining = pos[i].remaining - x.quantity]
             /\ x.quantity \in Nat
  <2>1. pos' = [pos EXCEPT ![i].remaining = @ - x.quantity]
    BY <1>4, Zenon DEF ConfirmExit
  <2> QED BY <1>1, <2>1, RequestsAssumption DEF PositionType
<1>5. ASSUME NEW m \in Imports, ImportPosition(i, m)
      PROVE  /\ \A j \in Slots \ {i} : pos'[j] = pos[j]
             /\ pos[i].quantity = 0
             /\ pos'[i].plan = Manual /\ pos'[i].remaining = m.quantity
             /\ pos'[i].quantity = m.quantity /\ m.quantity \in Nat /\ pos'[i].stop = m.stop
             /\ pos'[i].covered = (IF m.stop = NoStop THEN 0 ELSE m.quantity)
             /\ pos'[i].protection = (IF m.stop = NoStop THEN "UNPROTECTED" ELSE "PROTECTED")
  <2>1. /\ pos' = [pos EXCEPT ![i] =
           [plan |-> Manual, symbol |-> m.symbol, quantity |-> m.quantity,
            remaining |-> m.quantity, avg |-> m.price, stop |-> m.stop,
            covered |-> IF m.stop = NoStop THEN 0 ELSE m.quantity,
            protection |-> IF m.stop = NoStop THEN "UNPROTECTED" ELSE "PROTECTED"]]
        /\ pos[i].quantity = 0
    BY <1>5 DEF ImportPosition
  <2> QED BY <1>1, <2>1, RequestsAssumption
<1>6. CASE \E stop \in Stops : ProtectPosition(i, stop)
  <2>1. PICK stop \in Stops : ProtectPosition(i, stop)
    BY <1>6
  <2>2. /\ \A j \in Slots \ {i} : pos'[j] = pos[j]
        /\ pos'[i] = [pos[i] EXCEPT !.stop = stop, !.covered = pos[i].remaining,
                                    !.protection = "PROTECTED"]
        /\ stop \in Nat \ {0} /\ stop >= pos[i].stop
    BY <1>3, <2>1
  <2> QED BY <1>1, <1>2, <2>2 DEF PositionType, NoStop
<1>7. CASE \E x \in Exits : ConfirmExit(i, x)
  <2>1. PICK x \in Exits : ConfirmExit(i, x)
    BY <1>7
  <2>2. /\ \A j \in Slots \ {i} : pos'[j] = pos[j]
        /\ pos'[i] = [pos[i] EXCEPT !.remaining = pos[i].remaining - x.quantity]
        /\ x.quantity \in Nat
    BY <1>4, <2>1
  <2> QED BY <1>1, <1>2, <2>2 DEF PositionType
<1>8. CASE \E m \in Imports : ImportPosition(i, m)
  BY <1>2, <1>5, <1>8
<1> QED BY <1>6, <1>7, <1>8

\* No fill, protect request, exit or import lowers the stop of a twin.
THEOREM StopsNeverLoosen == Spec => StopNeverLoosens
<1> DEFINE Kept == \A i \in Slots : pos[i].quantity > 0 => pos'[i].stop >= pos[i].stop
<1>1. TypeOK /\ [Next]_vars => [Kept]_vars
  <2> SUFFICES ASSUME TypeOK, [Next]_vars PROVE Kept
    OBVIOUS
  <2>1. pos \in [Slots -> PositionType] /\ \A i \in Slots : pos[i].stop \in Nat
    BY DEF TypeOK, PositionType
  <2>2. CASE pos' = pos
    BY <2>1, <2>2
  <2>3. ASSUME NEW p \in Plans, NEW f \in Fills, NEW i \in Slots, ConfirmFill(p, f, i) PROVE Kept
    <3>1. pos'[i].stop >= pos[i].stop /\ \A j \in Slots \ {i} : pos'[j] = pos[j]
      BY <2>1, <2>3, FillPositions
    <3> QED BY <2>1, <3>1
  <2>4. ASSUME NEW i \in Slots,
               \/ \E stop \in Stops : ProtectPosition(i, stop)
               \/ \E x \in Exits : ConfirmExit(i, x)
               \/ \E m \in Imports : ImportPosition(i, m)
        PROVE  Kept
    <3>1. /\ pos[i].quantity > 0 => pos'[i].stop >= pos[i].stop
          /\ \A j \in Slots \ {i} : pos'[j] = pos[j]
      BY <2>4, OtherPositions
    <3> QED BY <2>1, <3>1
  <2> QED BY PositionCases, <2>2, <2>3, <2>4
<1> QED BY <1>1, TypeCorrect, PTL DEF Spec, StopNeverLoosens

\* The open twins that fills created.
FilledTwins == {i \in OpenSlots : pos[i].plan # Manual}

\* The invariant of the positions: the twins of one plan, the stop order behind a
\* PROTECTED one and the position limit hold together only while no position has
\* more shares left than it ever had, since a fill tells a new twin from an open
\* one by its quantity.
TwinInv ==
  /\ TypeOK
  /\ \A i \in Slots : pos[i].remaining <= pos[i].quantity
  /\ OneOpenTwinPerPlan /\ ProtectedCovers /\ FillsWithinConcurrency

\* A fill adds at most one twin, and only below the limit.
LEMMA FillKeepsTwins ==
  ASSUME TwinInv, TypeOK', NEW p \in Plans, NEW f \in Fills, NEW i \in Slots, ConfirmFill(p, f, i)
  PROVE  TwinInv'
<1>1. /\ TypeOK /\ pos \in [Slots -> PositionType] /\ p # Manual
      /\ \A j \in Slots : pos[j].remaining \in Nat /\ pos[j].quantity \in Nat
      /\ pos[i].remaining <= pos[i].quantity
  BY NamesAssumption DEF TwinInv, TypeOK, PositionType
<1>2. /\ \A j \in Slots \ {i} : pos'[j] = pos[j]
      /\ FillSlot(p, i) /\ RoomForTwin(i)
      /\ pos'[i].plan = p /\ pos'[i].remaining > 0 /\ pos'[i].stop # NoStop
      /\ pos'[i].quantity = pos[i].quantity + f.quantity
      /\ pos'[i].remaining = pos[i].remaining + f.quantity
      /\ pos'[i].protection = "PROTECTED" => pos'[i].covered = pos'[i].remaining
  BY <1>1, FillPositions DEF NoStop
<1>3. OpenSlots' = OpenSlots \cup {i}
  BY <1>2 DEF OpenSlots
<1>4. \A j \in Slots : pos'[j].remaining <= pos'[j].quantity
  <2>1. f.quantity \in Nat
    BY RequestsAssumption
  <2> QED BY <1>1, <1>2, <2>1 DEF TwinInv
<1>5. OneOpenTwinPerPlan'
  <2>1. ASSUME NEW j \in OpenSlots \ {i}, pos[j].plan = p PROVE FALSE
    <3>1. i \in OpenSlots /\ pos[i].plan = p
      BY <1>2, <2>1 DEF FillSlot
    <3> QED BY <1>1, <2>1, <3>1 DEF TwinInv, OneOpenTwinPerPlan
  <2> QED BY <1>2, <1>3, <2>1 DEF TwinInv, OneOpenTwinPerPlan, OpenSlots
<1>6. ProtectedCovers'
  <2>1. ASSUME NEW j \in Slots, pos'[j].protection = "PROTECTED"
        PROVE  pos'[j].covered >= pos'[j].remaining /\ pos'[j].stop # NoStop
    <3>1. CASE j = i
      <4>1. pos'[i].remaining \in Nat
        BY DEF TypeOK, PositionType
      <4> QED BY <1>2, <2>1, <3>1, <4>1
    <3>2. CASE j # i
      BY <1>2, <2>1, <3>2 DEF TwinInv, ProtectedCovers
    <3> QED BY <3>1, <3>2
  <2> QED BY <2>1 DEF ProtectedCovers
<1>7. FillsWithinConcurrency'
  <2>1. IsFiniteSet(OpenSlots) /\ IsFiniteSet(FilledTwins)
    BY SlotsAssumption, FS_Subset DEF OpenSlots, FilledTwins
  <2>2. FilledTwins' = FilledTwins \cup {i}
    BY <1>1, <1>2, <1>3 DEF FilledTwins, OpenSlots
  <2>3. Cardinality(FilledTwins) <= MaxConcurrent
    BY DEF TwinInv, FillsWithinConcurrency, FilledTwins
  <2>4. CASE i \in FilledTwins
    <3>1. FilledTwins' = FilledTwins
      BY <2>2, <2>4
    <3> QED BY <2>3, <3>1 DEF FillsWithinConcurrency, FilledTwins
  <2>5. CASE i \notin FilledTwins
    <3>1. i \notin OpenSlots
      BY <1>1, <1>2, <2>5 DEF FillSlot, FilledTwins, OpenSlots
    <3>2. Cardinality(OpenSlots) < MaxConcurrent
      BY <1>2, <3>1 DEF RoomForTwin
    <3>3. Cardinality(FilledTwins) <= Cardinality(OpenSlots)
      BY <2>1, FS_Subset DEF FilledTwins
    <3>4. Cardinality(FilledTwins \cup {i}) = Cardinality(FilledTwins) + 1
      BY <2>1, <2>5, FS_AddElement
    <3>5. Cardinality(FilledTwins) \in Nat /\ Cardinality(OpenSlots) \in Nat /\ MaxConcurrent \in Nat
      BY <2>1, FS_CardinalityType, LimitsAssumption
    <3>6. Cardinality(FilledTwins') <= MaxConcurrent
      BY <2>2, <3>2, <3>3, <3>4, <3>5
    <3> QED BY <3>6 DEF FillsWithinConcurrency, FilledTwins
  <2> QED BY <2>4, <2>5
<1> QED BY <1>4, <1>5, <1>6, <1>7 DEF TwinInv

\* Protect requests, exits and imports add no twin of a plan.
LEMMA OthersKeepTwins ==
  ASSUME TwinInv, TypeOK', NEW i \in Slots,
         \/ \E stop \in Stops : ProtectPosition(i, stop)
         \/ \E x \in Exits : ConfirmExit(i, x)
         \/ \E m \in Imports : ImportPosition(i, m)
  PROVE  TwinInv'
<1>1. /\ TypeOK
      /\ \A j \in Slots : pos[j].remaining \in Nat /\ pos[j].covered \in Nat
      /\ \A j \in Slots : pos'[j].remaining \in Nat /\ pos'[j].covered \in Nat
  BY DEF TwinInv, TypeOK, PositionType
<1>2. /\ \A j \in Slots \ {i} : pos'[j] = pos[j]
      /\ pos'[i].plan = pos[i].plan \/ pos'[i].plan = Manual
      /\ pos'[i].remaining <= pos[i].remaining \/ pos'[i].plan = Manual
      /\ pos[i].remaining <= pos[i].quantity => pos'[i].remaining <= pos'[i].quantity
      /\ \/ pos'[i].protection = "PROTECTED" =>
              pos'[i].covered = pos'[i].remaining /\ pos'[i].stop # NoStop
         \/ /\ pos'[i].protection = pos[i].protection /\ pos'[i].covered = pos[i].covered
            /\ pos'[i].stop = pos[i].stop /\ pos'[i].remaining <= pos[i].remaining
  BY <1>1, OtherPositions
<1>3. FilledTwins' \subseteq FilledTwins /\ \A j \in FilledTwins' : pos'[j].plan = pos[j].plan
  BY <1>1, <1>2 DEF FilledTwins, OpenSlots
<1>4. \A j \in Slots : pos'[j].remaining <= pos'[j].quantity
  BY <1>2 DEF TwinInv
<1>5. OneOpenTwinPerPlan'
  <2>1. ASSUME NEW j \in OpenSlots', NEW k \in OpenSlots',
               pos'[j].plan = pos'[k].plan, pos'[j].plan # Manual
        PROVE  j = k
    <3>1. j \in FilledTwins' /\ k \in FilledTwins'
      BY <2>1 DEF FilledTwins
    <3>2. /\ j \in OpenSlots /\ k \in OpenSlots
          /\ pos[j].plan = pos'[j].plan /\ pos[k].plan = pos'[k].plan
      BY <1>3, <3>1 DEF FilledTwins
    <3> QED BY <2>1, <3>2 DEF TwinInv, OneOpenTwinPerPlan
  <2> QED BY <2>1 DEF OneOpenTwinPerPlan
<1>6. ProtectedCovers'
  <2>1. ASSUME NEW j \in Slots, pos'[j].protection = "PROTECTED"
        PROVE  pos'[j].covered >= pos'[j].remaining /\ pos'[j].stop # NoStop
    <3>1. pos[j].protection = "PROTECTED" => pos[j].covered >= pos[j].remaining /\ pos[j].stop # NoStop
      BY DEF TwinInv, ProtectedCovers
    <3> QED BY <1>1, <1>2, <2>1, <3>1
  <2> QED BY <2>1 DEF ProtectedCovers
<1>7. FillsWithinConcurrency'
  <2>1. IsFiniteSet(FilledTwins)
    BY SlotsAssumption, FS_Subset DEF OpenSlots, FilledTwins
  <2>2. /\ IsFiniteSet(FilledTwins') /\ Cardinality(FilledTwins') <= Cardinality(FilledTwins)
    BY <1>3, <2>1, FS_Subset
  <2>3. Cardinality(FilledTwins) <= MaxConcurrent
    BY DEF TwinInv, FillsWithinConcurrency, FilledTwins
  <2>4. Cardinality(FilledTwins) \in Nat /\ Cardinality(FilledTwins') \in Nat /\ MaxConcurrent \in Nat
    BY <2>1, <2>2, FS_CardinalityType, LimitsAssumption
  <2>5. Cardinality(FilledTwins') <= MaxConcurrent
    BY <2>2, <2>3, <2>4
  <2> QED BY <2>5 DEF FillsWithinConcurrency, FilledTwins
<1> QED BY <1>4, <1>5, <1>6, <1>7 DEF TwinInv

\* TwinInv holds initially and is preserved by every step.
LEMMA TwinInvariant ==
  /\ Init => TwinInv
  /\ TwinInv /\ [Next]_vars => TwinInv'
<1>1. Init => TwinInv
  <2> SUFFICES ASSUME Init PROVE TwinInv
    OBVIOUS
  <2>1. \A i \in Slots : /\ pos[i].remaining = 0 /\ pos[i].quantity = 0
                         /\ pos[i].protection = "UNPROTECTED"
    <3>1. /\ NoPosition.remaining = 0 /\ NoPosition.quantity = 0
          /\ NoPosition.protection = "UNPROTECTED"
      BY Zenon DEF NoPosition
    <3>2. \A i \in Slots : pos[i] = NoPosition
      BY Zenon DEF Init
    <3> QED BY <3>1, <3>2
  <2>2. OpenSlots = {}
    BY <2>1 DEF OpenSlots
  <2>3. FillsWithinConcurrency
    <3>1. FilledTwins = {}
      BY <2>2 DEF FilledTwins
    <3>2. Cardinality({}) = 0 /\ MaxConcurrent \in Nat
      BY FS_EmptySet, LimitsAssumption
    <3>3. Cardinality(FilledTwins) <= MaxConcurrent
      BY <3>1, <3>2
    <3> QED BY <3>3 DEF FillsWithinConcurrency, FilledTwins
  <2>4. TypeOK
    BY TypeInit
  <2> QED
    BY <2>1, <2>2, <2>3, <2>4 DEF TwinInv, OneOpenTwinPerPlan, ProtectedCovers
<1>2. TwinInv /\ [Next]_vars => TwinInv'
  <2> SUFFICES ASSUME TwinInv, [Next]_vars PROVE TwinInv'
    OBVIOUS
  <2>1. TypeOK'
    BY TypeStep DEF TwinInv
  <2>2. CASE pos' = pos
    BY <2>1, <2>2
       DEF TwinInv, OneOpenTwinPerPlan, ProtectedCovers, FillsWithinConcurrency, OpenSlots
  <2>3. ASSUME NEW p \in Plans, NEW f \in Fills, NEW i \in Slots, ConfirmFill(p, f, i) PROVE TwinInv'
    BY <2>1, <2>3, FillKeepsTwins
  <2>4. ASSUME NEW i \in Slots,
               \/ \E stop \in Stops : ProtectPosition(i, stop)
               \/ \E x \in Exits : ConfirmExit(i, x)
               \/ \E m \in Imports : ImportPosition(i, m)
        PROVE  TwinInv'
    BY <2>1, <2>4, OthersKeepTwins
  <2> QED BY PositionCases, <2>2, <2>3, <2>4
<1> QED BY <1>1, <1>2

\* Partial fills of one plan, however they are interleaved with exits and the
\* fills of other plans, never leave it with two open twins.
THEOREM OneTwinPerPlan == Spec => []OneOpenTwinPerPlan
<1>1. TwinInv => OneOpenTwinPerPlan
  BY DEF TwinInv
<1> QED BY <1>1, TwinInvariant, PTL DEF Spec

\* The fills never open more twins than max_concurrent_positions.
THEOREM FillsBounded == Spec => []FillsWithinConcurrency
<1>1. TwinInv => FillsWithinConcurrency
  BY DEF TwinInv
<1> QED BY <1>1, TwinInvariant, PTL DEF Spec

\* A twin marked PROTECTED has a stop order that covers all it still holds.
THEOREM ProtectionHolds == Spec => []ProtectedCovers
<1>1. TwinInv => ProtectedCovers
  BY DEF TwinInv
<1> QED BY <1>1, TwinInvariant, PTL DEF Spec

-----------------------------------------------------------------------------
(* Reserved cash *)

\* The cash the reservation rows r hold together.
CashIn(r) == SumFunctionOnSet([q \in Plans |-> r[q].cash], Plans)

\* What the wallet w owes to the rows r after n seeds.
Backed(w, r, n) == w.reserved <= CashIn(r) /\ (n <= 1 => w.reserved = CashIn(r))

\* The rows r are priced at the upper end of the entry zones of the plans ps.
Priced(ps, r) == \A p \in Plans : r[p].cash = r[p].quantity * ps[p].offer.zone

\* Nothing can be reserved before the wallet is seeded.
UnseededIdle == seeds = 0 => wallet.capital = 0 /\ inflight = {} /\ \A p \in Plans : ~Holding(p)

\* ReservedCashBacked needs the rows and the plans to agree, or a release would
\* subtract cash the wallet never counted, and an idle service before the first
\* seed, or that seed would zero the cash of live reservations.
CashInv == PlanInv /\ Backed(wallet, resv, seeds) /\ Priced(plan, resv) /\ UnseededIdle

\* The invariant in the words of the model.
LEMMA CashInvImplies == CashInv => ReservedCashBacked
BY DEF CashInv, Backed, Priced, CashIn, ReservedCashBacked, HeldCash

\* Rows hold a natural amount of cash.
LEMMA CashType ==
  ASSUME NEW r \in [Plans -> ReservationType]
  PROVE  CashIn(r) \in Nat
<1> DEFINE f == [q \in Plans |-> r[q].cash]
<1>1. IsCount(f, Plans)
  BY DEF IsCount, ReservationType
<1> HIDE DEF f
<1>2. SumFunctionOnSet(f, Plans) \in Nat
  BY <1>1, PlansAssumption, SumType
<1> QED BY <1>2 DEF CashIn, f

\* Rows emptied take their cash with them.
LEMMA CashAfterRelease ==
  ASSUME NEW r \in [Plans -> ReservationType], NEW S \in SUBSET Plans,
         NEW r1, \A q \in S : r1[q] = NoReservation, \A q \in Plans \ S : r1[q] = r[q]
  PROVE  /\ CashIn(r) \in Nat /\ CashIn(r1) \in Nat
         /\ SumFunctionOnSet([q \in Plans |-> r[q].cash], S) \in Nat
         /\ CashIn(r1) = CashIn(r) - SumFunctionOnSet([q \in Plans |-> r[q].cash], S)
<1> DEFINE f == [q \in Plans |-> r[q].cash]
           g == [q \in Plans |-> r1[q].cash]
<1>1. IsFiniteSet(Plans) /\ IsFiniteSet(S) /\ IsFiniteSet(Plans \ S)
  BY PlansAssumption, FS_Subset
<1>2. \A q \in Plans : f[q] \in Nat
  BY DEF ReservationType
<1>3. \A q \in S : g[q] = 0
  BY DEF NoReservation
<1>4. \A q \in Plans \ S : g[q] = f[q]
  OBVIOUS
<1> HIDE DEF f, g
<1>5. /\ IsCount(f, Plans) /\ IsCount(f, S) /\ IsCount(f, Plans \ S)
      /\ IsCount(g, Plans)
  BY <1>2, <1>3, <1>4 DEF IsCount
<1>6. /\ SumFunctionOnSet(f, Plans) = SumFunctionOnSet(f, S) + SumFunctionOnSet(f, Plans \ S)
      /\ SumFunctionOnSet(g, Plans) = SumFunctionOnSet(g, S) + SumFunctionOnSet(g, Plans \ S)
  BY <1>1, <1>5, SumSplit
<1>7. SumFunctionOnSet(g, S) = 0
  BY <1>1, <1>3, SumOfZeros
<1>8. SumFunctionOnSet(g, Plans \ S) = SumFunctionOnSet(f, Plans \ S)
  BY <1>1, <1>4, <1>5, SumEqual
<1>9. /\ SumFunctionOnSet(f, S) \in Nat /\ SumFunctionOnSet(f, Plans \ S) \in Nat
      /\ SumFunctionOnSet(f, Plans) \in Nat /\ SumFunctionOnSet(g, Plans) \in Nat
  BY <1>1, <1>5, SumType
<1>10. SumFunctionOnSet(g, Plans) = SumFunctionOnSet(f, Plans) - SumFunctionOnSet(f, S)
  BY <1>6, <1>7, <1>8, <1>9
<1> QED BY <1>9, <1>10 DEF CashIn, f, g

\* One row rewritten changes the cash by the difference.
LEMMA CashAfterChange ==
  ASSUME NEW r \in [Plans -> ReservationType], NEW p \in Plans, NEW x \in ReservationType
  PROVE  /\ CashIn(r) \in Nat /\ r[p].cash \in Nat /\ x.cash \in Nat
         /\ CashIn([r EXCEPT ![p] = x]) = CashIn(r) - r[p].cash + x.cash
<1> DEFINE f == [q \in Plans |-> r[q].cash]
           r1 == [r EXCEPT ![p] = x]
           g == [q \in Plans |-> r1[q].cash]
<1>1. IsFiniteSet(Plans) /\ IsCount(f, Plans)
  BY PlansAssumption DEF IsCount, ReservationType
<1>2. f[p] = r[p].cash /\ f[p] \in Nat /\ g[p] = x.cash /\ g[p] \in Nat
  BY DEF ReservationType
<1>3. \A q \in Plans \ {p} : g[q] = f[q]
  OBVIOUS
<1> HIDE DEF f, g
<1>4. SumFunctionOnSet(g, Plans) = SumFunctionOnSet(f, Plans) - f[p] + g[p]
  BY <1>1, <1>2, <1>3, SumChange
<1>5. SumFunctionOnSet(f, Plans) \in Nat
  BY <1>1, SumType
<1> QED BY <1>2, <1>4, <1>5 DEF CashIn, f, g

\* A release, or the sweep, subtracts what its rows held.
LEMMA ReleaseBacked ==
  ASSUME TypeOK, Backed(wallet, resv, seeds), NEW S \in SUBSET Plans,
         NEW r1, \A q \in S : r1[q] = NoReservation, \A q \in Plans \ S : r1[q] = resv[q]
  PROVE  Backed(ReleasedWallet(S), r1, seeds)
<1> DEFINE c == SumFunctionOnSet(HeldCash, S)
<1>1. resv \in [Plans -> ReservationType] /\ wallet.reserved \in Nat /\ seeds \in Nat
  BY DEF TypeOK, WalletType
<1>2. CashIn(resv) \in Nat /\ CashIn(r1) \in Nat /\ c \in Nat /\ CashIn(r1) = CashIn(resv) - c
  BY <1>1, CashAfterRelease DEF HeldCash
<1>3. ReleasedWallet(S).reserved = Max0(wallet.reserved - c)
  BY DEF ReleasedWallet, TypeOK, WalletType
<1> HIDE DEF c
<1> QED BY <1>1, <1>2, <1>3 DEF Backed, Max0

\* A released row costs nothing at any price.
LEMMA ReleasePriced ==
  ASSUME NEW ps, NEW ps1, NEW r, NEW r1, Priced(ps, r),
         \A q \in Plans : /\ ps1[q].offer = ps[q].offer /\ ps[q].offer.zone \in Nat
                          /\ r1[q] = NoReservation \/ r1[q] = r[q]
  PROVE  Priced(ps1, r1)
BY DEF Priced, NoReservation

\* Before the first seed only plans are issued, triggered and expired.
LEMMA IdleStep ==
  ASSUME CashInv, [Next]_vars
  PROVE  UnseededIdle'
<1>1. TypeOK /\ now \in Nat /\ seeds \in Nat /\ resv \in [Plans -> ReservationType]
  BY DEF CashInv, PlanInv, TypeOK
<1> SUFFICES ASSUME seeds' = 0
             PROVE  wallet'.capital = 0 /\ inflight' = {} /\ \A p \in Plans : ~Holding(p)'
  BY DEF UnseededIdle
<1>2. ASSUME NEW s \in Seeds, SeedWallet(s) PROVE FALSE
  <2>1. seeds' = seeds + 1
    BY <1>2 DEF SeedWallet
  <2> QED BY <1>1, <2>1
<1>3. seeds = 0
  BY <1>2, NextCases
     DEF BuildPlan, RecordTriggerHit, ReleaseReservation, ActivateBegin, SweepExpired,
         ActivateFails, ActivateExpired, ActivateAtLimit, ActivateKeeps, ActivateEvaluates,
         ConfirmFill, ProtectPosition, ConfirmExit, ImportPosition, Tick, vars
<1>4. ~Seeded /\ inflight = {} /\ \A p \in Plans : ~Holding(p)
  BY <1>3 DEF CashInv, UnseededIdle, Seeded
<1>5. wallet.capital = 0
  BY <1>3 DEF CashInv, UnseededIdle
<1>6. \A p \in Plans, f \in Fills, i \in Slots : ~ConfirmFill(p, f, i)
  BY <1>1, <1>4, FillFacts DEF ConfirmFill
<1>7. \/ UNCHANGED <<wallet, resv, inflight>>
      \/ SweepExpired
  BY <1>2, <1>4, <1>6, NextCases
     DEF BuildPlan, RecordTriggerHit, ReleaseReservation, ActivateBegin, ProtectPosition,
         ConfirmExit, ImportPosition, Tick, vars
<1>8. CASE UNCHANGED <<wallet, resv, inflight>>
  BY <1>4, <1>5, <1>8 DEF Holding
<1>9. CASE SweepExpired
  <2>1. wallet' = SweptWallet(now) /\ resv' = SweptResv(now) /\ inflight' = inflight
    BY <1>9 DEF SweepExpired
  <2>2. SweptWallet(now).capital = wallet.capital
    BY <1>1 DEF SweptWallet, ReleasedWallet, TypeOK, WalletType
  <2>3. \A p \in Plans : resv'[p] = NoReservation \/ resv'[p] = resv[p]
    BY <1>1, <2>1, SweepFacts
  <2> QED BY <1>4, <1>5, <2>1, <2>2, <2>3 DEF Holding, NoReservation
<1> QED BY <1>7, <1>8, <1>9

\* A step that releases the rows of S, and changes no other row and no offer.
LEMMA ReleaseStep ==
  ASSUME CashInv, NEW S \in SUBSET Plans, wallet' = ReleasedWallet(S),
         \A q \in S : resv'[q] = NoReservation, \A q \in Plans \ S : resv'[q] = resv[q],
         \A q \in Plans : plan'[q].offer = plan[q].offer
  PROVE  Backed(wallet', resv', seeds) /\ Priced(plan', resv')
<1>1. TypeOK /\ Backed(wallet, resv, seeds) /\ Priced(plan, resv)
  BY DEF CashInv, PlanInv
<1>2. Backed(wallet', resv', seeds)
  BY <1>1, ReleaseBacked
<1>3. \A q \in Plans : plan[q].offer.zone \in Nat
  BY <1>1, OfferFacts DEF TypeOK, PlanType
<1> QED BY <1>1, <1>2, <1>3, ReleasePriced

\* A new reservation is counted with its price.
LEMMA EvaluatesCash ==
  ASSUME CashInv, NEW a \in inflight, NEW b \in BOOLEAN, ActivateEvaluates(a, b)
  PROVE  Backed(wallet', resv', seeds) /\ Priced(plan', resv')
<1> DEFINE p == a.plan
           held == IF Holding(p) THEN {p} ELSE {}
           w == ReleasedWallet(held)
           r == [resv EXCEPT ![p] = NoReservation]
<1>1. /\ TypeOK /\ plan \in [Plans -> PlanType] /\ resv \in [Plans -> ReservationType]
      /\ Priced(plan, resv) /\ EmptyReservations
  BY DEF CashInv, PlanInv, TypeOK
<1>2. p \in Plans
  BY <1>1 DEF TypeOK, InflightType
<1>a. PICK n \in Nat, reserve \in BOOLEAN, taken \in ReservationType, status \in Statuses :
        Granted(a, n, reserve, taken, status)
  BY <1>1, EvaluatesFacts
<1>3. /\ taken.quantity = n /\ taken.cash = n * plan[p].offer.zone
      /\ resv' = [resv EXCEPT ![p] = IF reserve THEN taken ELSE NoReservation]
      /\ plan' = WithStatus(p, status)
      /\ wallet' = IF reserve THEN [w EXCEPT !.reserved = w.reserved + taken.cash,
                                             !.risk = w.risk + taken.risk]
                   ELSE w
  BY <1>a DEF Granted
<1>4. \A q \in Plans : plan'[q].offer = plan[q].offer
  BY <1>1, <1>3 DEF WithStatus, PlanType
<1>5. /\ held \in SUBSET Plans
      /\ \A q \in held : r[q] = NoReservation
      /\ \A q \in Plans \ held : r[q] = resv[q]
  BY <1>1, <1>2 DEF EmptyReservations
<1>6. Backed(w, r, seeds) /\ r \in [Plans -> ReservationType] /\ w \in WalletType
  <2>1. Backed(wallet, resv, seeds)
    BY DEF CashInv
  <2>2. NoReservation \in ReservationType
    BY EmptyTypes
  <2> HIDE DEF held
  <2> QED BY <1>1, <1>2, <1>5, <2>1, <2>2, ReleaseBacked, ReleasedWalletType
<1>7. Priced(plan', resv')
  <2>1. \A q \in Plans : plan[q].offer.zone \in Nat
    BY <1>1, OfferFacts DEF PlanType
  <2>2. ASSUME NEW q \in Plans PROVE resv'[q].cash = resv'[q].quantity * plan'[q].offer.zone
    <3>1. CASE q = p /\ reserve
      BY <1>1, <1>2, <1>3, <1>4, <3>1
    <3>2. CASE ~(q = p /\ reserve)
      <4>1. resv'[q] = NoReservation \/ resv'[q] = resv[q]
        BY <1>1, <1>2, <1>3, <3>2
      <4> QED BY <1>1, <1>4, <2>1, <4>1 DEF Priced, NoReservation
    <3> QED BY <3>1, <3>2
  <2> QED BY <2>2 DEF Priced
<1>8. Backed(wallet', resv', seeds)
  <2> HIDE DEF w, r
  <2>1. CASE ~reserve
    BY <1>3, <1>6, <2>1 DEF r
  <2>2. CASE reserve
    <3>1. resv' = [r EXCEPT ![p] = taken] /\ r[p] = NoReservation
      BY <1>1, <1>2, <1>3, <2>2 DEF r
    <3>2. /\ CashIn(r) \in Nat /\ taken.cash \in Nat
          /\ CashIn(resv') = CashIn(r) - r[p].cash + taken.cash
      <4> HIDE DEF p
      <4> QED BY <1>2, <1>6, <3>1, CashAfterChange
    <3>3. r[p].cash = 0
      BY <3>1 DEF NoReservation
    <3>4. wallet'.reserved = w.reserved + taken.cash /\ w.reserved \in Nat
      BY <1>3, <1>6, <2>2 DEF WalletType
    <3> QED BY <1>6, <3>2, <3>3, <3>4 DEF Backed
  <2> QED BY <2>1, <2>2
<1> QED BY <1>7, <1>8

\* The sweep subtracts what its rows held.
LEMMA SweepBacked ==
  ASSUME CashInv
  PROVE  Backed(SweptWallet(now), SweptResv(now), seeds)
<1> DEFINE r == SweptResv(now)
<1>1. TypeOK /\ PlanInv /\ Backed(wallet, resv, seeds)
  BY DEF CashInv, PlanInv
<1>2. SweptHolds(now) \in SUBSET Plans
  BY DEF SweptHolds, SweptPlans, ExpiredPlans, LapsedPlans
<1>3. /\ \A q \in SweptHolds(now) : r[q] = NoReservation
      /\ \A q \in Plans \ SweptHolds(now) : r[q] = resv[q]
  BY <1>1, <1>2, SweepCovers
<1> HIDE DEF r
<1> QED BY <1>1, <1>2, <1>3, ReleaseBacked DEF SweptWallet, r

\* A fill gives back the cash of the shares it filled.
LEMMA FillCash ==
  ASSUME CashInv, NEW p \in Plans, NEW f \in Fills, NEW i \in Slots, ConfirmFill(p, f, i)
  PROVE  Backed(wallet', resv', seeds) /\ Priced(plan', resv')
<1> DEFINE w == SweptWallet(now)
           r == SweptResv(now)
           x == FilledReservation(p, f)
<1>1. /\ TypeOK /\ now \in Nat /\ plan \in [Plans -> PlanType] /\ resv \in [Plans -> ReservationType]
      /\ Priced(plan, resv) /\ PlanInv /\ Backed(wallet, resv, seeds)
  BY DEF CashInv, PlanInv, TypeOK
<1>2. /\ w \in WalletType /\ r \in [Plans -> ReservationType]
      /\ SweptPlan(now) \in [Plans -> PlanType]
      /\ \A q \in Plans : SweptPlan(now)[q].offer = plan[q].offer
  BY <1>1, SweepFacts
<1>3. /\ p \notin SweptPlans(now) /\ x \in ReservationType
      /\ x.quantity = resv[p].quantity - f.quantity
      /\ x.quantity = 0 => x = NoReservation
  BY <1>1, FillFacts DEF ConfirmFill
<1>4. r[p] = resv[p]
  BY <1>1, <1>3, SweepFacts
<1>5. /\ resv' = [r EXCEPT ![p] = x] /\ wallet' = FilledWallet(p, f, i)
      /\ plan' = [SweptPlan(now) EXCEPT ![p].status =
                    IF f.quantity = resv[p].quantity THEN "FILLED" ELSE "RESERVED"]
  BY Zenon DEF ConfirmFill
<1>6. \A q \in Plans : plan'[q].offer = plan[q].offer
  BY <1>2, <1>5 DEF PlanType
<1>7. Backed(w, r, seeds)
  BY SweepBacked
<1>8. x.cash = x.quantity * plan[p].offer.zone
  <2>1. plan[p].offer.zone \in Nat
    BY <1>1, OfferFacts DEF PlanType
  <2>2. CASE x.quantity = 0
    BY <1>3, <2>1, <2>2 DEF NoReservation
  <2>3. CASE x.quantity # 0
    <3> DEFINE left == resv[p].quantity - f.quantity
               cash == left * plan[p].offer.zone
               risk == left * RiskPerShare(plan[p].offer)
               y == resv[p]
    <3>1. x = IF left = 0 THEN NoReservation
              ELSE [y EXCEPT !.quantity = left, !.cash = cash, !.risk = risk]
      BY DEF FilledReservation
    <3>2. y \in ReservationType
      BY <1>1
    <3>3. x.cash = cash
      <4> HIDE DEF left, cash, risk, x, y
      <4>1. left # 0
        BY <3>1, <2>3 DEF NoReservation
      <4> QED BY <3>1, <3>2, <4>1 DEF ReservationType
    <3> QED BY <1>3, <3>3
  <2> QED BY <2>2, <2>3
<1>9. Priced(plan', resv')
  <2> HIDE DEF x, r
  <2>1. ASSUME NEW q \in Plans PROVE resv'[q].cash = resv'[q].quantity * plan'[q].offer.zone
    <3>1. CASE q = p
      BY <1>2, <1>5, <1>6, <1>8, <3>1
    <3>2. CASE q # p
      <4>1. resv'[q] = r[q]
        BY <1>2, <1>5, <3>2
      <4>2. r[q] = NoReservation \/ r[q] = resv[q]
        BY <1>1, SweepFacts DEF r
      <4>3. plan[q].offer.zone \in Nat
        BY <1>1, OfferFacts DEF PlanType
      <4> QED BY <1>1, <1>6, <4>1, <4>2, <4>3 DEF Priced, NoReservation
    <3> QED BY <3>1, <3>2
  <2> QED BY <2>1 DEF Priced
<1>10. Backed(wallet', resv', seeds)
  <2>1. wallet'.reserved = w.reserved - (resv[p].cash - x.cash)
    <3>1. wallet' = [w EXCEPT !.reserved = @ - CashReleased(p, f),
                !.risk = @ - resv[p].risk + x.risk - BookedRisk(pos[i])
                           + BookedRisk(FilledPosition(p, f, i)),
                !.cash = @ - f.price * f.quantity]
      BY <1>5, Zenon DEF FilledWallet
    <3>2. CashReleased(p, f) = resv[p].cash - x.cash
      BY DEF CashReleased
    <3> HIDE DEF w, x
    <3> QED BY <1>2, <3>1, <3>2 DEF WalletType
  <2>2. /\ CashIn(r) \in Nat /\ r[p].cash \in Nat /\ x.cash \in Nat
        /\ CashIn(resv') = CashIn(r) - r[p].cash + x.cash
    <3> HIDE DEF r, x
    <3> QED BY <1>2, <1>3, <1>5, CashAfterChange
  <2>3. w.reserved \in Nat
    BY <1>2 DEF WalletType
  <2> HIDE DEF w, r, x
  <2> QED BY <1>4, <1>7, <2>1, <2>2, <2>3 DEF Backed
<1> QED BY <1>9, <1>10

\* Rows that hold nothing hold no cash.
LEMMA NoCash ==
  ASSUME NEW r, \A q \in Plans : r[q] = NoReservation
  PROVE  CashIn(r) = 0
<1> DEFINE f == [q \in Plans |-> r[q].cash]
<1>1. \A q \in Plans : f[q] = 0
  BY DEF NoReservation
<1> HIDE DEF f
<1>2. SumFunctionOnSet(f, Plans) = 0
  BY <1>1, PlansAssumption, SumOfZeros
<1> QED BY <1>2 DEF CashIn, f

\* CashInv holds initially and is preserved by every step.
LEMMA CashInvInit == Init => CashInv
<1> SUFFICES ASSUME Init PROVE CashInv
  OBVIOUS
<1>1. PlanInv
  BY PlanInvInit
<1>2. \A q \in Plans : resv[q] = NoReservation
  BY DEF Init
<1>3. CashIn(resv) = 0
  BY <1>2, NoCash
<1>4. wallet.reserved = 0 /\ wallet.capital = 0 /\ inflight = {}
  BY DEF Init
<1>5. \A q \in Plans : plan[q].offer.zone \in Nat
  BY <1>1, OfferFacts DEF PlanInv, TypeOK, PlanType
<1>6. Priced(plan, resv)
  BY <1>2, <1>5 DEF Priced, NoReservation
<1>7. UnseededIdle
  BY <1>2, <1>4 DEF UnseededIdle, Holding, NoReservation
<1> QED BY <1>1, <1>3, <1>4, <1>6, <1>7 DEF CashInv, Backed

\* The step of the invariant, one action at a time.
LEMMA CashInvStep ==
  ASSUME CashInv, [Next]_vars
  PROVE  CashInv'
<1> DEFINE Cash == Backed(wallet', resv', seeds') /\ Priced(plan', resv')
<1>1. /\ PlanInv /\ TypeOK /\ now \in Nat /\ seeds \in Nat /\ plan \in [Plans -> PlanType]
      /\ resv \in [Plans -> ReservationType] /\ EmptyReservations
      /\ Backed(wallet, resv, seeds) /\ Priced(plan, resv)
  BY DEF CashInv, PlanInv, TypeOK
<1>2. PlanInv' /\ UnseededIdle'
  BY <1>1, PlanInvStep, IdleStep
<1>3. \A q \in Plans : plan[q].offer.zone \in Nat
  BY <1>1, OfferFacts DEF PlanType
<1>4. ASSUME NEW S \in SUBSET Plans, wallet' = ReleasedWallet(S), seeds' = seeds,
             \A q \in S : resv'[q] = NoReservation, \A q \in Plans \ S : resv'[q] = resv[q],
             \A q \in Plans : plan'[q].offer = plan[q].offer
      PROVE  Cash
  BY <1>4, ReleaseStep
<1>5. ASSUME wallet'.reserved = wallet.reserved, resv' = resv, seeds' = seeds,
             \A q \in Plans : plan'[q].offer = plan[q].offer
      PROVE  Cash
  BY <1>1, <1>5 DEF Backed, Priced
<1>6. ASSUME NEW s \in Seeds, SeedWallet(s) PROVE Cash
  <2>1. wallet'.reserved = 0 /\ resv' = resv /\ plan' = plan /\ seeds' = seeds + 1
    BY <1>6 DEF SeedWallet
  <2>2. CashIn(resv) \in Nat
    BY <1>1, CashType
  <2>3. seeds' <= 1 => CashIn(resv) = 0
    <3> SUFFICES ASSUME seeds' <= 1 PROVE CashIn(resv) = 0
      OBVIOUS
    <3>1. seeds = 0
      BY <1>1, <2>1
    <3>2. \A q \in Plans : resv[q] = NoReservation
      BY <1>1, <3>1 DEF CashInv, UnseededIdle, EmptyReservations
    <3> QED BY <3>2, NoCash
  <2> QED BY <1>1, <2>1, <2>2, <2>3 DEF Backed
<1>7. ASSUME NEW p \in Plans, NEW o \in Offers, BuildPlan(p, o) PROVE Cash
  <2>1. /\ UNCHANGED <<wallet, resv, seeds>> /\ plan[p].status = "NEW"
        /\ \A q \in Plans \ {p} : plan'[q] = plan[q]
        /\ plan'[p].offer = o
    BY <1>1, <1>7 DEF BuildPlan
  <2>2. resv[p] = NoReservation
    BY <1>1, <2>1 DEF PlanInv, ReservationMatchesPlan, EmptyReservations
  <2>3. o.zone \in Nat
    BY OfferFacts
  <2>4. Priced(plan', resv')
    BY <1>1, <2>1, <2>2, <2>3 DEF Priced, NoReservation
  <2> QED BY <1>1, <2>1, <2>4
<1>8. ASSUME NEW p \in Plans, RecordTriggerHit(p) PROVE Cash
  <2>1. /\ UNCHANGED <<wallet, resv, seeds>>
        /\ plan' = [plan EXCEPT ![p].triggered = TRUE, ![p].expires = Deadline(p)]
    BY <1>8 DEF RecordTriggerHit
  <2>2. \A q \in Plans : plan'[q].offer = plan[q].offer
    BY <1>1, <2>1 DEF PlanType
  <2> HIDE DEF Cash
  <2> QED BY <1>5, <2>1, <2>2
<1>9. ASSUME NEW p \in Plans, ReleaseReservation(p) PROVE Cash
  <2>1. /\ wallet' = ReleasedWallet({p}) /\ resv' = [resv EXCEPT ![p] = NoReservation]
        /\ plan' = WithStatus(p, ReleasedStatus(p, "USER_RELEASED")) /\ seeds' = seeds
    BY <1>9 DEF ReleaseReservation
  <2>2. \A q \in Plans : plan'[q].offer = plan[q].offer
    BY <1>1, <2>1 DEF WithStatus, PlanType
  <2>3. resv'[p] = NoReservation /\ \A q \in Plans \ {p} : resv'[q] = resv[q]
    BY <1>1, <2>1
  <2> HIDE DEF Cash
  <2> QED BY <1>4, <2>1, <2>2, <2>3
<1>10. ASSUME SweepExpired \/ \E p \in Plans : ActivateBegin(p) PROVE Cash
  <2>1. /\ wallet' = ReleasedWallet(SweptHolds(now)) /\ resv' = SweptResv(now)
        /\ plan' = SweptPlan(now) /\ seeds' = seeds
    BY <1>10 DEF SweepExpired, ActivateBegin, SweptWallet
  <2>2. SweptHolds(now) \in SUBSET Plans
    BY DEF SweptHolds, SweptPlans, ExpiredPlans, LapsedPlans
  <2>3. /\ \A q \in SweptHolds(now) : resv'[q] = NoReservation
        /\ \A q \in Plans \ SweptHolds(now) : resv'[q] = resv[q]
    BY <1>1, <2>1, <2>2, SweepCovers
  <2>4. \A q \in Plans : plan'[q].offer = plan[q].offer
    BY <1>1, <2>1, SweepFacts
  <2> HIDE DEF Cash
  <2> QED BY <1>4, <2>1, <2>2, <2>3, <2>4
<1>11. ASSUME NEW a \in inflight, ActivateExpired(a) \/ ActivateAtLimit(a) PROVE Cash
  <2> DEFINE p == a.plan
             held == IF Holding(p) THEN {p} ELSE {}
  <2>1. p \in Plans
    BY <1>1 DEF TypeOK, InflightType
  <2>2. /\ wallet' = ReleasedWallet(held) /\ resv' = [resv EXCEPT ![p] = NoReservation]
        /\ seeds' = seeds
        /\ \E status : plan' = WithStatus(p, status)
    BY <1>11 DEF ActivateExpired, ActivateAtLimit
  <2>3. \A q \in Plans : plan'[q].offer = plan[q].offer
    BY <1>1, <2>2 DEF WithStatus, PlanType
  <2>4. /\ held \in SUBSET Plans
        /\ \A q \in held : resv'[q] = NoReservation
        /\ \A q \in Plans \ held : resv'[q] = resv[q]
    BY <1>1, <2>1, <2>2 DEF EmptyReservations
  <2> HIDE DEF Cash, held, p
  <2> QED BY <1>4, <2>2, <2>3, <2>4
<1>12. ASSUME NEW a \in inflight, NEW b \in BOOLEAN, ActivateEvaluates(a, b) PROVE Cash
  <2>1. seeds' = seeds
    BY <1>12, Zenon DEF ActivateEvaluates
  <2> QED BY <1>12, <2>1, EvaluatesCash
<1>13. ASSUME NEW p \in Plans, NEW f \in Fills, NEW i \in Slots, ConfirmFill(p, f, i) PROVE Cash
  <2>1. seeds' = seeds
    BY <1>13, Zenon DEF ConfirmFill
  <2> QED BY <1>13, <2>1, FillCash
<1>14. ASSUME NEW i \in Slots,
              \/ \E stop \in Stops : ProtectPosition(i, stop)
              \/ \E x \in Exits : ConfirmExit(i, x)
              \/ \E m \in Imports : ImportPosition(i, m)
       PROVE  Cash
  <2>1. wallet'.reserved = wallet.reserved /\ UNCHANGED <<plan, resv, seeds>>
    BY <1>1, <1>14 DEF ProtectPosition, ConfirmExit, ImportPosition, TypeOK, WalletType
  <2> HIDE DEF Cash
  <2> QED BY <1>5, <2>1
<1>15. ASSUME (\E a \in inflight : ActivateFails(a) \/ ActivateKeeps(a)) \/ Tick \/ UNCHANGED vars
       PROVE  Cash
  <2>1. UNCHANGED <<wallet, plan, resv, seeds>>
    BY <1>15 DEF ActivateFails, ActivateKeeps, Tick, vars
  <2> HIDE DEF Cash
  <2> QED BY <1>5, <2>1
<1> HIDE DEF Cash
<1>16. Cash
  BY NextCases, <1>6, <1>7, <1>8, <1>9, <1>10, <1>11, <1>12, <1>13, <1>14, <1>15
<1> QED BY <1>2, <1>16 DEF CashInv, Cash

\* reserved_cash never exceeds the cash of the outstanding reservations, and equals
\* it as long as the wallet was seeded once: sweep, release, activation and fill give
\* back exactly what was taken, each once.
THEOREM CashBacked == Spec => []ReservedCashBacked
<1> QED BY CashInvInit, CashInvStep, CashInvImplies, PTL DEF Spec

-----------------------------------------------------------------------------
(* Capacity *)

\* A quotient of b is not worth more than what was divided.
LEMMA QuotientFits ==
  ASSUME NEW a \in Int, NEW b \in Nat \ {0}, NEW n \in Nat, n <= a \div b
  PROVE  n * b <= a
<1> DEFINE q == a \div b
<1>1. q \in Int /\ q * b <= a
  OBVIOUS
<1> HIDE DEF q
<1>2. n * b <= q * b
  BY <1>1 DEF q
<1> QED BY <1>1, <1>2

\* A trade's share of a positive budget is not more than the budget.
LEMMA ShareFits ==
  ASSUME NEW x \in Int, NEW mult \in 1 .. 100, x >= 0
  PROVE  (x * mult) \div 100 <= x
<1>1. x * mult <= x * 100
  OBVIOUS
<1> DEFINE y == x * mult
<1>2. y \in Int /\ y <= 100 * x
  BY <1>1
<1> HIDE DEF y
<1>3. y \div 100 <= x
  BY <1>2
<1> QED BY <1>3 DEF y

\* What size_from_wallet grants fits the day's remaining risk and the free cash.
LEMMA SizeWithinLimits ==
  ASSUME NEW w \in WalletType, NEW o \in Offers, SizeFromWallet(w, o) > 0
  PROVE  /\ w.risk + SizeFromWallet(w, o) * RiskPerShare(o) + w.loss <= DailyCap(w)
         /\ w.reserved + SizeFromWallet(w, o) * o.zone <= w.cash
<1> DEFINE n == SizeFromWallet(w, o)
           daily == DailyCap(w) - w.loss - w.risk
           share == Lesser(TradeRisk(w), daily)
           budget == (share * o.mult) \div 100
           byRisk == budget \div RiskPerShare(o)
           byCash == FreeCash(w) \div o.zone
           byNotional == NotionalCap(w) \div o.zone
<1>1. w.capital \in Nat /\ w.cash \in Int /\ w.reserved \in Nat /\ w.risk \in Nat /\ w.loss \in Nat
  BY DEF WalletType
<1>2. TradeRisk(w) \in Nat /\ DailyCap(w) \in Int /\ NotionalCap(w) \in Int
  <2>1. w.capital * TradeRiskBp \in Nat
    BY <1>1, LimitsAssumption, ProductType
  <2> QED BY <1>1, <2>1, LimitsAssumption, DivType DEF TradeRisk, DailyCap, NotionalCap
<1>3. FreeCash(w) \in Int
  BY <1>1, Max0Type DEF FreeCash
<1>4. o.zone \in Nat \ {0} /\ o.mult \in 1 .. 100 /\ RiskPerShare(o) \in Nat \ {0}
  BY OfferFacts
<1>5. n = IF w.cash <= 0 \/ daily <= 0 THEN 0
          ELSE Max0(Lesser(byRisk, Lesser(byCash, byNotional)))
  BY DEF SizeFromWallet
<1>6. n \in Nat /\ n > 0
  BY SizeType
<1>7. daily \in Int
  BY <1>1, <1>2
<1> HIDE DEF n, byRisk, byCash, byNotional
<1>8. daily > 0 /\ n = Max0(Lesser(byRisk, Lesser(byCash, byNotional)))
  <2> HIDE DEF daily
  <2> QED BY <1>5, <1>6, <1>7
<1>9. share \in Int /\ 0 <= share /\ share <= daily
  <2> HIDE DEF daily
  <2> QED BY <1>2, <1>7, <1>8 DEF Lesser
<1>10. budget \in Int /\ budget <= share
  <2> HIDE DEF share
  <2>1. share * o.mult \in Int
    BY <1>4, <1>9
  <2>2. budget \in Int
    BY <2>1, DivType
  <2> QED BY <1>4, <1>9, <2>2, ShareFits
<1>11. byRisk \in Int /\ byCash \in Int /\ byNotional \in Int
  <2> HIDE DEF budget
  <2> QED BY <1>2, <1>3, <1>4, <1>10, DivType DEF byRisk, byCash, byNotional
<1>12. n <= byRisk /\ n <= byCash
  BY <1>6, <1>8, <1>11 DEF Max0, Lesser
<1>13. n * RiskPerShare(o) <= budget
  <2> HIDE DEF budget
  <2> QED BY <1>4, <1>6, <1>10, <1>12, QuotientFits DEF byRisk
<1>14. n * o.zone <= FreeCash(w)
  BY <1>3, <1>4, <1>6, <1>12, QuotientFits DEF byCash
<1>15. n * RiskPerShare(o) \in Nat /\ n * o.zone \in Nat
  BY <1>4, <1>6, ProductType
<1> DEFINE risk == n * RiskPerShare(o)
           cash == n * o.zone
<1>16. w.risk + risk + w.loss <= DailyCap(w)
  <2>1. risk \in Nat /\ risk <= budget
    BY <1>13, <1>15
  <2>2. risk <= daily
    <3> HIDE DEF risk, budget, share, daily
    <3> QED BY <1>7, <1>9, <1>10, <2>1
  <2> HIDE DEF risk
  <2> QED BY <1>1, <1>2, <2>1, <2>2
<1>17. w.reserved + cash <= w.cash
  <2>1. cash \in Nat /\ cash <= FreeCash(w) /\ cash > 0
    BY <1>4, <1>6, <1>14, <1>15
  <2> HIDE DEF cash
  <2> QED BY <1>1, <2>1 DEF FreeCash, Max0
<1> QED BY <1>16, <1>17 DEF n

\* An activation either leaves its plan without a reservation or takes one within the
\* limits of the wallet it writes; the other plans' reservations it leaves alone.
LEMMA EvaluatesWithinLimits ==
  ASSUME TypeOK, NEW a \in inflight, NEW b \in BOOLEAN, ActivateEvaluates(a, b)
  PROVE  /\ \A q \in Plans : resv'[q] = resv[q] \/ resv'[q].quantity = 0 \/ q = a.plan
         /\ \/ resv'[a.plan].quantity = 0
            \/ /\ wallet'.risk + wallet'.loss <= DailyCap(wallet')
               /\ wallet'.reserved <= wallet'.cash
<1> DEFINE p == a.plan
           o == plan[p].offer
           w == ReleasedWallet(IF Holding(p) THEN {p} ELSE {})
           n == SizeFromWallet(w, o)
           cash == n * o.zone
           risk == n * RiskPerShare(o)
           reserve == b /\ n > 0
           taken == [quantity |-> n, cash |-> cash, risk |-> risk,
                     expires |-> a.at + ReservationTTL]
<1>1. p \in Plans
  BY DEF TypeOK, InflightType
<1>2. o \in Offers
  BY <1>1 DEF TypeOK, PlanType
<1>3. w \in WalletType
  BY <1>1, ReleasedWalletType
<1>4. /\ wallet' = IF reserve THEN [w EXCEPT !.reserved = @ + taken.cash, !.risk = @ + taken.risk]
                   ELSE w
      /\ resv' = [resv EXCEPT ![p] = IF reserve THEN taken ELSE NoReservation]
  BY Zenon DEF ActivateEvaluates
<1>5. n \in Nat
  <2> HIDE DEF w, o
  <2> QED BY <1>2, <1>3, SizeType
<1>6. cash \in Nat /\ risk \in Nat
  <2> HIDE DEF n, o
  <2> QED BY <1>2, <1>5, OfferFacts, ProductType
<1>7. reserve => w.risk + risk + w.loss <= DailyCap(w) /\ w.reserved + cash <= w.cash
  <2> HIDE DEF w, o
  <2> QED BY <1>2, <1>3, SizeWithinLimits
<1>8. resv \in [Plans -> ReservationType]
  BY DEF TypeOK
<1>9. \A q \in Plans : resv'[q] = resv[q] \/ q = p
  <2> HIDE DEF p, taken, reserve
  <2> QED BY <1>1, <1>4, <1>8
<1>10. CASE ~reserve
  <2>1. resv'[p] = NoReservation
    <3> HIDE DEF p, taken, reserve
    <3> QED BY <1>1, <1>4, <1>8, <1>10
  <2> QED BY <1>9, <2>1 DEF NoReservation
<1>11. CASE reserve
  <2>1. wallet' = [w EXCEPT !.reserved = w.reserved + cash, !.risk = w.risk + risk]
    <3>1. taken.cash = cash /\ taken.risk = risk
      BY Zenon
    <3> HIDE DEF taken, reserve, w, cash, risk
    <3> QED BY <1>3, <1>4, <1>11, <3>1 DEF WalletType
  <2>2. /\ wallet'.capital = w.capital /\ wallet'.cash = w.cash /\ wallet'.loss = w.loss
        /\ wallet'.reserved = w.reserved + cash /\ wallet'.risk = w.risk + risk
    <3> HIDE DEF w, cash, risk
    <3> QED BY <1>3, <2>1 DEF WalletType
  <2>3. DailyCap(wallet') = DailyCap(w)
    BY <2>2 DEF DailyCap
  <2>4. wallet'.risk + wallet'.loss <= DailyCap(wallet') /\ wallet'.reserved <= wallet'.cash
    <3> HIDE DEF w, cash, risk, reserve
    <3> QED BY <1>7, <1>11, <2>2, <2>3
  <2> QED BY <1>9, <2>4
<1> QED BY <1>10, <1>11

\* Nothing but an activation gives a plan a larger reservation.
LEMMA OnlyActivationReserves ==
  ASSUME TypeOK, [Next]_vars, NEW q \in Plans, resv'[q].quantity > resv[q].quantity
  PROVE  \E a \in inflight, b \in BOOLEAN : ActivateEvaluates(a, b)
<1>1. resv \in [Plans -> ReservationType] /\ resv[q].quantity \in Nat /\ now \in Nat
  BY DEF TypeOK, ReservationType
<1>2. resv' # resv
  BY <1>1
<1>3. ASSUME NEW p \in Plans, resv' = [resv EXCEPT ![p] = NoReservation] PROVE FALSE
  BY <1>1, <1>3 DEF NoReservation
<1>4. resv' # SweptResv(now)
  <2>1. SweptResv(now)[q] = resv[q] \/ SweptResv(now)[q] = NoReservation
    BY <1>1, SweepFacts
  <2> QED BY <1>1, <2>1 DEF NoReservation
<1>5. ASSUME NEW p \in Plans, NEW f \in Fills, NEW i \in Slots, ConfirmFill(p, f, i) PROVE FALSE
  <2>1. FillAccepted(p, f, i) /\ resv' = [SweptResv(now) EXCEPT ![p] = FilledReservation(p, f)]
    BY <1>5, Zenon DEF ConfirmFill
  <2>2. FilledReservation(p, f).quantity = resv[p].quantity - f.quantity
    BY <2>1, FillFacts
  <2>3. SweptResv(now)[q] = resv[q] \/ SweptResv(now)[q] = NoReservation
    BY <1>1, SweepFacts
  <2>4. SweptResv(now) \in [Plans -> ReservationType]
    BY <1>1, SweepFacts
  <2>5. f.quantity \in Nat
    BY RequestsAssumption
  <2>6. CASE q = p
    <3>1. resv'[q].quantity = resv[q].quantity - f.quantity
      BY <2>1, <2>2, <2>4, <2>6
    <3> QED BY <1>1, <2>5, <3>1
  <2>7. CASE q # p
    <3>1. resv'[q] = SweptResv(now)[q]
      BY <2>1, <2>4, <2>7
    <3> QED BY <1>1, <2>3, <3>1 DEF NoReservation
  <2> QED BY <2>6, <2>7
<1>6. CASE Next
  <2>1. ~\E p \in Plans : ReleaseReservation(p)
    BY <1>3 DEF ReleaseReservation
  <2>2. ~\E a \in inflight : ActivateExpired(a) \/ ActivateAtLimit(a)
    <3> SUFFICES ASSUME NEW a \in inflight, ActivateExpired(a) \/ ActivateAtLimit(a) PROVE FALSE
      OBVIOUS
    <3>1. a.plan \in Plans
      BY DEF TypeOK, InflightType
    <3>2. resv' = [resv EXCEPT ![a.plan] = NoReservation]
      BY Zenon DEF ActivateExpired, ActivateAtLimit
    <3> QED BY <1>3, <3>1, <3>2
  <2>3. ~SweepExpired /\ ~\E p \in Plans : ActivateBegin(p)
    BY <1>4 DEF SweepExpired, ActivateBegin
  <2>4. /\ ~\E s \in Seeds : SeedWallet(s)
        /\ ~\E p \in Plans, o \in Offers : BuildPlan(p, o)
        /\ ~\E p \in Plans : RecordTriggerHit(p)
        /\ ~\E a \in inflight : ActivateFails(a)
        /\ ~\E a \in inflight : ActivateKeeps(a)
        /\ ~Tick
    BY <1>2 DEF SeedWallet, BuildPlan, RecordTriggerHit, ActivateFails, ActivateKeeps, Tick
  <2>5. /\ ~\E i \in Slots, stop \in Stops : ProtectPosition(i, stop)
        /\ ~\E i \in Slots, x \in Exits : ConfirmExit(i, x)
        /\ ~\E i \in Slots, m \in Imports : ImportPosition(i, m)
    BY <1>2 DEF ProtectPosition, ConfirmExit, ImportPosition
  <2>6. ~\E a \in inflight : ActivateExpired(a)
    BY <2>2
  <2>7. ~\E a \in inflight : ActivateAtLimit(a)
    BY <2>2
  <2> QED BY NextCases, <1>5, <1>6, <2>1, <2>3, <2>4, <2>5, <2>6, <2>7
<1>7. CASE UNCHANGED vars
  BY <1>2, <1>7 DEF vars
<1> QED BY <1>6, <1>7

\* Capacity is granted against the wallet of the granting transaction, for any offers,
\* seeds and percentages: the quotients of size_from_wallet round down, so what an
\* activation reserves never takes the wallet over its daily cap or its cash.
THEOREM CapacityGranted == Spec => ReserveWithinCapacity
<1> DEFINE Granting == \A p \in Plans : resv'[p].quantity > resv[p].quantity =>
                         /\ wallet'.risk + wallet'.loss <= DailyCap(wallet')
                         /\ wallet'.reserved <= wallet'.cash
<1>1. TypeOK /\ [Next]_vars => [Granting]_vars
  <2> SUFFICES ASSUME TypeOK, [Next]_vars, NEW q \in Plans, resv'[q].quantity > resv[q].quantity
               PROVE  /\ wallet'.risk + wallet'.loss <= DailyCap(wallet')
                      /\ wallet'.reserved <= wallet'.cash
    OBVIOUS
  <2>1. PICK a \in inflight, b \in BOOLEAN : ActivateEvaluates(a, b)
    BY OnlyActivationReserves
  <2>2. resv[q].quantity \in Nat
    BY DEF TypeOK, ReservationType
  <2>3. ~(resv'[q].quantity = 0) /\ ~(resv'[q] = resv[q])
    BY <2>2
  <2> QED BY <2>1, <2>3, EvaluatesWithinLimits
<1> QED BY <1>1, TypeCorrect, PTL DEF Spec, ReserveWithinCapacity

-----------------------------------------------------------------------------
(* What the accounting assertion can find *)

\* FilledWallet changes these fields of the swept wallet.
LEMMA FilledAmounts ==
  ASSUME TypeOK, NEW p \in Plans, NEW f \in Fills, NEW i \in Slots
  PROVE  LET w == FilledWallet(p, f, i)
         IN  /\ w.reserved = SweptWallet(now).reserved - (resv[p].cash - FilledReservation(p, f).cash)
             /\ w.cash = SweptWallet(now).cash - f.price * f.quantity
<1> DEFINE u == SweptWallet(now)
           x == FilledReservation(p, f)
<1>1. u \in WalletType
  BY SweepFacts DEF TypeOK
<1>2. FilledWallet(p, f, i) = [u EXCEPT !.reserved = @ - CashReleased(p, f),
                !.risk = @ - resv[p].risk + x.risk - BookedRisk(pos[i])
                           + BookedRisk(FilledPosition(p, f, i)),
                !.cash = @ - f.price * f.quantity]
  BY Zenon DEF FilledWallet
<1>3. CashReleased(p, f) = resv[p].cash - x.cash
  BY DEF CashReleased
<1> HIDE DEF u, x
<1> QED BY <1>1, <1>2, <1>3 DEF WalletType, u, x

\* The two thirds of confirm_fill's assertion that cash is about.
CashBooksHold ==
  seeds <= 1 =>
    \A p \in Plans, f \in Fills, i \in Slots :
      FillAccepted(p, f, i) =>
        FilledWallet(p, f, i).reserved >= 0 /\ FilledWallet(p, f, i).cash >= 0

\* A fill that passed the checks of confirm_fill finds reserved_cash and
\* cash_available sufficient, as long as the wallet was seeded once: what is reserved
\* is the sum of all rows, the filled one among them.  The accounting assertion that
\* FillNeverBreaksAccounting finds violated can therefore fail on open_risk only.
THEOREM OnlyRiskBreaksTheBooks == Spec => []CashBooksHold
<1>1. CashInv => CashBooksHold
  <2> SUFFICES ASSUME CashInv, seeds <= 1,
                      NEW p \in Plans, NEW f \in Fills, NEW i \in Slots, FillAccepted(p, f, i)
               PROVE  FilledWallet(p, f, i).reserved >= 0 /\ FilledWallet(p, f, i).cash >= 0
    BY DEF CashBooksHold
  <2> DEFINE u == SweptWallet(now)
             r == SweptResv(now)
             x == FilledReservation(p, f)
             cost == f.price * f.quantity
  <2>1. TypeOK /\ now \in Nat
    BY DEF CashInv, PlanInv, TypeOK
  <2>2. u \in WalletType /\ r \in [Plans -> ReservationType]
    BY <2>1, SweepFacts
  <2>3. p \notin SweptPlans(now) /\ x \in ReservationType
    BY <2>1, FillFacts
  <2>4. r[p] = resv[p]
    BY <2>1, <2>3, SweepFacts
  <2>5. u.reserved = CashIn(r)
    BY SweepBacked DEF Backed
  <2>6. CashIn(r) >= r[p].cash /\ CashIn(r) \in Nat /\ r[p].cash \in Nat
    <3> DEFINE r1 == [r EXCEPT ![p] = NoReservation]
    <3>1. NoReservation \in ReservationType /\ NoReservation.cash = 0
      BY EmptyTypes DEF NoReservation
    <3>2. CashIn(r1) = CashIn(r) - r[p].cash + NoReservation.cash /\ CashIn(r) \in Nat /\ r[p].cash \in Nat
      <4> HIDE DEF r
      <4> QED BY <2>2, <3>1, CashAfterChange
    <3>3. r1 \in [Plans -> ReservationType]
      <4> HIDE DEF r
      <4> QED BY <2>2, <3>1
    <3>4. CashIn(r1) \in Nat
      <4> HIDE DEF r1
      <4> QED BY <3>3, CashType
    <3> HIDE DEF r1, r
    <3> QED BY <3>1, <3>2, <3>4
  <2>7. x.cash \in Nat
    BY <2>3 DEF ReservationType
  <2>8. cost <= u.cash
    BY Zenon DEF FillAccepted
  <2>9. cost \in Nat /\ u.cash \in Int
    BY <2>2, RequestsAssumption, ProductType DEF WalletType
  <2>10. /\ FilledWallet(p, f, i).reserved = u.reserved - (resv[p].cash - x.cash)
         /\ FilledWallet(p, f, i).cash = u.cash - cost
    BY <2>1, FilledAmounts
  <2> HIDE DEF u, r, x, cost
  <2> QED BY <2>4, <2>5, <2>6, <2>7, <2>8, <2>9, <2>10
<1> QED BY <1>1, CashInvInit, CashInvStep, PTL DEF Spec

-----------------------------------------------------------------------------
(* The ledger as a pool of claims *)

\* The plans that are filled or expired.
ClosedPlans == {p \in Plans : plan[p].status \in Terminal}

\* The sum of the claims is the same operator in both modules.
LEMMA PoolSum == Pool!SumFunctionOnSet(HeldCash, Plans)' = CashIn(resv')
BY DEF CashIn, HeldCash, SumFunctionOnSet, Pool!SumFunctionOnSet,
       FoldFunctionOnSet, Pool!FoldFunctionOnSet, MapThenFoldSet, Pool!MapThenFoldSet

\* Prices are positive, so fewer shares cost less,
LEMMA FewerCostLess ==
  ASSUME NEW n \in Nat, NEW d \in Nat \ {0}, NEW z \in Nat \ {0}
  PROVE  n * z < (n + d) * z
<1>1. (n + d) * z = n * z + d * z
  OBVIOUS
<1>2. d * z > 0 /\ d * z \in Nat /\ n * z \in Nat
  OBVIOUS
<1> QED BY <1>1, <1>2

\* and only no shares cost nothing.
LEMMA NothingIsFree ==
  ASSUME NEW n \in Nat, NEW z \in Nat \ {0}
  PROVE  n * z \in Nat /\ (n * z = 0 <=> n = 0)
<1>1. CASE n = 0
  BY <1>1
<1>2. CASE n # 0
  <2>1. n * z > 0
    BY <1>2
  <2> QED BY <1>2, <2>1
<1> QED BY <1>1, <1>2

\* Releasing the rows of S is a step of the pool if nobody else is closed by it.
LEMMA ReleaseInPool ==
  ASSUME CashInv, [Next]_vars, NEW S \in SUBSET Plans,
         wallet'.cash = wallet.cash, seeds' = seeds,
         \A q \in S : resv'[q] = NoReservation,
         \A q \in Plans \ S : /\ resv'[q].cash = resv[q].cash
                              /\ plan'[q].status \in Terminal => plan[q].status \in Terminal
  PROVE  Pool!PoolNext
<1>1. \A q \in Plans : plan[q].status \in Terminal => plan'[q].status \in Terminal
  BY PlanProgress DEF CashInv
<1>2. PICK D \in SUBSET S : D = {q \in S : plan'[q].status \in Terminal}
  OBVIOUS
<1>3. ClosedPlans' = ClosedPlans \cup D
  BY <1>1, <1>2 DEF ClosedPlans
<1>4. HeldCash' = [p \in Plans |-> IF p \in S THEN 0 ELSE HeldCash[p]]
  BY DEF HeldCash, NoReservation
<1>5. Pool!Release(S, D)
  BY <1>3, <1>4 DEF Pool!Release, ClosedPlans
<1> QED BY <1>5 DEF Pool!PoolNext

\* The case of one plan.
LEMMA ReleaseOneInPool ==
  ASSUME CashInv, [Next]_vars, NEW p \in Plans,
         wallet'.cash = wallet.cash, seeds' = seeds, resv'[p] = NoReservation,
         \A q \in Plans \ {p} : resv'[q] = resv[q] /\ plan'[q] = plan[q]
  PROVE  Pool!PoolNext
<1>1. PICK S \in SUBSET Plans : S = {p}
  OBVIOUS
<1>2. /\ \A q \in S : resv'[q] = NoReservation
      /\ \A q \in Plans \ S : /\ resv'[q].cash = resv[q].cash
                           /\ plan'[q].status \in Terminal => plan[q].status \in Terminal
  BY <1>1
<1> QED BY <1>2, ReleaseInPool

\* A release moves no cash.
LEMMA ReleasedCash ==
  ASSUME TypeOK
  PROVE  \A S \in SUBSET Plans : ReleasedWallet(S).cash = wallet.cash
BY DEF TypeOK, ReleasedWallet, WalletType

\* A granted reservation is a grant of the pool, any other evaluation a release.
LEMMA EvaluatesInPool ==
  ASSUME CashInv, [Next]_vars, NEW a \in inflight, NEW b \in BOOLEAN, ActivateEvaluates(a, b)
  PROVE  Pool!PoolNext
<1>1. /\ TypeOK /\ plan \in [Plans -> PlanType] /\ resv \in [Plans -> ReservationType]
      /\ wallet \in WalletType /\ EmptyReservations /\ seeds' = seeds
  BY Zenon DEF CashInv, PlanInv, TypeOK, ActivateEvaluates
<1>2. PICK p \in Plans : p = a.plan
  BY <1>1 DEF TypeOK, InflightType
<1>3. PICK n \in Nat, reserve \in BOOLEAN, taken \in ReservationType, status \in Statuses :
        Granted(a, n, reserve, taken, status)
  BY <1>1, EvaluatesFacts
<1> DEFINE w == ReleasedWallet(IF Holding(p) THEN {p} ELSE {})
<1>4. /\ reserve => n > 0 /\ status = "RESERVED"
      /\ ~reserve => status = ReleasedStatus(p, "RESERVATION_EXPIRED")
      /\ taken.quantity = n /\ taken.cash = n * plan[p].offer.zone
      /\ resv' = [resv EXCEPT ![p] = IF reserve THEN taken ELSE NoReservation]
      /\ plan' = WithStatus(p, status)
      /\ wallet' = IF reserve THEN [w EXCEPT !.reserved = w.reserved + taken.cash,
                                             !.risk = w.risk + taken.risk]
                   ELSE w
  BY <1>2, <1>3 DEF Granted
<1>5. w \in WalletType /\ w.cash = wallet.cash
  <2>1. (IF Holding(p) THEN {p} ELSE {}) \in SUBSET Plans
    OBVIOUS
  <2> QED BY <1>1, <2>1, ReleasedWalletType, ReleasedCash
<1>6. wallet'.cash = wallet.cash
  <2> HIDE DEF w
  <2> QED BY <1>4, <1>5 DEF WalletType
<1>7. \A q \in Plans \ {p} : resv'[q] = resv[q] /\ plan'[q] = plan[q]
  BY <1>1, <1>4 DEF WithStatus
<1>8. CASE ~reserve
  <2>1. resv'[p] = NoReservation
    BY <1>1, <1>4, <1>8
  <2> HIDE DEF w
  <2> QED BY <1>1, <1>6, <1>7, <2>1, ReleaseOneInPool
<1>9. CASE reserve
  <2>1. plan[p].status \notin Terminal
    BY <1>2, Zenon DEF ActivateEvaluates, Overtaken, FilledMeanwhile, Terminal
  <2>2. plan'[p].status = "RESERVED"
    BY <1>1, <1>4, <1>9 DEF WithStatus, PlanType
  <2>3. ClosedPlans' = ClosedPlans
    BY <1>7, <2>1, <2>2 DEF ClosedPlans, Terminal
  <2>4. resv'[p] = taken
    BY <1>1, <1>4, <1>9
  <2>5. HeldCash' = [HeldCash EXCEPT ![p] = HeldCash'[p]] /\ HeldCash'[p] = taken.cash
    BY <1>7, <2>4 DEF HeldCash
  <2>6. taken.cash > 0
    <3>1. plan[p].offer.zone \in Nat /\ plan[p].offer.zone > 0
      BY <1>1, OfferFacts DEF PlanType
    <3>2. n * plan[p].offer.zone \in Nat /\ n * plan[p].offer.zone # 0
      BY <1>4, <1>9, <3>1, NothingIsFree
    <3> QED BY <1>4, <3>2
  <2>7. seeds <= 1 => Pool!SumFunctionOnSet(HeldCash, Plans)' <= wallet.cash
    <3>1. Backed(wallet', resv', seeds)
      BY EvaluatesCash
    <3>2. wallet'.reserved <= wallet'.cash
      <4>1. resv'[a.plan].quantity # 0
        BY <1>2, <1>4, <1>9, <2>4
      <4> QED BY <1>1, <4>1, EvaluatesWithinLimits
    <3> QED BY <1>6, <3>1, <3>2, PoolSum DEF Backed
  <2>8. Pool!Grant(p)
    BY <1>1, <1>6, <2>1, <2>3, <2>5, <2>6, <2>7 DEF Pool!Grant, ClosedPlans
  <2> QED BY <2>8 DEF Pool!PoolNext
<1> QED BY <1>8, <1>9

\* A fill spends from the claim of its plan, and its sweep releases others in passing.
LEMMA FillInPool ==
  ASSUME CashInv, [Next]_vars,
         NEW p \in Plans, NEW f \in Fills, NEW i \in Slots, ConfirmFill(p, f, i)
  PROVE  Pool!PoolNext
<1> DEFINE x == FilledReservation(p, f)
           zone == plan[p].offer.zone
<1>1. /\ TypeOK /\ now \in Nat /\ plan \in [Plans -> PlanType] /\ resv \in [Plans -> ReservationType]
      /\ wallet \in WalletType /\ ReservationMatchesPlan /\ seeds' = seeds /\ Priced(plan, resv)
  BY Zenon DEF CashInv, PlanInv, TypeOK, ConfirmFill
<1>2. /\ p \notin SweptPlans(now) /\ x \in ReservationType
      /\ plan[p].status = "RESERVED" /\ f.quantity <= resv[p].quantity
      /\ x.quantity = resv[p].quantity - f.quantity
  BY <1>1, FillFacts DEF ConfirmFill
<1>3. PICK S \in SUBSET Plans : S = SweptPlans(now)
  BY DEF SweptPlans, ExpiredPlans, LapsedPlans
<1>4. PICK D \in SUBSET S : D = {q \in S : plan'[q].status \in Terminal}
  OBVIOUS
<1>5. /\ resv' = [SweptResv(now) EXCEPT ![p] = x]
      /\ plan' = [SweptPlan(now) EXCEPT ![p].status =
                    IF f.quantity = resv[p].quantity THEN "FILLED" ELSE "RESERVED"]
      /\ wallet' = FilledWallet(p, f, i)
  BY Zenon DEF ConfirmFill
<1>6. /\ \A q \in Plans : /\ q \notin S => SweptPlan(now)[q] = plan[q] /\ SweptResv(now)[q] = resv[q]
                          /\ q \in S => SweptResv(now)[q] = NoReservation
      /\ SweptResv(now) \in [Plans -> ReservationType]
      /\ SweptPlan(now) \in [Plans -> PlanType]
      /\ SweptWallet(now) \in WalletType
  BY <1>1, <1>3, SweepFacts
<1>7. /\ resv'[p] = x
      /\ plan'[p].status = IF f.quantity = resv[p].quantity THEN "FILLED" ELSE "RESERVED"
      /\ \A q \in S : resv'[q] = NoReservation
      /\ \A q \in Plans \ (S \cup {p}) : resv'[q] = resv[q] /\ plan'[q] = plan[q]
  <2> HIDE DEF x
  <2> QED BY <1>2, <1>3, <1>5, <1>6 DEF PlanType
<1>8. /\ x.cash \in Nat /\ resv[p].cash \in Nat /\ x.cash < resv[p].cash
      /\ x.cash = 0 <=> f.quantity = resv[p].quantity
  <2>1. zone \in Nat \ {0} /\ f.quantity \in Nat \ {0} /\ x.quantity \in Nat /\ resv[p].quantity \in Nat
    BY <1>1, <1>2, OfferFacts, RequestsAssumption DEF PlanType, ReservationType
  <2>2. resv[p].cash = resv[p].quantity * zone
    BY <1>1 DEF Priced
  <2>3. x.cash = x.quantity * zone
    <3>1. Priced(plan', resv')
      BY FillCash
    <3>2. plan'[p].offer = plan[p].offer
      BY <1>2, <1>3, <1>5, <1>6 DEF PlanType
    <3> QED BY <1>7, <3>1, <3>2 DEF Priced
  <2> HIDE DEF x, zone
  <2>4. x.quantity * zone < (x.quantity + f.quantity) * zone
    BY <2>1, FewerCostLess
  <2>5. resv[p].quantity = x.quantity + f.quantity
    BY <1>2, <2>1
  <2>6. x.quantity * zone = 0 <=> x.quantity = 0
    BY <2>1, NothingIsFree
  <2>7. x.cash \in Nat /\ resv[p].cash \in Nat
    BY <1>1, <1>2 DEF ReservationType
  <2>8. x.cash < resv[p].cash
    BY <2>2, <2>3, <2>4, <2>5
  <2>9. x.cash = 0 <=> f.quantity = resv[p].quantity
    BY <2>1, <2>3, <2>5, <2>6
  <2> QED BY <2>7, <2>8, <2>9
<1>9. 0 <= wallet'.cash /\ wallet'.cash <= wallet.cash /\ wallet.cash - wallet'.cash <= resv[p].cash
  <2> DEFINE cost == f.price * f.quantity
             w == SweptWallet(now)
  <2>1. w.cash = wallet.cash
    BY <1>1 DEF SweptWallet, ReleasedWallet, WalletType
  <2>2. cost <= w.cash /\ cost <= SweptResv(now)[p].cash
    BY Zenon DEF ConfirmFill, FillAccepted
  <2>3. cost \in Nat
    BY RequestsAssumption, ProductType
  <2>4. wallet'.cash = w.cash - cost
    BY <1>1, <1>5, FilledAmounts
  <2>5. SweptResv(now)[p].cash = resv[p].cash /\ wallet.cash \in Int
    BY <1>1, <1>2, <1>3, <1>6 DEF WalletType
  <2> HIDE DEF cost, w
  <2> QED BY <1>8, <2>1, <2>2, <2>3, <2>4, <2>5
<1>10. /\ HeldCash'[p] = x.cash /\ HeldCash[p] = resv[p].cash
       /\ HeldCash' = [q \in Plans |-> IF q = p THEN HeldCash'[p] ELSE IF q \in S THEN 0 ELSE HeldCash[q]]
  <2> HIDE DEF x
  <2> QED BY <1>7 DEF HeldCash, NoReservation
<1>11. ClosedPlans' = ClosedPlans \cup D \cup {q \in {p} : HeldCash'[p] = 0}
  <2>1. \A q \in Plans : plan[q].status \in Terminal => plan'[q].status \in Terminal
    BY PlanProgress DEF CashInv
  <2>2. plan'[p].status \in Terminal <=> HeldCash'[p] = 0
    BY <1>7, <1>8, <1>10 DEF Terminal
  <2> HIDE DEF x
  <2>3. ASSUME NEW q \in Plans
        PROVE  q \in ClosedPlans' <=> q \in ClosedPlans \cup D \cup {r \in {p} : HeldCash'[p] = 0}
    BY <1>2, <1>3, <1>4, <1>7, <2>1, <2>2 DEF ClosedPlans
  <2> QED BY <2>3 DEF ClosedPlans
<1>12. p \notin ClosedPlans \cup S
  BY <1>2, <1>3 DEF ClosedPlans, Terminal
<1> HIDE DEF x
<1>13. Pool!Spend(p, S, D)
  BY <1>1, <1>8, <1>9, <1>10, <1>11, <1>12 DEF Pool!Spend, ClosedPlans
<1> QED BY <1>13 DEF Pool!PoolNext

\* Every step of the ledger is a step of the pool or leaves it alone.
LEMMA PoolStep ==
  ASSUME CashInv, [Next]_vars
  PROVE  [Pool!PoolNext]_(Pool!pvars)
<1> DEFINE Goal == Pool!PoolNext \/ UNCHANGED <<wallet, HeldCash, ClosedPlans, seeds>>
<1>1. /\ TypeOK /\ now \in Nat /\ seeds \in Nat /\ plan \in [Plans -> PlanType]
      /\ resv \in [Plans -> ReservationType] /\ wallet \in WalletType /\ EmptyReservations
  BY DEF CashInv, PlanInv, TypeOK
<1>2. ASSUME NEW p \in Plans, wallet'.cash = wallet.cash, seeds' = seeds,
             resv' = [resv EXCEPT ![p] = NoReservation],
             NEW status, plan' = WithStatus(p, status)
      PROVE  Goal
  <2>1. \A q \in Plans \ {p} : resv'[q] = resv[q] /\ plan'[q] = plan[q]
    BY <1>1, <1>2 DEF WithStatus
  <2>2. resv'[p] = NoReservation
    BY <1>1, <1>2
  <2> QED BY <1>2, <2>1, <2>2, ReleaseOneInPool
<1>3. \A S \in SUBSET Plans : ReleasedWallet(S).cash = wallet.cash
  BY <1>1, ReleasedCash
<1>4. ASSUME UNCHANGED <<wallet, resv, seeds>>,
             \A q \in Plans : plan'[q].status \in Terminal <=> plan[q].status \in Terminal
      PROVE  Goal
  <2>1. HeldCash' = HeldCash
    BY <1>4 DEF HeldCash
  <2>2. ClosedPlans' = ClosedPlans
    BY <1>4 DEF ClosedPlans
  <2> QED BY <1>4, <2>1, <2>2
<1>5. ASSUME UNCHANGED <<plan, resv, seeds>> PROVE Goal
  <2>1. HeldCash' = HeldCash /\ ClosedPlans' = ClosedPlans
    BY <1>5 DEF HeldCash, ClosedPlans
  <2>2. Pool!Settle
    BY <1>5, <2>1 DEF Pool!Settle, ClosedPlans
  <2> QED BY <2>2 DEF Pool!PoolNext
<1>6. ASSUME NEW s \in Seeds, SeedWallet(s) PROVE Goal
  <2>1. UNCHANGED <<plan, resv>> /\ seeds' = seeds + 1 /\ wallet'.cash = s.cash
    BY <1>6 DEF SeedWallet
  <2>2. HeldCash' = HeldCash /\ ClosedPlans' = ClosedPlans
    BY <2>1 DEF HeldCash, ClosedPlans
  <2>3. s.cash \in Nat
    BY RequestsAssumption
  <2>4. Pool!Found
    BY <2>1, <2>2, <2>3 DEF Pool!Found, ClosedPlans
  <2> QED BY <2>4 DEF Pool!PoolNext
<1>7. ASSUME NEW p \in Plans, NEW o \in Offers, BuildPlan(p, o) PROVE Goal
  <2>1. UNCHANGED <<wallet, resv, seeds>> /\ plan[p].status = "NEW" /\ plan'[p].status = "ACTIVE"
        /\ \A q \in Plans \ {p} : plan'[q] = plan[q]
    BY <1>1, <1>7 DEF BuildPlan
  <2> HIDE DEF Goal
  <2> QED BY <1>4, <2>1 DEF Terminal
<1>8. ASSUME NEW p \in Plans, RecordTriggerHit(p) PROVE Goal
  <2>1. UNCHANGED <<wallet, resv, seeds>> /\ \A q \in Plans : plan'[q].status = plan[q].status
    BY <1>1, <1>8 DEF RecordTriggerHit, PlanType
  <2> HIDE DEF Goal
  <2> QED BY <1>4, <2>1
<1>9. ASSUME NEW p \in Plans, ReleaseReservation(p) PROVE Goal
  <2> HIDE DEF Goal
  <2> QED BY <1>2, <1>3, <1>9 DEF ReleaseReservation
<1>10. ASSUME SweepExpired \/ \E p \in Plans : ActivateBegin(p) PROVE Goal
  <2>1. /\ wallet' = ReleasedWallet(SweptHolds(now)) /\ resv' = SweptResv(now)
        /\ plan' = SweptPlan(now) /\ seeds' = seeds
    BY <1>10 DEF SweepExpired, ActivateBegin, SweptWallet
  <2>2. SweptHolds(now) \in SUBSET Plans /\ SweptPlans(now) \in SUBSET Plans
    BY DEF SweptHolds, SweptPlans, ExpiredPlans, LapsedPlans
  <2>3. PICK S \in SUBSET Plans : S = SweptPlans(now)
    BY <2>2
  <2>4. /\ \A q \in S : resv'[q] = NoReservation
        /\ \A q \in Plans \ S : resv'[q] = resv[q] /\ plan'[q] = plan[q]
    BY <1>1, <2>1, <2>3, SweepFacts
  <2>5. wallet'.cash = wallet.cash
    BY <1>3, <2>1, <2>2
  <2> QED BY <2>1, <2>4, <2>5, ReleaseInPool
<1>11. ASSUME NEW a \in inflight, ActivateExpired(a) \/ ActivateAtLimit(a) PROVE Goal
  <2>1. PICK p \in Plans : p = a.plan
    BY <1>1 DEF TypeOK, InflightType
  <2>2. /\ wallet' = ReleasedWallet({p}) \/ wallet' = ReleasedWallet({})
        /\ resv' = [resv EXCEPT ![p] = NoReservation] /\ seeds' = seeds
        /\ \E status : plan' = WithStatus(p, status)
    BY <1>11, <2>1 DEF ActivateExpired, ActivateAtLimit
  <2>3. wallet'.cash = wallet.cash
    BY <1>3, <2>2
  <2> HIDE DEF Goal
  <2> QED BY <1>2, <2>2, <2>3
<1>12. ASSUME NEW a \in inflight, NEW b \in BOOLEAN, ActivateEvaluates(a, b) PROVE Goal
  BY <1>12, EvaluatesInPool
<1>13. ASSUME NEW p \in Plans, NEW f \in Fills, NEW i \in Slots, ConfirmFill(p, f, i) PROVE Goal
  BY <1>13, FillInPool
<1>14. ASSUME \/ \E i \in Slots, stop \in Stops : ProtectPosition(i, stop)
              \/ \E i \in Slots, x \in Exits : ConfirmExit(i, x)
              \/ \E i \in Slots, m \in Imports : ImportPosition(i, m)
              \/ \E a \in inflight : ActivateFails(a) \/ ActivateKeeps(a)
              \/ Tick \/ UNCHANGED vars
       PROVE  Goal
  <2>1. UNCHANGED <<plan, resv, seeds>>
    BY <1>14, Zenon DEF ProtectPosition, ConfirmExit, ImportPosition, ActivateFails, ActivateKeeps, Tick, vars
  <2> HIDE DEF Goal
  <2> QED BY <1>5, <2>1
<1> HIDE DEF Goal
<1>15. Goal
  BY NextCases, <1>6, <1>7, <1>8, <1>9, <1>10, <1>11, <1>12, <1>13, <1>14
<1>16. UNCHANGED <<wallet, HeldCash, ClosedPlans, seeds>> => UNCHANGED Pool!pvars
  BY DEF Pool!pvars, ClosedPlans
<1> QED BY <1>15, <1>16 DEF Goal

\* The ledger implements the pool of claims, for any plans, offers, seeds, fills and
\* limits: nobody's claim on cash moves but by a grant the cash covers, by a fill of
\* that plan within its claim, or by a release to nothing; a closed plan has none, and
\* gets none, whichever activations were awaiting market data when it closed.
THEOREM LedgerImplementsPool == Spec => ImplementsPool
<1>1. Init => Pool!PoolInit
  <2> SUFFICES ASSUME Init PROVE Pool!PoolInit
    OBVIOUS
  <2>1. wallet.cash = 0 /\ seeds = 0
    BY DEF Init
  <2>2. HeldCash = [p \in Plans |-> 0]
    BY DEF Init, HeldCash, NoReservation
  <2>3. ClosedPlans = {}
    BY DEF Init, ClosedPlans, Unissued, Terminal
  <2> QED BY <2>1, <2>2, <2>3 DEF Pool!PoolInit, ClosedPlans
<1> QED BY <1>1, CashInvInit, CashInvStep, PoolStep, PTL DEF Spec, ImplementsPool, Pool!PoolSpec

-----------------------------------------------------------------------------
(* The limits of filled twins *)

\* What a twin x of a plan respects, under wallet w and the plans ps.
InLimits(x, w, ps) ==
  /\ BookedRisk(x) <= AllowedRisk(w, ps[x.plan].offer)
  /\ x.stop >= ps[x.plan].offer.stop - StopTolerance
  /\ x.avg * x.quantity <= NotionalCap(w)

\* The limits are those of the plan that was filled and of the capital it was filled
\* with, so the invariant adds that the plan was issued, which fixes its offer, and
\* that the wallet was seeded; an unused slot has no stop a first fill could inherit.
LimitInv ==
  /\ CashInv
  /\ \A i \in Slots : /\ pos[i].quantity = 0 => pos[i].stop = NoStop
                      /\ pos[i].plan # Manual => plan[pos[i].plan].status # "NEW" /\ seeds > 0
  /\ FilledWithinLimits

\* A higher stop books no more risk.
LEMMA RiskFalls ==
  ASSUME NEW avg \in Nat, NEW quantity \in Nat, NEW low \in Nat, NEW high \in Nat, low <= high
  PROVE  PositionRisk(avg, high, quantity) <= PositionRisk(avg, low, quantity)
<1> DEFINE h == (avg - high) * quantity
           l == (avg - low) * quantity
<1>1. h \in Int /\ l \in Int /\ h <= l
  OBVIOUS
<1>2. PositionRisk(avg, high, quantity) = Max0(h) /\ PositionRisk(avg, low, quantity) = Max0(l)
  BY DEF PositionRisk
<1> HIDE DEF h, l
<1> QED BY <1>1, <1>2 DEF Max0

\* The offer of an issued plan never changes.
LEMMA OffersKept ==
  ASSUME TypeOK, [Next]_vars, NEW q \in Plans, plan[q].status # "NEW"
  PROVE  plan'[q].offer = plan[q].offer
<1> DEFINE Kept == plan'[q].offer = plan[q].offer
<1>1. plan \in [Plans -> PlanType] /\ now \in Nat
  BY DEF TypeOK
<1>2. ASSUME NEW p, NEW status, plan' = WithStatus(p, status) PROVE Kept
  BY <1>1, <1>2 DEF WithStatus, PlanType
<1>3. ASSUME plan' = plan PROVE Kept
  BY <1>3
<1>4. ASSUME plan' = SweptPlan(now) PROVE Kept
  BY <1>1, <1>4, SweepFacts
<1>5. ASSUME NEW p \in Plans, NEW o \in Offers, BuildPlan(p, o) PROVE Kept
  <2>1. plan[p].status = "NEW"
    BY <1>5 DEF BuildPlan
  <2> QED BY <1>1, <1>5, <2>1 DEF BuildPlan
<1>6. ASSUME NEW p \in Plans, RecordTriggerHit(p) PROVE Kept
  <2>1. plan' = [plan EXCEPT ![p].triggered = TRUE, ![p].expires = Deadline(p)]
    BY <1>6 DEF RecordTriggerHit
  <2> QED BY <1>1, <2>1 DEF PlanType
<1>7. ASSUME NEW p \in Plans, NEW f \in Fills, NEW i \in Slots, ConfirmFill(p, f, i) PROVE Kept
  <2> DEFINE status == IF f.quantity = resv[p].quantity THEN "FILLED" ELSE "RESERVED"
  <2>1. plan' = [SweptPlan(now) EXCEPT ![p].status = status]
    BY <1>7 DEF ConfirmFill
  <2>2. SweptPlan(now) \in [Plans -> PlanType] /\ SweptPlan(now)[q].offer = plan[q].offer
    BY <1>1, SweepFacts
  <2> HIDE DEF status
  <2> QED BY <2>1, <2>2 DEF PlanType
<1>8. ASSUME NEW a \in inflight, NEW b \in BOOLEAN, ActivateEvaluates(a, b) PROVE Kept
  <2>1. PICK n \in Nat, reserve \in BOOLEAN, taken \in ReservationType, status \in Statuses :
          Granted(a, n, reserve, taken, status)
    BY <1>8, EvaluatesFacts
  <2>2. plan' = WithStatus(a.plan, status)
    BY <2>1 DEF Granted
  <2> HIDE DEF Kept
  <2> QED BY <1>2, <2>2
<1>9. ASSUME NEW a \in inflight, ActivateExpired(a) \/ ActivateAtLimit(a) PROVE Kept
  <2>1. \E status : plan' = WithStatus(a.plan, status)
    BY <1>9, Zenon DEF ActivateExpired, ActivateAtLimit
  <2> HIDE DEF Kept
  <2> QED BY <1>2, <2>1
<1>10. ASSUME NEW p \in Plans, ReleaseReservation(p) PROVE Kept
  <2>1. \E status : plan' = WithStatus(p, status)
    BY <1>10, Zenon DEF ReleaseReservation
  <2> HIDE DEF Kept
  <2> QED BY <1>2, <2>1
<1>11. ASSUME SweepExpired \/ \E p \in Plans : ActivateBegin(p) PROVE Kept
  <2>1. plan' = SweptPlan(now)
    BY <1>11, Zenon DEF SweepExpired, ActivateBegin
  <2> QED BY <1>4, <2>1
<1>12. ASSUME \/ \E s \in Seeds : SeedWallet(s)
              \/ \E a \in inflight : ActivateFails(a)
              \/ \E a \in inflight : ActivateKeeps(a)
              \/ \E i \in Slots, stop \in Stops : ProtectPosition(i, stop)
              \/ \E i \in Slots, x \in Exits : ConfirmExit(i, x)
              \/ \E i \in Slots, m \in Imports : ImportPosition(i, m)
              \/ Tick \/ UNCHANGED vars
       PROVE  Kept
  <2>1. plan' = plan
    BY <1>12 DEF SeedWallet, ActivateFails, ActivateKeeps, ProtectPosition, ConfirmExit,
                 ImportPosition, Tick, vars
  <2> QED BY <1>3, <2>1
<1> HIDE DEF Kept
<1>13. Kept
  BY NextCases, <1>5, <1>6, <1>7, <1>8, <1>9, <1>10, <1>11, <1>12
<1> QED BY <1>13 DEF Kept

\* The capital the limits are shares of changes only with a seed.
LEMMA CapitalKept ==
  ASSUME TypeOK, [Next]_vars
  PROVE  \/ \E s \in Seeds : SeedWallet(s)
         \/ wallet'.capital = wallet.capital /\ seeds' = seeds
<1> DEFINE Kept == wallet'.capital = wallet.capital /\ seeds' = seeds
<1>1. wallet \in WalletType
  BY DEF TypeOK
<1>2. \A S : ReleasedWallet(S).capital = wallet.capital
  BY <1>1 DEF ReleasedWallet, WalletType
<1>3. ASSUME NEW p \in Plans, NEW f \in Fills, NEW i \in Slots, ConfirmFill(p, f, i) PROVE Kept
  <2>1. wallet' = FilledWallet(p, f, i) /\ seeds' = seeds
    BY <1>3, Zenon DEF ConfirmFill
  <2>2. FilledWallet(p, f, i).capital = SweptWallet(now).capital
    <3>1. SweptWallet(now) \in WalletType
      BY SweepFacts DEF TypeOK
    <3> QED BY <3>1 DEF FilledWallet, WalletType
  <2> QED BY <1>2, <2>1, <2>2 DEF SweptWallet
<1>4. ASSUME NEW a \in inflight, NEW b \in BOOLEAN, ActivateEvaluates(a, b) PROVE Kept
  <2>1. PICK n \in Nat, reserve \in BOOLEAN, taken \in ReservationType, status \in Statuses :
          Granted(a, n, reserve, taken, status)
    BY <1>4, EvaluatesFacts
  <2>2. seeds' = seeds
    BY <1>4, Zenon DEF ActivateEvaluates
  <2> DEFINE w == ReleasedWallet(IF Holding(a.plan) THEN {a.plan} ELSE {})
  <2>3. wallet' = IF reserve THEN [w EXCEPT !.reserved = w.reserved + taken.cash,
                                            !.risk = w.risk + taken.risk]
                  ELSE w
    BY <2>1 DEF Granted
  <2>4. w \in WalletType /\ w.capital = wallet.capital
    <3>1. a.plan \in Plans
      BY DEF TypeOK, InflightType
    <3> QED BY <1>2, <3>1, ReleasedWalletType
  <2> HIDE DEF w
  <2> QED BY <2>2, <2>3, <2>4 DEF WalletType
<1>5. ASSUME \/ \E a \in inflight : ActivateExpired(a)
             \/ \E a \in inflight : ActivateAtLimit(a)
             \/ \E p \in Plans : ReleaseReservation(p)
             \/ \E p \in Plans : ActivateBegin(p)
             \/ SweepExpired
      PROVE  Kept
  <2>1. (\E S : wallet' = ReleasedWallet(S)) /\ seeds' = seeds
    BY <1>5, Zenon DEF ActivateExpired, ActivateAtLimit, ReleaseReservation, ActivateBegin,
                       SweepExpired, SweptWallet
  <2> QED BY <1>2, <2>1
<1>6. ASSUME \/ \E p \in Plans, o \in Offers : BuildPlan(p, o)
             \/ \E p \in Plans : RecordTriggerHit(p)
             \/ \E a \in inflight : ActivateFails(a)
             \/ \E a \in inflight : ActivateKeeps(a)
             \/ Tick \/ UNCHANGED vars
      PROVE  Kept
  BY <1>6 DEF BuildPlan, RecordTriggerHit, ActivateFails, ActivateKeeps, Tick, vars
<1>7. ASSUME NEW i \in Slots,
             \/ \E stop \in Stops : ProtectPosition(i, stop)
             \/ \E x \in Exits : ConfirmExit(i, x)
             \/ \E m \in Imports : ImportPosition(i, m)
      PROVE  Kept
  BY <1>1, <1>7 DEF ProtectPosition, ConfirmExit, ImportPosition, WalletType
<1> HIDE DEF Kept
<1>8. (\E s \in Seeds : SeedWallet(s)) \/ Kept
  BY NextCases, <1>3, <1>4, <1>5, <1>6, <1>7
<1> QED BY <1>8 DEF Kept

\* Protect requests and exits keep the plan, the quantity and the price of a twin, and
\* its stop never falls; an import opens a twin that no plan bounds.
LEMMA OtherAmounts ==
  ASSUME TypeOK, NEW i \in Slots,
         \/ \E stop \in Stops : ProtectPosition(i, stop)
         \/ \E x \in Exits : ConfirmExit(i, x)
         \/ \E m \in Imports : ImportPosition(i, m)
  PROVE  \/ pos'[i].plan = Manual /\ pos'[i].quantity \in Nat \ {0}
         \/ /\ pos'[i].plan = pos[i].plan /\ pos'[i].quantity = pos[i].quantity
            /\ pos'[i].avg = pos[i].avg /\ pos'[i].stop \in Nat
            /\ pos[i].quantity = 0 => pos'[i].stop = pos[i].stop
<1>1. pos \in [Slots -> PositionType] /\ pos[i] \in PositionType
  BY DEF TypeOK
<1>2. ASSUME NEW stop \in Stops, ProtectPosition(i, stop)
      PROVE  /\ pos'[i] = [pos[i] EXCEPT !.stop = stop, !.covered = pos[i].remaining,
                                         !.protection = "PROTECTED"]
             /\ pos[i].quantity > 0 /\ stop \in Nat
  <2>1. /\ pos' = [pos EXCEPT ![i].stop = stop, ![i].covered = pos[i].remaining,
                              ![i].protection = "PROTECTED"]
        /\ pos[i].quantity > 0
    BY <1>2 DEF ProtectPosition
  <2>2. stop \in Nat
    BY RequestsAssumption
  <2> QED BY <1>1, <2>1, <2>2 DEF PositionType
<1>3. ASSUME NEW x \in Exits, ConfirmExit(i, x)
      PROVE  pos'[i] = [pos[i] EXCEPT !.remaining = pos[i].remaining - x.quantity]
  <2>1. pos' = [pos EXCEPT ![i].remaining = @ - x.quantity]
    BY <1>3, Zenon DEF ConfirmExit
  <2> QED BY <1>1, <2>1
<1>4. ASSUME NEW m \in Imports, ImportPosition(i, m)
      PROVE  pos'[i].plan = Manual /\ pos'[i].quantity \in Nat \ {0}
  <2>1. pos' = [pos EXCEPT ![i] =
           [plan |-> Manual, symbol |-> m.symbol, quantity |-> m.quantity,
            remaining |-> m.quantity, avg |-> m.price, stop |-> m.stop,
            covered |-> IF m.stop = NoStop THEN 0 ELSE m.quantity,
            protection |-> IF m.stop = NoStop THEN "UNPROTECTED" ELSE "PROTECTED"]]
    BY <1>4 DEF ImportPosition
  <2> QED BY <1>1, <2>1, RequestsAssumption
<1>5. CASE \E stop \in Stops : ProtectPosition(i, stop)
  <2>1. PICK stop \in Stops : ProtectPosition(i, stop)
    BY <1>5
  <2>2. /\ pos'[i] = [pos[i] EXCEPT !.stop = stop, !.covered = pos[i].remaining,
                                    !.protection = "PROTECTED"]
        /\ pos[i].quantity > 0 /\ stop \in Nat
    BY <1>2, <2>1
  <2> QED BY <1>1, <2>2 DEF PositionType
<1>6. CASE \E x \in Exits : ConfirmExit(i, x)
  <2>1. PICK x \in Exits : ConfirmExit(i, x)
    BY <1>6
  <2>2. pos'[i] = [pos[i] EXCEPT !.remaining = pos[i].remaining - x.quantity]
    BY <1>3, <2>1
  <2> QED BY <1>1, <2>2 DEF PositionType
<1>7. CASE \E m \in Imports : ImportPosition(i, m)
  BY <1>4, <1>7
<1> QED BY <1>5, <1>6, <1>7

\* A fill that passed the checks of confirm_fill leaves its twin within the limits.
LEMMA FillInLimits ==
  ASSUME LimitInv, [Next]_vars, NEW p \in Plans, NEW f \in Fills, NEW i \in Slots,
         ConfirmFill(p, f, i)
  PROVE  /\ plan[p].status # "NEW" /\ seeds > 0
         /\ seeds <= 1 => InLimits(pos'[i], wallet', plan')
<1>1. TypeOK /\ UnseededIdle /\ FilledWithinLimits
  BY DEF LimitInv, CashInv, PlanInv
<1>2. FillAccepted(p, f, i) /\ FillSlot(p, i)
  BY Zenon DEF ConfirmFill
<1>3. plan[p].status = "RESERVED" /\ Holding(p)
  BY <1>1, <1>2, FillFacts
<1>4. seeds \in Nat /\ seeds > 0
  BY <1>1, <1>3 DEF UnseededIdle, TypeOK
<1>5. pos'[i] = FilledPosition(p, f, i)
  BY <1>1, FillPositions DEF TypeOK
<1> DEFINE x == FilledPosition(p, f, i)
           o == plan[p].offer
           w == SweptWallet(now)
<1>6. plan'[p].offer = o
  BY <1>1, <1>3, OffersKept
<1>7. wallet'.capital = wallet.capital
  <2>1. seeds' = seeds
    BY Zenon DEF ConfirmFill
  <2>2. ASSUME NEW s \in Seeds, SeedWallet(s) PROVE FALSE
    <3>1. seeds' = seeds + 1
      BY <2>2, Zenon DEF SeedWallet
    <3> QED BY <1>4, <2>1, <3>1
  <2> QED BY <1>1, <2>2, CapitalKept
<1>8. w.capital = wallet.capital
  BY <1>1 DEF SweptWallet, ReleasedWallet, TypeOK, WalletType
<1>9. AllowedRisk(wallet', o) = AllowedRisk(w, o) /\ NotionalCap(wallet') = NotionalCap(w)
  BY <1>7, <1>8 DEF AllowedRisk, NotionalCap
<1>10. x.plan = p /\ x.stop = EffectiveStop(p, f, i)
  BY Zenon DEF FilledPosition
<1>11. /\ f.stop # NoStop => f.stop >= o.stop - StopTolerance
       /\ x.avg * x.quantity <= NotionalCap(w)
       /\ BookedRisk(x) <= AllowedRisk(w, o)
  BY <1>2, Zenon DEF FillAccepted, RiskTolerated
<1>12. seeds <= 1 => EffectiveStop(p, f, i) >= o.stop - StopTolerance
  <2> HAVE seeds <= 1
  <2>1. o \in Offers /\ StopTolerance \in Nat
    BY <1>1, LimitsAssumption DEF TypeOK, PlanType
  <2>2. o.stop \in Nat
    BY <2>1, OfferFacts
  <2>3. CASE f.stop # NoStop
    BY <1>11, <2>3 DEF EffectiveStop
  <2>4. CASE f.stop = NoStop /\ pos[i].stop # NoStop
    <3>1. pos[i].plan = p
      BY <1>2, <2>4 DEF FillSlot, LimitInv
    <3>2. pos[i].plan # Manual
      BY <3>1, NamesAssumption
    <3>3. pos[i].stop >= o.stop - StopTolerance
      BY <1>1, <3>1, <3>2 DEF FilledWithinLimits
    <3> QED BY <2>4, <3>3 DEF EffectiveStop
  <2>5. CASE f.stop = NoStop /\ pos[i].stop = NoStop
    <3>1. EffectiveStop(p, f, i) = o.stop
      BY <2>5, Zenon DEF EffectiveStop
    <3> QED BY <2>1, <2>2, <3>1
  <2> QED BY <2>3, <2>4, <2>5
<1> HIDE DEF x, o, w
<1>13. seeds <= 1 => InLimits(x, wallet', plan')
  BY <1>6, <1>9, <1>10, <1>11, <1>12 DEF InLimits
<1> QED BY <1>3, <1>4, <1>5, <1>13 DEF x

\* A twin whose stop did not fall stays within the limits of the same capital and offer.
LEMMA LimitsKept ==
  ASSUME NEW x \in PositionType, NEW y \in PositionType, NEW w, NEW v, NEW ps, NEW qs,
         InLimits(x, w, ps), v.capital = w.capital, qs[x.plan].offer = ps[x.plan].offer,
         ps[x.plan].offer \in Offers,
         y.plan = x.plan, y.quantity = x.quantity, y.avg = x.avg, y.stop >= x.stop,
         w.capital \in Nat
  PROVE  InLimits(y, v, qs)
<1>1. /\ x.avg \in Nat /\ x.quantity \in Nat /\ x.stop \in Nat /\ y.stop \in Nat
  BY DEF PositionType
<1>2. BookedRisk(y) <= BookedRisk(x) /\ BookedRisk(x) \in Nat /\ BookedRisk(y) \in Nat
  BY <1>1, RiskFalls, PositionRiskType DEF BookedRisk
<1> DEFINE o == ps[x.plan].offer
<1>3. AllowedRisk(v, qs[y.plan].offer) = AllowedRisk(w, o) /\ NotionalCap(v) = NotionalCap(w)
  BY DEF AllowedRisk, NotionalCap
<1>4. AllowedRisk(w, o) \in Int
  <2>1. o.mult \in Nat /\ TradeRiskBp \in Nat /\ FillRiskBp \in Nat
    BY OfferFacts, LimitsAssumption
  <2> DEFINE share == w.capital * TradeRiskBp
             basis == share * o.mult
             risk == basis \div 1000000
             tolerance == 10000 + FillRiskBp
             product == risk * tolerance
  <2>2. share \in Nat
    BY <2>1, ProductType
  <2>3. basis \in Nat
    <3> HIDE DEF share
    <3> QED BY <2>1, <2>2, ProductType
  <2>4. risk \in Nat
    <3> HIDE DEF basis
    <3> QED BY <2>3, DivType
  <2>5. tolerance \in Nat
    BY <2>1
  <2>6. product \in Nat
    <3> HIDE DEF risk, tolerance
    <3> QED BY <2>4, <2>5, ProductType
  <2>7. AllowedRisk(w, o) = product \div 10000
    BY DEF AllowedRisk
  <2> HIDE DEF product
  <2> QED BY <2>6, <2>7, DivType
<1>5. o.stop \in Nat /\ StopTolerance \in Nat
  BY OfferFacts, LimitsAssumption
<1>6. /\ BookedRisk(x) <= AllowedRisk(w, o) /\ x.stop >= o.stop - StopTolerance
      /\ x.avg * x.quantity <= NotionalCap(w)
  BY DEF InLimits
<1>7. qs[y.plan].offer = o
  OBVIOUS
<1> HIDE DEF o
<1>8. BookedRisk(y) <= AllowedRisk(v, o)
  BY <1>2, <1>3, <1>4, <1>6, <1>7
<1>9. y.stop >= o.stop - StopTolerance
  BY <1>1, <1>5, <1>6
<1> QED BY <1>3, <1>6, <1>7, <1>8, <1>9 DEF InLimits

\* A step that leaves every filled twin as it was, or raises its stop, keeps the limits.
LEMMA LimitInvKept ==
  ASSUME LimitInv, [Next]_vars, CashInv',
         \A i \in Slots :
           \/ pos'[i] = pos[i]
           \/ pos'[i].plan = Manual /\ pos'[i].quantity \in Nat \ {0}
           \/ /\ pos'[i].plan = pos[i].plan /\ pos'[i].quantity = pos[i].quantity
              /\ pos'[i].avg = pos[i].avg /\ pos'[i].stop >= pos[i].stop
              /\ pos[i].quantity = 0 => pos'[i].stop = pos[i].stop
           \/ \E p \in Plans, f \in Fills : ConfirmFill(p, f, i)
  PROVE  LimitInv'
<1>1. TypeOK /\ TypeOK' /\ PlanInv /\ FilledWithinLimits
  BY DEF LimitInv, CashInv, PlanInv
<1>2. /\ pos \in [Slots -> PositionType] /\ pos' \in [Slots -> PositionType]
      /\ seeds \in Nat /\ wallet.capital \in Nat
  BY <1>1 DEF TypeOK, WalletType
<1>3. \/ (\E s \in Seeds : SeedWallet(s)) /\ seeds' = seeds + 1 /\ UNCHANGED <<plan, pos>>
      \/ wallet'.capital = wallet.capital /\ seeds' = seeds
  BY <1>1, CapitalKept DEF SeedWallet
<1>4. ASSUME NEW i \in Slots
      PROVE  /\ pos'[i].quantity = 0 => pos'[i].stop = NoStop
             /\ pos'[i].plan # Manual =>
                  /\ plan'[pos'[i].plan].status # "NEW" /\ seeds' > 0
                  /\ seeds' <= 1 => InLimits(pos'[i], wallet', plan')
  <2> DEFINE Goal == /\ pos'[i].quantity = 0 => pos'[i].stop = NoStop
                     /\ pos'[i].plan # Manual =>
                          /\ plan'[pos'[i].plan].status # "NEW" /\ seeds' > 0
                          /\ seeds' <= 1 => InLimits(pos'[i], wallet', plan')
  <2>1. /\ pos[i] \in PositionType /\ pos'[i] \in PositionType
        /\ pos[i].quantity = 0 => pos[i].stop = NoStop
        /\ pos[i].plan # Manual => plan[pos[i].plan].status # "NEW" /\ seeds > 0
        /\ pos[i].plan # Manual /\ seeds <= 1 => InLimits(pos[i], wallet, plan)
    BY <1>1, <1>2 DEF LimitInv, FilledWithinLimits, InLimits
  <2>2. ASSUME NEW p \in Plans, NEW f \in Fills, ConfirmFill(p, f, i) PROVE Goal
    <3>1. /\ pos'[i].plan = p /\ pos'[i].quantity = pos[i].quantity + f.quantity
      BY <1>1, <2>2, FillPositions
    <3>2. pos'[i].quantity # 0
      BY <2>1, <3>1, RequestsAssumption DEF PositionType
    <3>3. plan[p].status # "NEW" /\ seeds > 0 /\ (seeds <= 1 => InLimits(pos'[i], wallet', plan'))
      BY <2>2, FillInLimits
    <3>4. plan'[p].status # "NEW"
      BY <1>1, <3>3, PlanProgress
    <3>5. seeds' = seeds
      BY <2>2, Zenon DEF ConfirmFill
    <3> QED BY <3>1, <3>2, <3>3, <3>4, <3>5
  <2>3. CASE pos'[i].plan = Manual /\ pos'[i].quantity \in Nat \ {0}
    BY <2>3
  <2>4. ASSUME \/ pos'[i] = pos[i]
               \/ /\ pos'[i].plan = pos[i].plan /\ pos'[i].quantity = pos[i].quantity
                  /\ pos'[i].avg = pos[i].avg /\ pos'[i].stop >= pos[i].stop
                  /\ pos[i].quantity = 0 => pos'[i].stop = pos[i].stop
        PROVE  Goal
    <3>1. /\ pos'[i].plan = pos[i].plan /\ pos'[i].quantity = pos[i].quantity
          /\ pos'[i].avg = pos[i].avg /\ pos'[i].stop >= pos[i].stop
          /\ pos[i].quantity = 0 => pos'[i].stop = pos[i].stop
      BY <2>1, <2>4 DEF PositionType
    <3>2. pos'[i].quantity = 0 => pos'[i].stop = NoStop
      BY <2>1, <3>1
    <3>3. CASE pos[i].plan # Manual
      <4> DEFINE q == pos[i].plan
      <4>1. q \in Plans /\ plan[q].status # "NEW" /\ seeds > 0
        BY <2>1, <3>3 DEF PositionType
      <4>2. plan'[q].status # "NEW" /\ plan'[q].offer = plan[q].offer /\ plan[q].offer \in Offers
        BY <1>1, <4>1, PlanProgress, OffersKept DEF TypeOK, PlanType
      <4>3. seeds' > 0 /\ (seeds' <= 1 => wallet'.capital = wallet.capital /\ seeds <= 1)
        BY <1>2, <1>3, <4>1
      <4>4. seeds' <= 1 => InLimits(pos'[i], wallet', plan')
        <5> SUFFICES ASSUME seeds' <= 1 PROVE InLimits(pos'[i], wallet', plan')
          OBVIOUS
        <5>1. InLimits(pos[i], wallet, plan) /\ wallet'.capital = wallet.capital
          BY <2>1, <3>3, <4>3
        <5> QED BY <1>2, <2>1, <3>1, <4>2, <5>1, LimitsKept
      <4> QED BY <3>1, <3>2, <4>2, <4>3, <4>4
    <3>4. CASE pos[i].plan = Manual
      BY <3>1, <3>2, <3>4
    <3> QED BY <3>3, <3>4
  <2>5. Goal
    <3> HIDE DEF Goal
    <3>1. CASE pos'[i].plan = Manual /\ pos'[i].quantity \in Nat \ {0}
      BY <3>1 DEF Goal
    <3> QED BY <2>2, <2>4, <3>1
  <2> QED BY <2>5
<1>5. FilledWithinLimits'
  BY <1>4 DEF FilledWithinLimits, InLimits
<1> QED BY <1>4, <1>5 DEF LimitInv

\* Before anything is traded there is nothing to bound.
LEMMA LimitInvInit == Init => LimitInv
<1> SUFFICES ASSUME Init PROVE LimitInv
  OBVIOUS
<1>1. CashInv
  BY CashInvInit
<1>2. \A i \in Slots : pos[i] = NoPosition
  BY DEF Init
<1>3. NoPosition.plan = Manual /\ NoPosition.stop = NoStop
  BY DEF NoPosition
<1> QED BY <1>1, <1>2, <1>3 DEF LimitInv, FilledWithinLimits

\* Every step keeps the twins within their limits.
LEMMA LimitInvStep == LimitInv /\ [Next]_vars => LimitInv'
<1> SUFFICES ASSUME LimitInv, [Next]_vars PROVE LimitInv'
  OBVIOUS
<1>1. TypeOK /\ CashInv
  BY DEF LimitInv, CashInv, PlanInv
<1>2. CashInv'
  BY <1>1, CashInvStep
<1> DEFINE Bounded(j) ==
             \/ pos'[j] = pos[j]
             \/ pos'[j].plan = Manual /\ pos'[j].quantity \in Nat \ {0}
             \/ /\ pos'[j].plan = pos[j].plan /\ pos'[j].quantity = pos[j].quantity
                /\ pos'[j].avg = pos[j].avg /\ pos'[j].stop >= pos[j].stop
                /\ pos[j].quantity = 0 => pos'[j].stop = pos[j].stop
             \/ \E p \in Plans, f \in Fills : ConfirmFill(p, f, j)
<1>3. ASSUME pos' = pos PROVE \A j \in Slots : Bounded(j)
  BY <1>3
<1>4. ASSUME NEW p \in Plans, NEW f \in Fills, NEW i \in Slots, ConfirmFill(p, f, i)
      PROVE  \A j \in Slots : Bounded(j)
  <2>1. pos' = [pos EXCEPT ![i] = FilledPosition(p, f, i)]
    BY <1>1, <1>4, FillPositions
  <2>2. \A j \in Slots \ {i} : pos'[j] = pos[j]
    BY <1>1, <2>1 DEF TypeOK
  <2> QED BY <1>4, <2>2, Zenon
<1>5. ASSUME NEW i \in Slots,
             \/ \E stop \in Stops : ProtectPosition(i, stop)
             \/ \E x \in Exits : ConfirmExit(i, x)
             \/ \E m \in Imports : ImportPosition(i, m)
      PROVE  \A j \in Slots : Bounded(j)
  <2>1. \A j \in Slots \ {i} : pos'[j] = pos[j]
    BY <1>1, <1>5, OtherPositions
  <2>2. \/ pos'[i].plan = Manual /\ pos'[i].quantity \in Nat \ {0}
        \/ /\ pos'[i].plan = pos[i].plan /\ pos'[i].quantity = pos[i].quantity
           /\ pos'[i].avg = pos[i].avg /\ pos'[i].stop \in Nat
           /\ pos[i].quantity = 0 => pos'[i].stop = pos[i].stop
    BY <1>1, <1>5, OtherAmounts
  <2>3. pos[i].quantity > 0 => pos'[i].stop >= pos[i].stop
    BY <1>1, <1>5, OtherPositions
  <2>4. pos[i].quantity \in Nat /\ pos[i].stop \in Nat
    BY <1>1 DEF TypeOK, PositionType
  <2>5. Bounded(i)
    BY <2>2, <2>3, <2>4
  <2> QED BY <2>1, <2>5
<1> HIDE DEF Bounded
<1>6. \A j \in Slots : Bounded(j)
  BY PositionCases, <1>3, <1>4, <1>5
<1> QED BY <1>2, <1>6, LimitInvKept DEF Bounded

\* Whatever partial fills, raised stops and exits come in whatever order, a filled twin
\* stays within the plan's risk with its tolerance, above the plan's stop less its
\* tolerance and within the notional cap, as long as the capital was seeded once.
THEOREM FillsWithinLimits == Spec => []FilledWithinLimits
<1>1. LimitInv => FilledWithinLimits
  BY DEF LimitInv
<1> QED BY <1>1, LimitInvInit, LimitInvStep, PTL DEF Spec
=============================================================================
