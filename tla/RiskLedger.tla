----------------------------- MODULE RiskLedger -----------------------------
(***************************************************************************)
(* The capital ledger of DecisionService (orchestration/service.py): trade *)
(* plans, the reservations that hold twin cash and risk for them, the one  *)
(* risk wallet, the position twins opened by acknowledged fills or by      *)
(* manual import, and the event log from which ledger/replay.py rebuilds   *)
(* all four.                                                               *)
(*                                                                         *)
(* Every service method runs inside store.transaction(), so one action is  *)
(* one transaction; a method that raises leaves the tables as they were.   *)
(* activate() is the exception: it reads the plan, awaits market data      *)
(* outside any transaction and commits later with the clock value it read  *)
(* first, so it is two actions here.                                       *)
(*                                                                         *)
(* Money, prices and percentages are integers in a unit small enough that  *)
(* the averages and percentages of an instance are exact; round(x, 2) and  *)
(* the 1e-9 tolerances of the code are then the identity and exact         *)
(* comparison.                                                             *)
(*                                                                         *)
(* An operator whose name ends in Slip is not part of the model: it is a   *)
(* mistake the definition after it could contain, kept to show that the    *)
(* properties would notice it.                                             *)
(***************************************************************************)
EXTENDS Integers, FiniteSets, Functions

CONSTANTS
  Plans,           \* plan identifiers that can be issued
  Slots,           \* position identifiers that can be opened
  Symbols,         \* ticker symbols
  Manual,          \* plan_id of an imported position: no plan has it
  Offers,          \* plan geometries build_trade_plan can return
  Seeds,           \* [capital, cash] pairs of a wallet seed request
  Fills,           \* [price, quantity, stop] of a fill acknowledgement
  Imports,         \* [symbol, quantity, price, stop] of a manual import
  Exits,           \* [price, quantity] of an exit acknowledgement
  Stops,           \* stop prices of a protect request
  PlanTTL,         \* plan_ttl_seconds
  ReservationTTL,  \* reservation_ttl_seconds
  RetestWindow,    \* retest_window_minutes + 5
  Slippage,        \* width of max_slippage_pct above the entry zone
  StopTolerance,   \* width of stop_tolerance_pct below the plan stop
  MaxConcurrent,   \* max_concurrent_positions
  TradeRiskBp,     \* max_trade_risk_pct, in basis points like the next three
  DailyLossBp,     \* max_daily_loss_pct
  NotionalBp,      \* max_position_notional_pct
  FillRiskBp,      \* fill_risk_tolerance
  MaxTime,         \* bound of the model: the last clock value
  MaxSeeds,        \* bound of the model: how often the wallet is seeded
  MaxInflight      \* bound of the model: activations awaiting market data

NoStop == 0        \* stop=None; every stop price is positive

Statuses == {"NEW", "ACTIVE", "RESERVED", "FILLED", "EXPIRED"}
Live     == {"ACTIVE", "RESERVED"}
Terminal == {"FILLED", "EXPIRED"}

(***************************************************************************)
(* What build_trade_plan guarantees of a plan it returns: a positive risk  *)
(* per share, an entry zone that starts at the trigger and a positive      *)
(* quality multiplier of at most 1 (risk_multiplier of the quality tiers), *)
(* here in percent.                                                        *)
(***************************************************************************)
OfferType == [symbol : Symbols, trigger : Nat, zone : Nat, stop : Nat, mult : Nat]

ASSUME PlansAssumption == IsFiniteSet(Plans)
ASSUME SlotsAssumption == IsFiniteSet(Slots)
ASSUME NamesAssumption == Manual \notin Plans /\ Symbols # {} /\ Offers # {}
ASSUME OffersAssumption ==
  /\ Offers \subseteq OfferType
  /\ \A o \in Offers : 0 < o.stop /\ o.stop < o.trigger /\ o.trigger <= o.zone
                      /\ 0 < o.mult /\ o.mult <= 100
ASSUME RequestsAssumption ==
  /\ \A s \in Seeds : s \in [capital : Nat, cash : Nat]
  /\ \A f \in Fills : f \in [price : Nat, quantity : Nat \ {0}, stop : Nat]
  /\ \A m \in Imports :
       m \in [symbol : Symbols, quantity : Nat \ {0}, price : Nat, stop : Nat]
  /\ \A x \in Exits : x \in [price : Nat, quantity : Nat \ {0}]
  /\ Stops \subseteq Nat \ {0}
ASSUME LimitsAssumption ==
  /\ {PlanTTL, ReservationTTL, RetestWindow, Slippage, StopTolerance, MaxConcurrent,
      TradeRiskBp, DailyLossBp, NotionalBp, FillRiskBp} \subseteq Nat
  /\ {MaxTime, MaxSeeds, MaxInflight} \subseteq Nat

VARIABLES
  now,       \* the clock datetime.now(UTC) reads
  wallet,    \* WalletState; capital 0 stands for "no wallet yet"
  plan,      \* TradePlan per identifier; status NEW stands for "not issued"
  resv,      \* Reservation per plan; quantity 0 stands for "none"
  pos,       \* PositionState per slot; quantity 0 stands for "not opened"
  inflight,  \* activations between their first read and their transaction
  journal,   \* what rebuild_state computes from the events appended so far
  seeds      \* WALLET_SEEDED events so far: counts towards MaxSeeds

tables == <<wallet, plan, resv, pos>>
vars   == <<now, wallet, plan, resv, pos, inflight, journal, seeds>>

-----------------------------------------------------------------------------
(* The records *)

Max0Slip(x)  == x
Max0(x)      == IF x > 0 THEN x ELSE 0
Lesser(x, y) == IF x < y THEN x ELSE y

NoReservation == [quantity |-> 0, cash |-> 0, risk |-> 0, expires |-> 0]
NoPosition    == [plan |-> Manual, symbol |-> CHOOSE s \in Symbols : TRUE,
                  quantity |-> 0, remaining |-> 0, avg |-> 0, stop |-> NoStop,
                  covered |-> 0, protection |-> "UNPROTECTED"]
Unissued      == [status |-> "NEW", offer |-> CHOOSE o \in Offers : TRUE,
                  expires |-> 0, triggered |-> FALSE]

Seeded        == wallet.capital > 0
Holding(p)    == resv[p].quantity > 0
OpenSlots     == {i \in Slots : pos[i].remaining > 0}
HeldCash      == [p \in Plans |-> resv[p].cash]
HeldRisk      == [p \in Plans |-> resv[p].risk]
HasPosition(p) == \E i \in Slots : pos[i].plan = p

RiskPerShare(o) == o.trigger - o.stop
PositionRisk(avg, stop, quantity) == Max0((avg - stop) * quantity)
TradeRisk(w)   == (w.capital * TradeRiskBp) \div 10000
DailyCap(w)    == (w.capital * DailyLossBp) \div 10000
NotionalCap(w) == (w.capital * NotionalBp) \div 10000

\* reservation_deleted is not honoured.
ReplayedSlip(w, ps, rs, ds, is) ==
  [wallet |-> IF w THEN wallet' ELSE journal.wallet,
   plan   |-> [p \in Plans |-> IF p \in ps THEN plan'[p] ELSE journal.plan[p]],
   resv   |-> [p \in Plans |-> IF p \in rs THEN resv'[p] ELSE journal.resv[p]],
   pos    |-> [i \in Slots |-> IF i \in is THEN pos'[i] ELSE journal.pos[i]]]

(***************************************************************************)
(* rebuild_state folds the snapshots the events carry.  A method that      *)
(* appends events is described by what they carry: w if a wallet snapshot, *)
(* ps the plans, is the positions and rs the reservations snapshotted, ds  *)
(* the reservations flagged reservation_deleted.  A later snapshot wins,   *)
(* so only the values after the method count.                              *)
(***************************************************************************)
Replayed(w, ps, rs, ds, is) ==
  [wallet |-> IF w THEN wallet' ELSE journal.wallet,
   plan   |-> [p \in Plans |-> IF p \in ps THEN plan'[p] ELSE journal.plan[p]],
   resv   |-> [p \in Plans |-> IF p \in ds THEN NoReservation
                               ELSE IF p \in rs THEN resv'[p] ELSE journal.resv[p]],
   pos    |-> [i \in Slots |-> IF i \in is THEN pos'[i] ELSE journal.pos[i]]]

Journal(w, ps, rs, ds, is) == journal' = Replayed(w, ps, rs, ds, is)

-----------------------------------------------------------------------------
(* Releasing and sweeping *)

\* wallet after releasing the reservations of the plans in S.
ReleasedWallet(S) ==
  [wallet EXCEPT !.reserved = Max0(@ - SumFunctionOnSet(HeldCash, S)),
                 !.risk     = Max0(@ - SumFunctionOnSet(HeldRisk, S))]

\* Status of plan p after release_reservation(p, reason).
ReleasedStatusSlip(p, reason) == plan[p].status
ReleasedStatus(p, reason) ==
  IF plan[p].status # "RESERVED" THEN plan[p].status
  ELSE IF reason = "RESERVATION_EXPIRED" /\ HasPosition(p) THEN "FILLED" ELSE "ACTIVE"

WithStatus(p, status) == [plan EXCEPT ![p].status = status]

ReleaseReservation(p) ==
  /\ Holding(p) /\ Seeded
  /\ wallet' = ReleasedWallet({p})
  /\ resv' = [resv EXCEPT ![p] = NoReservation]
  /\ plan' = WithStatus(p, ReleasedStatus(p, "USER_RELEASED"))
  /\ Journal(TRUE, {p}, {}, {p}, {})
  /\ UNCHANGED <<now, pos, inflight, seeds>>

\* The plans the first loop of sweep_expired expires at time t, the reservations
\* its second loop lets lapse, and the four tables after both loops.
ExpiredPlans(t) == {p \in Plans : plan[p].status \in Live /\ t > plan[p].expires}
LapsedPlans(t)  == {p \in Plans \ ExpiredPlans(t) : Holding(p) /\ t > resv[p].expires}
SweptPlans(t)   == ExpiredPlans(t) \cup LapsedPlans(t)
SweptHolds(t)   == {p \in SweptPlans(t) : Holding(p)}

\* Expiring a plan leaves its reservation row.
SweptResvSlip(t) == [p \in Plans |-> IF p \in LapsedPlans(t) THEN NoReservation ELSE resv[p]]

SweptWallet(t) == ReleasedWallet(SweptHolds(t))
SweptResv(t)   == [p \in Plans |-> IF p \in SweptPlans(t) THEN NoReservation ELSE resv[p]]
SweptPlan(t)   ==
  [p \in Plans |->
     IF p \in ExpiredPlans(t) THEN [plan[p] EXCEPT !.status = "EXPIRED"]
     ELSE IF p \in LapsedPlans(t)
          THEN [plan[p] EXCEPT !.status = ReleasedStatus(p, "RESERVATION_EXPIRED")]
          ELSE plan[p]]

SweepExpired ==
  /\ SweptPlans(now) # {}
  /\ wallet' = SweptWallet(now)
  /\ resv' = SweptResv(now)
  /\ plan' = SweptPlan(now)
  /\ Journal(SweptHolds(now) # {}, SweptPlans(now), {}, SweptHolds(now), {})
  /\ UNCHANGED <<now, pos, inflight, seeds>>

-----------------------------------------------------------------------------
(* The wallet, plans and their triggers *)

SeedWallet(s) ==
  /\ seeds < MaxSeeds
  /\ s.capital > 0 /\ s.cash <= 2 * s.capital
  /\ wallet' = [capital |-> s.capital, cash |-> s.cash, reserved |-> 0, risk |-> 0, loss |-> 0]
  /\ seeds' = seeds + 1
  /\ Journal(TRUE, {}, {}, {}, {})
  /\ UNCHANGED <<now, plan, resv, pos, inflight>>

BuildPlan(p, o) ==
  /\ plan[p].status = "NEW"
  /\ plan' = [plan EXCEPT ![p] = [status |-> "ACTIVE", offer |-> o,
                                  expires |-> now + PlanTTL, triggered |-> FALSE]]
  /\ Journal(FALSE, {p}, {}, {}, {})
  /\ UNCHANGED <<now, wallet, resv, pos, inflight, seeds>>

\* The deadline of a triggered plan: the later of its own and the retest window's.
Deadline(p) ==
  IF plan[p].expires > now + RetestWindow THEN plan[p].expires ELSE now + RetestWindow

RecordTriggerHit(p) ==
  /\ plan[p].status = "ACTIVE" /\ ~plan[p].triggered /\ now <= plan[p].expires
  /\ plan' = [plan EXCEPT ![p].triggered = TRUE, ![p].expires = Deadline(p)]
  /\ Journal(FALSE, {p}, {}, {}, {})
  /\ UNCHANGED <<now, wallet, resv, pos, inflight, seeds>>

-----------------------------------------------------------------------------
(* Activation *)

FreeCashSlip(w) == Max0(w.cash)
FreeCash(w)     == Max0(w.cash - w.reserved)

\* size_from_wallet: the largest quantity the trade budget, the remaining daily
\* risk, the free cash and the notional cap of wallet w allow for offer o.
SizeFromWallet(w, o) ==
  LET daily  == DailyCap(w) - w.loss - w.risk
      budget == (Lesser(TradeRisk(w), daily) * o.mult) \div 100
      byRisk == budget \div RiskPerShare(o)
      byCash == FreeCash(w) \div o.zone
  IN  IF w.cash <= 0 \/ daily <= 0 THEN 0
      ELSE Max0(Lesser(byRisk, Lesser(byCash, NotionalCap(w) \div o.zone)))

\* activate() up to its first await: the sweep, then the checks on what it reads.
ActivateBegin(p) ==
  /\ Cardinality(inflight) < MaxInflight
  /\ SweptPlan(now)[p].status \notin {"NEW", "EXPIRED", "FILLED"}
  /\ now <= plan[p].expires
  /\ Seeded
  /\ inflight' = inflight \cup {[plan |-> p, at |-> now]}
  /\ wallet' = SweptWallet(now)
  /\ resv' = SweptResv(now)
  /\ plan' = SweptPlan(now)
  /\ Journal(SweptHolds(now) # {}, SweptPlans(now), {}, SweptHolds(now), {})
  /\ UNCHANGED <<now, pos, seeds>>

\* The snapshot, the liquidity profile or the retest raises.
ActivateFails(a) ==
  /\ inflight' = inflight \ {a}
  /\ UNCHANGED <<now, wallet, plan, resv, pos, journal, seeds>>

AtPositionLimit(p) ==
  /\ Cardinality(OpenSlots) >= MaxConcurrent
  /\ \A i \in OpenSlots : pos[i].plan # p
Overtaken(a) == plan[a.plan].status = "EXPIRED" \/ a.at > plan[a.plan].expires
FilledMeanwhileSlip(a) == FALSE
FilledMeanwhile(a)     == plan[a.plan].status = "FILLED"

\* The transaction finds the plan expired: capacity is released, the plan ends.
ActivateExpired(a) ==
  LET p == a.plan
      held == IF Holding(p) THEN {p} ELSE {}
  IN  /\ Overtaken(a)
      /\ wallet' = ReleasedWallet(held)
      /\ resv' = [resv EXCEPT ![p] = NoReservation]
      /\ plan' = WithStatus(p, "EXPIRED")
      \* the release logs the plan as it left it; the write of EXPIRED is not logged
      /\ journal' = [Replayed(held # {}, {}, {}, held, {}) EXCEPT
           !.plan = IF held = {} THEN @
                    ELSE [@ EXCEPT ![p] = WithStatus(p, ReleasedStatus(p, "PLAN_EXPIRED"))[p]]]
      /\ inflight' = inflight \ {a}
      /\ UNCHANGED <<now, pos, seeds>>

\* The transaction finds the position limit reached: capacity is released.
ActivateAtLimit(a) ==
  LET p == a.plan
  IN  /\ ~Overtaken(a) /\ ~FilledMeanwhile(a)
      /\ AtPositionLimit(p) /\ Holding(p)
      /\ wallet' = ReleasedWallet({p})
      /\ resv' = [resv EXCEPT ![p] = NoReservation]
      /\ plan' = WithStatus(p, ReleasedStatus(p, "MAX_CONCURRENT_POSITIONS_REACHED"))
      /\ Journal(TRUE, {p}, {}, {p}, {})
      /\ inflight' = inflight \ {a}
      /\ UNCHANGED <<now, pos, seeds>>

\* The transaction decides without touching the ledger tables: the plan is
\* filled, the limit is reached with nothing held, or a live reservation is
\* confirmed by a repeated BUY_NOW or ARMED decision.
ActivateKeeps(a) ==
  LET p == a.plan
  IN  /\ ~Overtaken(a)
      /\ \/ FilledMeanwhile(a)
         \/ AtPositionLimit(p) /\ ~Holding(p)
         \/ ~AtPositionLimit(p) /\ Holding(p) /\ a.at <= resv[p].expires
      /\ inflight' = inflight \ {a}
      /\ UNCHANGED <<now, wallet, plan, resv, pos, journal, seeds>>

\* activate_plan runs on the wallet as it is after a lapsed reservation is
\* released.  buyable is the verdict of its market gates (authority, freshness,
\* spread, VWAP, retest, entry zone), which are inputs here.
ActivateEvaluates(a, buyable) ==
  LET p == a.plan
      o == plan[p].offer
      held == IF Holding(p) THEN {p} ELSE {}
      w == ReleasedWallet(held)
      n == SizeFromWallet(w, o)
      reserve == buyable /\ n > 0
      taken == [quantity |-> n, cash |-> n * o.zone, risk |-> n * RiskPerShare(o),
                expires |-> a.at + ReservationTTL]
  IN  /\ ~Overtaken(a) /\ ~FilledMeanwhile(a) /\ ~AtPositionLimit(p)
      /\ Holding(p) => a.at > resv[p].expires
      /\ wallet' = IF reserve THEN [w EXCEPT !.reserved = @ + taken.cash, !.risk = @ + taken.risk]
                   ELSE w
      /\ resv' = [resv EXCEPT ![p] = IF reserve THEN taken ELSE NoReservation]
      /\ plan' = WithStatus(p, IF reserve THEN "RESERVED"
                               ELSE ReleasedStatus(p, "RESERVATION_EXPIRED"))
      /\ Journal(reserve \/ held # {}, IF reserve THEN {p} ELSE held,
                 IF reserve THEN {p} ELSE {}, IF reserve THEN {} ELSE held, {})
      /\ inflight' = inflight \ {a}
      /\ UNCHANGED <<now, pos, seeds>>

-----------------------------------------------------------------------------
(* Fills *)

\* The twin a fill of plan p goes to: its open one, else a new one.
FillSlot(p, i) ==
  \/ i \in OpenSlots /\ pos[i].plan = p
  \/ pos[i].quantity = 0 /\ \A j \in OpenSlots : pos[j].plan # p

\* effective_stop: the acknowledged stop order, else the twin's, else the plan's.
EffectiveStopSlip(p, f, i) == IF f.stop # NoStop THEN f.stop ELSE plan[p].offer.stop
EffectiveStop(p, f, i) ==
  IF f.stop # NoStop THEN f.stop
  ELSE IF pos[i].stop # NoStop THEN pos[i].stop ELSE plan[p].offer.stop

ProtectionSlip(covered, remaining) == IF covered > 0 THEN "PROTECTED" ELSE "UNPROTECTED"
Protection(covered, remaining) ==
  IF covered = remaining THEN "PROTECTED" ELSE "UNPROTECTED"

\* The position after fill f; NoPosition makes a new twin the case quantity = 0.
FilledPosition(p, f, i) ==
  LET old == pos[i]
      quantity == old.quantity + f.quantity
      remaining == old.remaining + f.quantity
      covered == IF f.stop # NoStop THEN remaining ELSE old.covered
  IN  [plan |-> p, symbol |-> plan[p].offer.symbol,
       quantity |-> quantity, remaining |-> remaining,
       avg |-> (old.avg * old.quantity + f.price * f.quantity) \div quantity,
       stop |-> EffectiveStop(p, f, i), covered |-> covered,
       protection |-> Protection(covered, remaining)]

\* The risk confirm_fill books for a position: on its whole quantity.
BookedRisk(x) == PositionRisk(x.avg, x.stop, x.quantity)

\* max_trade_risk of the plan with fill_risk_tolerance on top.
AllowedRisk(w, o) == (((w.capital * TradeRiskBp * o.mult) \div 1000000) * (10000 + FillRiskBp)) \div 10000

\* MAX_CONCURRENT_POSITIONS_REACHED is raised when this is false.
RoomForTwinSlip(i) == TRUE
RoomForTwin(i)     == i \in OpenSlots \/ Cardinality(OpenSlots) < MaxConcurrent

\* FILL_RISK_EXCEEDS_TOLERANCE is raised when this is false; the slip looks at
\* the new shares only.
RiskToleratedSlip(p, f, i) ==
  PositionRisk(f.price, EffectiveStop(p, f, i), f.quantity) <=
    AllowedRisk(SweptWallet(now), plan[p].offer)
RiskTolerated(p, f, i) ==
  BookedRisk(FilledPosition(p, f, i)) <= AllowedRisk(SweptWallet(now), plan[p].offer)

\* The checks of confirm_fill that raise ValueError, after its sweep.
FillAccepted(p, f, i) ==
  LET o == plan[p].offer
      r == SweptResv(now)[p]
      w == SweptWallet(now)
      x == FilledPosition(p, f, i)
  IN  /\ SweptPlan(now)[p].status = "RESERVED" /\ r.quantity > 0 /\ Seeded
      /\ f.quantity <= r.quantity
      /\ o.trigger <= f.price /\ f.price <= o.zone + Slippage
      /\ f.price * f.quantity <= w.cash
      /\ f.price * f.quantity <= r.cash
      /\ RoomForTwin(i)
      /\ f.stop # NoStop => f.stop >= pos[i].stop /\ f.stop >= o.stop - StopTolerance
      /\ x.avg * x.quantity <= NotionalCap(w)
      /\ RiskTolerated(p, f, i)

\* What is left of the reservation, and the wallet, after fill f.
FilledReservation(p, f) ==
  LET left == resv[p].quantity - f.quantity
      o == plan[p].offer
  IN  IF left = 0 THEN NoReservation
      ELSE [resv[p] EXCEPT !.quantity = left, !.cash = left * o.zone, !.risk = left * RiskPerShare(o)]
CashReleasedSlip(p, f) == f.price * f.quantity
CashReleased(p, f)     == resv[p].cash - FilledReservation(p, f).cash
FilledWallet(p, f, i) ==
  LET r == FilledReservation(p, f)
      w == SweptWallet(now)
  IN  [w EXCEPT !.reserved = @ - CashReleased(p, f),
                !.risk = @ - resv[p].risk + r.risk - BookedRisk(pos[i])
                           + BookedRisk(FilledPosition(p, f, i)),
                !.cash = @ - f.price * f.quantity]

\* confirm_fill raises WALLET_ACCOUNTING_INVARIANT_BROKEN when this is false.
AccountingHolds(p, f, i) ==
  LET w == FilledWallet(p, f, i)
  IN  w.reserved >= 0 /\ w.risk >= 0 /\ w.cash >= 0

ConfirmFill(p, f, i) ==
  /\ FillSlot(p, i)
  /\ FillAccepted(p, f, i)
  /\ AccountingHolds(p, f, i)
  /\ wallet' = FilledWallet(p, f, i)
  /\ resv' = [SweptResv(now) EXCEPT ![p] = FilledReservation(p, f)]
  /\ plan' = [SweptPlan(now) EXCEPT ![p].status =
                IF f.quantity = resv[p].quantity THEN "FILLED" ELSE "RESERVED"]
  /\ pos' = [pos EXCEPT ![i] = FilledPosition(p, f, i)]
  /\ LET gone == IF f.quantity = resv[p].quantity THEN {p} ELSE {}
     IN  Journal(TRUE, SweptPlans(now) \cup {p}, {p} \ gone, SweptHolds(now) \cup gone, {i})
  /\ UNCHANGED <<now, inflight, seeds>>

-----------------------------------------------------------------------------
(* Stops, exits and imports *)

\* The lowest stop protect_position accepts: the position's, and the plan's
\* less its tolerance when the position has a plan.
LowestStop(x) ==
  LET floor == IF x.plan = Manual THEN x.stop ELSE plan[x.plan].offer.stop - StopTolerance
  IN  IF floor > x.stop THEN floor ELSE x.stop

ProtectPosition(i, stop) ==
  LET x == pos[i]
      risk == wallet.risk - PositionRisk(x.avg, x.stop, x.remaining)
                + PositionRisk(x.avg, stop, x.remaining)
  IN  /\ x.quantity > 0 /\ Seeded
      /\ x.stop # NoStop
      /\ stop >= LowestStop(x)
      /\ risk >= 0
      /\ pos' = [pos EXCEPT ![i].stop = stop, ![i].covered = x.remaining,
                            ![i].protection = "PROTECTED"]
      /\ wallet' = [wallet EXCEPT !.risk = risk]
      /\ Journal(TRUE, {}, {}, {}, {i})
      /\ UNCHANGED <<now, plan, resv, inflight, seeds>>

ConfirmExit(i, x) ==
  LET stop == IF pos[i].stop = NoStop THEN pos[i].avg ELSE pos[i].stop
      pnl == (x.price - pos[i].avg) * x.quantity
  IN  /\ x.quantity <= pos[i].remaining /\ Seeded
      /\ pos' = [pos EXCEPT ![i].remaining = @ - x.quantity]
      /\ wallet' = [wallet EXCEPT
           !.cash = @ + x.price * x.quantity,
           !.risk = Max0(@ - PositionRisk(pos[i].avg, stop, x.quantity)),
           !.loss = @ + Max0(-pnl)]
      /\ Journal(TRUE, {}, {}, {}, {i})
      /\ UNCHANGED <<now, plan, resv, inflight, seeds>>

ImportPosition(i, m) ==
  LET notional == m.price * m.quantity
  IN  /\ pos[i].quantity = 0 /\ Seeded /\ m.price > 0
      /\ \A j \in OpenSlots : pos[j].symbol # m.symbol
      /\ pos' = [pos EXCEPT ![i] =
           [plan |-> Manual, symbol |-> m.symbol, quantity |-> m.quantity,
            remaining |-> m.quantity, avg |-> m.price, stop |-> m.stop,
            covered |-> IF m.stop = NoStop THEN 0 ELSE m.quantity,
            protection |-> IF m.stop = NoStop THEN "UNPROTECTED" ELSE "PROTECTED"]]
      /\ wallet' = [wallet EXCEPT
           !.cash = @ - notional,
           !.risk = @ + IF m.stop = NoStop THEN notional
                        ELSE PositionRisk(m.price, m.stop, m.quantity)]
      /\ Journal(TRUE, {}, {}, {}, {i})
      /\ UNCHANGED <<now, plan, resv, inflight, seeds>>

Tick ==
  /\ now < MaxTime
  /\ now' = now + 1
  /\ UNCHANGED <<wallet, plan, resv, pos, inflight, journal, seeds>>

-----------------------------------------------------------------------------
Init ==
  /\ now = 0
  /\ wallet = [capital |-> 0, cash |-> 0, reserved |-> 0, risk |-> 0, loss |-> 0]
  /\ plan = [p \in Plans |-> Unissued]
  /\ resv = [p \in Plans |-> NoReservation]
  /\ pos = [i \in Slots |-> NoPosition]
  /\ inflight = {}
  /\ journal = [wallet |-> wallet, plan |-> plan, resv |-> resv, pos |-> pos]
  /\ seeds = 0

Next ==
  \/ \E s \in Seeds : SeedWallet(s)
  \/ \E p \in Plans, o \in Offers : BuildPlan(p, o)
  \/ \E p \in Plans : RecordTriggerHit(p) \/ ReleaseReservation(p) \/ ActivateBegin(p)
  \/ SweepExpired
  \/ \E a \in inflight : \/ ActivateFails(a) \/ ActivateExpired(a) \/ ActivateAtLimit(a)
                         \/ ActivateKeeps(a) \/ \E b \in BOOLEAN : ActivateEvaluates(a, b)
  \/ \E p \in Plans, f \in Fills, i \in Slots : ConfirmFill(p, f, i)
  \/ \E i \in Slots : \/ \E stop \in Stops : ProtectPosition(i, stop)
                      \/ \E x \in Exits : ConfirmExit(i, x)
                      \/ \E m \in Imports : ImportPosition(i, m)
  \/ Tick

Spec == Init /\ [][Next]_vars

-----------------------------------------------------------------------------
(* Properties *)

\* Every table holds records of its type; only cash may be negative, because an
\* import is recorded as manual truth whatever it costs (import_position).
WalletType      == [capital : Nat, cash : Int, reserved : Nat, risk : Nat, loss : Nat]
PlanType        == [status : Statuses, offer : Offers, expires : Nat, triggered : BOOLEAN]
ReservationType == [quantity : Nat, cash : Nat, risk : Nat, expires : Nat]
PositionType    == [plan : Plans \cup {Manual}, symbol : Symbols, quantity : Nat,
                    remaining : Nat, avg : Nat, stop : Nat, covered : Nat,
                    protection : {"PROTECTED", "UNPROTECTED"}]
InflightType    == [plan : Plans, at : Nat]

TypeOK ==
  /\ now \in Nat /\ seeds \in Nat
  /\ wallet \in WalletType
  /\ plan \in [Plans -> PlanType]
  /\ resv \in [Plans -> ReservationType]
  /\ pos \in [Slots -> PositionType]
  /\ inflight \subseteq InflightType

\* Sweep, release, activation and fill race on a plan's status and on its
\* reservation row; they agree: a plan is RESERVED exactly while a reservation
\* row for it exists, so no FILLED or EXPIRED plan keeps capacity.
ReservationMatchesPlan == \A p \in Plans : Holding(p) <=> plan[p].status = "RESERVED"

\* The wallet's reserved_cash is the cash of the outstanding reservations, and a
\* reservation is always its quantity at the entry zone's upper price.  A second
\* WALLET_SEEDED event writes reserved_cash = 0 over live reservations
\* (seed_wallet); after it the wallet may hold less than they do, never more.
ReservedCashBacked ==
  LET held == SumFunctionOnSet(HeldCash, Plans)
  IN  /\ \A p \in Plans : resv[p].cash = resv[p].quantity * plan[p].offer.zone
      /\ wallet.reserved <= held
      /\ seeds <= 1 => wallet.reserved = held

\* replay_check finds no difference: whatever sequence of methods ran, folding
\* their events gives the materialized wallet, plans, reservations, positions.
ReplayMatches == journal = [wallet |-> wallet, plan |-> plan, resv |-> resv, pos |-> pos]

\* A second partial fill finds the plan's open twin: a plan never has two.
OneOpenTwinPerPlan ==
  \A i, j \in OpenSlots : pos[i].plan = pos[j].plan /\ pos[i].plan # Manual => i = j

\* max_concurrent_positions bounds the open twins that fills created, although
\* activations count only what is open when they run and imports are not refused.
FillsWithinConcurrency ==
  Cardinality({i \in OpenSlots : pos[i].plan # Manual}) <= MaxConcurrent

\* Partial fills, raised stops and exits in any order never take a filled twin
\* over the plan's risk with tolerance, or below the plan's stop with tolerance.
\* Stated for a wallet seeded once: another seed changes the capital.
FilledWithinLimits ==
  seeds <= 1 =>
    \A i \in Slots : pos[i].plan # Manual =>
      /\ BookedRisk(pos[i]) <= AllowedRisk(wallet, plan[pos[i].plan].offer)
      /\ pos[i].stop >= plan[pos[i].plan].offer.stop - StopTolerance
      /\ pos[i].avg * pos[i].quantity <= NotionalCap(wallet)

\* A twin that says PROTECTED has a stop order for at least the shares it still
\* holds, after any mix of partial fills with and without a stop, and exits.
ProtectedCovers ==
  \A i \in Slots : pos[i].protection = "PROTECTED" =>
                     pos[i].covered >= pos[i].remaining /\ pos[i].stop # NoStop

\* STOP_LOOSER_THAN_CURRENT: no fill, protect request or exit lowers the stop of
\* a twin once it has one.
StopNeverLoosens ==
  [][\A i \in Slots : pos[i].quantity > 0 => pos'[i].stop >= pos[i].stop]_vars

\* FILLED and EXPIRED are final, whatever activation was awaiting market data
\* when the plan got there, and an issued plan's deadline never moves back.
TerminalStable ==
  [][\A p \in Plans : /\ plan[p].status \in Terminal => plan'[p].status = plan[p].status
                      /\ plan[p].status # "NEW" => plan'[p].expires >= plan[p].expires]_vars

\* Capacity is granted against the wallet of the granting transaction: whatever
\* was reserved, lost or filled while market data was awaited, a new reservation
\* leaves open risk plus the day's loss within the daily cap and the reserved
\* cash within the cash.
ReserveWithinCapacity ==
  [][\A p \in Plans : resv'[p].quantity > resv[p].quantity =>
       /\ wallet'.risk + wallet'.loss <= DailyCap(wallet')
       /\ wallet'.reserved <= wallet'.cash]_vars

\* Seen as claims of plans on cash, sweep, release, activation and fill are the steps
\* CapitalPool allows: nobody's claim moves but by a grant within the cash, a fill of
\* that plan or a release to nothing, and a closed plan neither holds a claim nor
\* gets one back, however the methods interleave.
Pool == INSTANCE CapitalPool WITH
  cash   <- wallet.cash,
  claim  <- HeldCash,
  closed <- {p \in Plans : plan[p].status \in Terminal}
ImplementsPool == Pool!PoolSpec

\* The assertion in confirm_fill: a fill that passed every check never finds the
\* wallet's books broken (RuntimeError WALLET_ACCOUNTING_INVARIANT_BROKEN).
FillNeverBreaksAccounting ==
  \A p \in Plans, f \in Fills, i \in Slots :
    FillSlot(p, i) /\ FillAccepted(p, f, i) => AccountingHolds(p, f, i)

=============================================================================
