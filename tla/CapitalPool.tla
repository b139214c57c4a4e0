---------------------------- MODULE CapitalPool ----------------------------
(***************************************************************************)
(* What the capital ledger promises to somebody who looks only at money    *)
(* claimed: plans hold claims on one pool of cash, and a plan that is      *)
(* closed stays closed.  No deadline, price, quantity, risk, activation or *)
(* event is left; RiskLedger is shown to implement this.                   *)
(***************************************************************************)
EXTENDS Integers, Functions

CONSTANT Plans

VARIABLES
  cash,    \* the cash of the pool
  claim,   \* the cash each plan holds a claim on
  closed,  \* the plans that are filled or expired
  seeds    \* how often the pool was set up

pvars == <<cash, claim, closed, seeds>>

PoolInit ==
  /\ cash = 0
  /\ claim = [p \in Plans |-> 0]
  /\ closed = {}
  /\ seeds = 0

\* Setting the pool up touches no claim, and neither does money that moves for other
\* reasons than a fill.
Found  == seeds' = seeds + 1 /\ cash' >= 0 /\ UNCHANGED <<claim, closed>>
Settle == UNCHANGED <<claim, closed, seeds>>

\* The claims of the plans in S are given back whole, and those in D close: whoever
\* is closed this way keeps no claim.
Release(S, D) ==
  /\ D \subseteq S
  /\ claim' = [p \in Plans |-> IF p \in S THEN 0 ELSE claim[p]]
  /\ closed' = closed \cup D
  /\ UNCHANGED <<cash, seeds>>

\* An open plan is given a claim, and the claims together fit the cash.  Setting the
\* pool up again forgets claims, so that is promised for the first time only.
Grant(p) ==
  /\ p \notin closed
  /\ claim'[p] > 0
  /\ claim' = [claim EXCEPT ![p] = claim'[p]]
  /\ seeds <= 1 => SumFunctionOnSet(claim', Plans) <= cash
  /\ UNCHANGED <<cash, closed, seeds>>

\* An open plan spends from its claim: no more than the claim, nobody else's and no
\* cash that is not there.  The claim shrinks, and the plan closes exactly when
\* nothing of it is left.  Other plans may be released in passing.
Spend(p, S, D) ==
  /\ p \notin closed \cup S
  /\ D \subseteq S
  /\ 0 <= claim'[p] /\ claim'[p] < claim[p]
  /\ claim' = [q \in Plans |-> IF q = p THEN claim'[p] ELSE IF q \in S THEN 0 ELSE claim[q]]
  /\ closed' = closed \cup D \cup {q \in {p} : claim'[p] = 0}
  /\ 0 <= cash' /\ cash' <= cash /\ cash - cash' <= claim[p]
  /\ UNCHANGED seeds

PoolNext ==
  \/ Found
  \/ Settle
  \/ \E S \in SUBSET Plans, D \in SUBSET Plans : Release(S, D)
  \/ \E p \in Plans : Grant(p)
  \/ \E p \in Plans, S \in SUBSET Plans, D \in SUBSET Plans : Spend(p, S, D)

PoolSpec == PoolInit /\ [][PoolNext]_pvars
=============================================================================
