---------------------------- MODULE MCRiskLedger ----------------------------
(* Instances of RiskLedger for TLC.  Fill prices differ by 24 and a position *)
(* has at most 3 shares: every average price is an integer.                  *)
EXTENDS RiskLedger, TLC

CONSTANTS p1, p2, s1, s2, symA, symB

Offer(symbol, trigger, zone, stop, mult) ==
  [symbol |-> symbol, trigger |-> trigger, zone |-> zone, stop |-> stop, mult |-> mult]
Fill(price, quantity, stop) == [price |-> price, quantity |-> quantity, stop |-> stop]

\* A geometry build_trade_plan returns: 90 of risk per share on 4000, and the
\* entry zone 0.3% wide.  With the limits of config/02-RISK_ENVELOPE.json one
\* trade may risk 180 of 36000, which is 2 shares; a day twice that; and a
\* position may cost 12600, which is 3 shares.
MCOffers == {Offer(symA, 4000, 4012, 3910, 100)}
\* 8024 buys the 2 shares; a second plan competes for the 4036 left.
MCSeeds == {[capital |-> 36000, cash |-> 12060]}
\* At the trigger without a stop order, and at the slippage cap with the
\* lowest stop the tolerance allows.
MCFills == {Fill(4000, 1, 0), Fill(4024, 1, 3907)}
\* The accounting finding: 3 shares of 54000, a stop order at break-even.
WideSeeds      == {[capital |-> 54000, cash |-> 16060]}
BreakEvenFills == {Fill(4000, 2, 0), Fill(4000, 1, 4000)}
MCImports == {[symbol |-> symA, quantity |-> 1, price |-> 4012, stop |-> 0]}
MCExits == {[price |-> 3910, quantity |-> 1]}
\* A stop order raised above the entry price: the position risks nothing any more.
MCStops == {4024}

Symmetry == Permutations({p1, p2}) \cup Permutations({s1, s2})
=============================================================================
