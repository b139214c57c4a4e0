---------------------------- MODULE MCMarketStream ----------------------------
(* Two market days; one subscription fewer than what may be wanted. *)
EXTENDS MarketStream

CONSTANTS AAA, SPY
===============================================================================
