------------------------- MODULE MCIntradayStructure -------------------------
(* Small instance of IntradayStructure: an opening range from 10 to 20 (or *)
(* one with a single price), then bars that break out and touch the high,  *)
(* clear it, touch it and close on it, or fall through.  Each minute has   *)
(* the bars that tell it apart: a breakout or a close on the high first,   *)
(* then any of the four, last a bar that breaks out or falls.              *)
EXTENDS IntradayStructure

Bar(h, l, c, v) == [high |-> h, low |-> l, close |-> c, onVwap |-> v]

Breaks == Bar(22, 19, 21, FALSE)
Clears == Bar(23, 22, 22, FALSE)
OnHigh == Bar(21, 19, 20, FALSE)
Falls  == Bar(12, 5, 8, TRUE)

MCBars ==
  [m \in Minutes |->
     IF m < Opening THEN {Bar(20, 10, 15, FALSE), Bar(15, 15, 15, FALSE)}
     ELSE IF m = 1 THEN {Breaks, OnHigh}
     ELSE IF m = 2 THEN {Breaks, OnHigh, Clears, Falls} ELSE {Breaks, Falls}]
MCRaceBars == [m \in Minutes |-> {Bar(20, 10, 15, FALSE)}]
=============================================================================
