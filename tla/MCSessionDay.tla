---------------------------- MODULE MCSessionDay ----------------------------
(* A day of three slots and two checkpoints. *)
EXTENDS SessionDay, TLC

CONSTANTS t30, t3, SPY, ABC, QQQ

MCWindowEnd == (t30 :> 1) @@ (t3 :> 2)
=============================================================================
