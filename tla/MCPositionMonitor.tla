-------------------------- MODULE MCPositionMonitor --------------------------
(* Small instance of PositionMonitor: prices at the stop, between the      *)
(* levels and above the trigger.                                           *)
EXTENDS PositionMonitor

CONSTANTS p1, t1

MCSignals  == {[broken |-> FALSE, late |-> FALSE]}
Levels(protected, levels) ==
  [status |-> "open", protected |-> protected, reconciled |-> TRUE, levels |-> levels]
MCOpenRows  == {Levels(TRUE, "all"), Levels(FALSE, "all")}
MCCacheRows == {Levels(FALSE, "all"), Levels(FALSE, "none")}

=============================================================================
