---------------------------- MODULE AlertContract ----------------------------
(***************************************************************************)
(* What the alert pipeline promises the user of one alert: it waits until  *)
(* every configured sink has received it, or is given up; a settled alert  *)
(* is never sent again.  A sink may receive a waiting alert repeatedly, so *)
(* delivery is at least once.                                              *)
(***************************************************************************)
CONSTANTS Alerts, Sinks

VARIABLES
  outcome,  \* per alert: "unsaved", "waiting", "delivered" or "abandoned"
  reached   \* per alert: the sinks that have received it

cvars == <<outcome, reached>>

CInit ==
  /\ outcome = [a \in Alerts |-> "unsaved"]
  /\ reached = [a \in Alerts |-> {}]

Save(a) ==
  /\ outcome[a] = "unsaved"
  /\ outcome' = [outcome EXCEPT ![a] = "waiting"]
  /\ UNCHANGED reached

Receive(a, s) ==
  /\ outcome[a] = "waiting"
  /\ reached' = [reached EXCEPT ![a] = @ \cup {s}]
  /\ UNCHANGED outcome

Complete(a) ==
  /\ outcome[a] = "waiting" /\ reached[a] = Sinks
  /\ outcome' = [outcome EXCEPT ![a] = "delivered"]
  /\ UNCHANGED reached

GiveUp(a) ==
  /\ outcome[a] = "waiting"
  /\ outcome' = [outcome EXCEPT ![a] = "abandoned"]
  /\ UNCHANGED reached

CNext == \E a \in Alerts : Save(a) \/ Complete(a) \/ GiveUp(a) \/ \E s \in Sinks : Receive(a, s)

CSpec == CInit /\ [][CNext]_cvars

=============================================================================
