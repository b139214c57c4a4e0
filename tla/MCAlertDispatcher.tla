-------------------------- MODULE MCAlertDispatcher --------------------------
(* Small instance of AlertDispatcher: an urgent alert and an ordinary one, *)
(* two sinks, two attempts with different backoffs and one crash.          *)
EXTENDS AlertDispatcher

CONSTANTS sell, buy

MCPriority == [a \in Alerts |-> IF a = sell THEN 0 ELSE 3]
MCBackoffs == <<1, 2>>

=============================================================================
