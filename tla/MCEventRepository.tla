-------------------------- MODULE MCEventRepository --------------------------
(* Instances of EventRepository for TLC. *)
EXTENDS EventRepository

MCTopicHash == [t \in Topics |-> IF t = "orders" THEN 0 ELSE 1]
=============================================================================
