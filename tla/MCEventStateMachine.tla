------------------------- MODULE MCEventStateMachine -------------------------
(* Instances of EventStateMachine for TLC. *)
EXTENDS EventStateMachine

(* Messages of one slot collide if they get the same ID. *)
OneSlot == {<<0, 1>>}
=============================================================================
