------------------------------ MODULE MCBroker ------------------------------
(* Instances of Broker for TLC. *)
EXTENDS Broker

CONSTANTS c1, c2

(* The two compete in a group, or one of them is universal. *)
MCHandshakes == {<<c1, "workers">>, <<c2, "workers">>, <<c2, NoGroup>>}

(* Due after one unit and never expired; or due at once and then expired. *)
MCOffers == {<<1, 0>>, <<0, 1>>}
=============================================================================
