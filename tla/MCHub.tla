-------------------------------- MODULE MCHub --------------------------------
(* Instances of Hub for TLC. *)
EXTENDS Hub, TLC

ConsumerSymmetry == Permutations(Consumers)
=============================================================================
