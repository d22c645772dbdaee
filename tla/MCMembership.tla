---------------------------- MODULE MCMembership ----------------------------
(* An instance of Membership for TLC. *)
EXTENDS Membership
CONSTANTS f1, f2, j1, j2
=============================================================================
