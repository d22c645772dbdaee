----------------------------- MODULE MCMetadata -----------------------------
(* An instance of Metadata for TLC. *)
EXTENDS Metadata
CONSTANTS A, B
=============================================================================
