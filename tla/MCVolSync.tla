----------------------------- MODULE MCVolSync -----------------------------
(* Instances of VolSync for TLC. *)
EXTENDS VolSync

CONSTANTS d1, d2

MCTwo == <<d1, d2>>
=============================================================================
