------------------------------- MODULE MCDmsg -------------------------------
(* Instances of Dmsg for TLC. *)
EXTENDS Dmsg

CONSTANTS a, b

MCSpanUses == [p \in Peers |-> IF p = a THEN 2 ELSE 0]
=============================================================================
