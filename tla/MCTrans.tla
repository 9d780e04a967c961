------------------------------ MODULE MCTrans ------------------------------
(* Instances of Trans for TLC. *)
EXTENDS Trans

MCSymmetry == Permutations(Threads)
=============================================================================
