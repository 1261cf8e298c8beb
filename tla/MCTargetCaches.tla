--------------------------- MODULE MCTargetCaches ---------------------------
(* TargetCaches for TLC: the clients are interchangeable. *)
EXTENDS TargetCaches, TLC

ClientSymmetry == Permutations(Clients)
=============================================================================
