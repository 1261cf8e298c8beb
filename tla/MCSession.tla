----------------------------- MODULE MCSession -----------------------------
(***************************************************************************)
(* Instances of Session for TLC.                                           *)
(***************************************************************************)
EXTENDS Session, TLC

\* Pids are only compared, so any two of them may be exchanged.
PidSymmetry == Permutations(Pids)
=============================================================================
