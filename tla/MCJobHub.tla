------------------------------- MODULE MCJobHub -------------------------------
(***************************************************************************)
(* JobHub for TLC: pids are interchangeable, so their permutations are     *)
(* symmetries of every invariant checked.                                  *)
(***************************************************************************)
EXTENDS JobHub, TLC

PidSymmetry == Permutations(Pids)
=============================================================================
