------------------------------ MODULE MCSettlement ------------------------------
(* Small instances of Settlement for TLC. *)
EXTENDS Settlement, TLC

Symmetry == Permutations(Procs)
================================================================================
