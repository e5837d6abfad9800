---------------------------- MODULE MCStateFile ----------------------------
(* StateFile on small sets of processes, fields and values. *)
EXTENDS StateFile, TLC
Symmetry == Permutations(Procs) \cup Permutations(Values)
=============================================================================
