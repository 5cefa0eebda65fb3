---------------------------- MODULE MCOrderIntake ----------------------------
(* Small instances of OrderIntake for TLC. *)
EXTENDS OrderIntake, TLC

Symmetry == Permutations(Deliveries) \cup Permutations(Sweeps) \cup Permutations(Files)
=============================================================================
