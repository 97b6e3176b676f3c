---------------------------- MODULE MCErstRecords ----------------------------
(* Model values and symmetry for the record protocol. *)
EXTENDS ErstRecords, TLC

Symmetry == Permutations(Slot) \cup Permutations(Id) \cup Permutations(Val)
=============================================================================
