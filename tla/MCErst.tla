-------------------------------- MODULE MCErst --------------------------------
(* Values and symmetry for Erst. *)
EXTENDS ErstProperties

IdSymmetry == Permutations(Id)
=============================================================================
