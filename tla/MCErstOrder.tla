------------------------------ MODULE MCErstOrder ------------------------------
(* Values and symmetry for ErstOrder.  The ids are only compared for equality  *)
(* there as well, so permuting them is sound for OrderKept.                    *)
EXTENDS ErstOrder

IdSymmetry == Permutations(Id)
=============================================================================
