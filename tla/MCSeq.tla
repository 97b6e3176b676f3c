------------------------------- MODULE MCSeq --------------------------------
(***************************************************************************)
(* Model checking of the sequential record storage.                        *)
(***************************************************************************)
EXTENDS SeqProperties
=============================================================================
