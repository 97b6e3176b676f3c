------------------------------- MODULE MCBpmp -------------------------------
(* Three calls: one that is interrupted, and one of either kind that comes  *)
(* in between.                                                              *)
EXTENDS BpmpProperties
=============================================================================
