------------------------------ MODULE MCVarInt ------------------------------
(***************************************************************************)
(* Two blocks of two records, so that every second record starts a block   *)
(* and erases the other one; three contents, for the old content, the new  *)
(* one and a wrong guess; two faults of the flash, anywhere, and any       *)
(* number of power losses.                                                 *)
(***************************************************************************)
EXTENDS VarIntProperties
=============================================================================
