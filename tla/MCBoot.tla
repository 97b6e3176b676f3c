-------------------------------- MODULE MCBoot --------------------------------
(* The two platforms of the repository that switch chains through BR-BCT:   *)
(* T234 with four plain slots and no fail bits, T264 with three slots whose *)
(* number decides the chain.                                                *)
EXTENDS BootProperties

T234 == [slots |-> 4, marker |-> FALSE, failBits |-> FALSE]
T264 == [slots |-> 3, marker |-> TRUE, failBits |-> TRUE]
Both == {T234, T264}
=============================================================================
