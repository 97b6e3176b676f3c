------------------------------- MODULE MCRootfs -------------------------------
(* The two platforms of the repository.                                     *)
EXTENDS RootfsProperties

T234 == [slots |-> 4, marker |-> FALSE, failBits |-> FALSE]
T264 == [slots |-> 3, marker |-> TRUE, failBits |-> TRUE]
Both == {T234, T264}
=============================================================================
