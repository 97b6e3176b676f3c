-------------------------------- MODULE ErstOrder --------------------------------
(****************************************************************************)
(* The order of the records as an OS sees it.  told is what an OS that      *)
(* enumerates the records between two requests was told last; an OS that    *)
(* starts again after a power loss has been told nothing.                   *)
(****************************************************************************)
EXTENDS ErstProperties

VARIABLE told

Ids(list) == [k \in 1..Len(list) |-> list[k].id]

OrderInit == Init /\ told = <<>>
OrderNext ==
    /\ Next
    /\ told' = IF mode' = "off" THEN <<>>
               ELSE IF mode' = "up" /\ stack' = <<>> /\ pending' = NoReq
                 THEN Ids(tab'.list) ELSE told
OrderSpec == OrderInit /\ [][OrderNext]_<<vars, told>>

Before(s, i, j) == \E m, n \in 1..Len(s) : m < n /\ s[m] = i /\ s[n] = j

(* Records are never reordered relative to each other, which the Linux      *)
(* driver relies on: not when one is deleted, replaced, or moved to another *)
(* block (ErstDeallocateRecord, ErstWriteRecord).                           *)
OrderKept ==
    [][\A i, j \in Id : Before(told, i, j) => ~Before(told', j, i)]_<<vars, told>>
=============================================================================
