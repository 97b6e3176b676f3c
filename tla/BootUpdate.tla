----------------------------- MODULE BootUpdate -----------------------------
(****************************************************************************)
(* The whole: boot ROM, capsules, the boot chain update and an OS that asks *)
(* for switches, writes the status, leaves capsules and restarts, with      *)
(* power lost at any step.                                                  *)
(****************************************************************************)
EXTENDS BootChain, FmpCapsule

(* The OS writes and deletes the two variables it may write, in any order,  *)
(* with any contents, and never has to.  It may withdraw a request, ...     *)
OsSetNext ==
    /\ At("os") /\ used.requests < MaxRequests
    /\ \E next \in Chain \cup {None, BadNext, Unreadable} : Put("next", next)
    /\ used' = [used EXCEPT !.requests = @ + 1]
    /\ UNCHANGED <<fixed, flash, reg, boot, brBctFlag, run, pending, asked>>

OsClearStatus ==
    /\ At("os") /\ nv.status # None
    /\ Delete("status")
    /\ Success
    /\ UNCHANGED <<fixed, flash, reg, boot, brBctFlag, run, pending>>

(* ... and write the status of an update itself: a value of the wrong size, *)
(* those that the code tests for, and one for all the others, which the     *)
(* code treats alike.                                                       *)
OtherStatus == "other status"
OsStatus == {Unreadable, SUCCESS, IN_PROGRESS, MAX_UINT32, OtherStatus}

OsSetStatus ==
    /\ At("os") /\ used.requests < MaxRequests
    /\ \E status \in OsStatus :
         /\ Put("status", status)
         /\ asked' = [asked EXCEPT !.forged = @ \/ status = IN_PROGRESS]
    /\ used' = [used EXCEPT !.requests = @ + 1]
    /\ UNCHANGED <<fixed, flash, reg, boot, brBctFlag, run, pending>>

OsLeaveCapsule ==
    /\ At("os") /\ pending = None /\ MayHappen
    /\ pending' \in Version
    /\ used' = [used EXCEPT !.capsules = @ + 1]
    /\ UNCHANGED <<fixed, nv, flash, reg, boot, brBctFlag, run, asked>>

OsRestart ==
    /\ At("os")
    /\ Restart
    /\ Success
    /\ UNCHANGED <<fixed, nv, flash, reg, pending>>

OsStep == OsSetNext \/ OsClearStatus \/ OsSetStatus \/ OsLeaveCapsule \/ OsRestart

-----------------------------------------------------------------------------
(* The factory: both chains hold the first version, the BCT names chain A.  *)
Init ==
    /\ platform \in Platforms
    /\ autoUpdate \in BOOLEAN
    /\ nv = [next |-> None, status |-> None, previous |-> None, count |-> None]
    /\ slots = [s \in SlotNumbers |-> IF platform.marker /\ s % 2 = 1 THEN "B" ELSE "A"]
    /\ backup = [c \in Chain |-> TRUE]
    /\ image = [c \in Chain |-> [i \in Images |-> FirstVersion]]
    /\ reg = RegAfterPowerLoss
    /\ boot = None
    /\ brBctFlag = FALSE
    /\ run = Idle
    /\ pending = None
    /\ used = [losses |-> 0, faults |-> 0, nvFaults |-> 0, requests |-> 0, capsules |-> 0,
               tornCopied |-> FALSE]
    /\ asked = [from |-> None, disturbed |-> FALSE, forged |-> FALSE]

Firmware == PowerOn \/ CapsuleStep \/ BootChainStep \/ UpdateFwChain
Next == Firmware \/ OsStep \/ PowerLoss

(* The firmware runs on one processor and never waits for the OS.           *)
Spec == Init /\ [][Next]_vars /\ WF_vars(Firmware)
=============================================================================
