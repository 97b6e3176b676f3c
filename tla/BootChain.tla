------------------------------ MODULE BootChain ------------------------------
(****************************************************************************)
(* BootChainDxe: the switch of the firmware boot chain that the OS asks for *)
(* with the variables BootChainFwNext and BootChainFwStatus.  ExecuteUpdate *)
(* runs once per boot, after the capsules.  It decides by the status left   *)
(* by the boots before: a new request is recorded (Previous, IN_PROGRESS,   *)
(* ResetCount), the BCT is rewritten and the machine reset; the next boot   *)
(* sees whether the new chain came up, closes the books and, if it did not  *)
(* succeed, switches the BCT back.                                          *)
(****************************************************************************)
EXTENDS BootMachine

(* Values of BootChainFwNext that are no chain: a number too large, and a   *)
(* variable that cannot be read as 32 bits.                                 *)
BadNext == "bad chain"
Unreadable == "unreadable"

(* Values of BootChainFwStatus.  MAX_UINT32 is also what BCStatus starts    *)
(* from, which is None here until a status has been read or decided.        *)
SUCCESS == "SUCCESS"
IN_PROGRESS == "IN_PROGRESS"
MAX_UINT32 == "MAX_UINT32"

Fail(status) == run' = [run EXCEPT !.at = "set status", !.status = status]
Finish(status) == run' = [run EXCEPT !.at = "finish", !.status = status]

Quiet == UNCHANGED <<fixed, flash, boot, brBctFlag, pending>>

-----------------------------------------------------------------------------
(* The start of BootChainExecuteUpdate: read Next and Status and decide.    *)
NoRequest ==
    /\ nv.next = None
    /\ Goto("boot os")
    /\ asked' = asked

RequestUnreadable ==
    /\ nv.next = Unreadable
    /\ Fail("ERROR_READING_NEXT")
    /\ asked' = asked

StatusUnreadable ==
    /\ nv.next \notin {None, Unreadable}
    /\ nv.status = Unreadable
    /\ Fail("ERROR_READING_STATUS")
    /\ asked' = asked

Pending == nv.next \in {"A", "B", BadNext}

(* A new request.  The checks that refuse it come in this order.            *)
NewRequest(bootNext) ==
    /\ Pending /\ nv.status = None
    /\ asked' = [from |-> boot, disturbed |-> FALSE, forged |-> FALSE]
    /\ \/ nv.next = BadNext /\ Fail("ERROR_BAD_BOOT_CHAIN_NEXT")
       \/ nv.next # BadNext /\ bootNext /\ Fail("ERROR_BOOT_NEXT_EXISTS")
       \/ /\ nv.next # BadNext /\ ~bootNext
          /\ \/ nv.next = boot /\ Fail("ERROR_NO_OPERATION_REQUIRED")
             \/ nv.next # boot /\ brBctFlag /\ Fail("ERROR_UPDATE_BR_BCT_FLAG_SET")
             \/ /\ nv.next # boot /\ ~brBctFlag /\ BootChainIsFailed(nv.next)
                /\ Fail("ERROR_BOOT_CHAIN_IS_FAILED")
             \/ /\ nv.next # boot /\ ~brBctFlag /\ ~BootChainIsFailed(nv.next)
                /\ Goto("save previous")

(* A faulty variant: having come back from the reset is taken for success. *)
SwitchWorkedAnyChain ==
    /\ Pending /\ nv.status = IN_PROGRESS
    /\ Goto("report success")
    /\ asked' = asked

(* The boot after the switch: did the machine come up on the new chain?     *)
SwitchWorked ==
    /\ Pending /\ nv.status = IN_PROGRESS /\ nv.next = boot
    /\ Goto("report success")
    /\ asked' = asked

SwitchFailed ==
    /\ Pending /\ nv.status = IN_PROGRESS /\ nv.next # boot
    /\ Fail("ERROR_BOOT_CHAIN_FAILED")
    /\ asked' = asked

(* A status was left by the boots before: only close the books.             *)
AlreadyDecided ==
    /\ Pending /\ nv.status \notin {None, IN_PROGRESS, Unreadable}
    /\ Finish(nv.status)
    /\ asked' = asked

ExecuteUpdate ==
    /\ At("execute")
    /\ \/ NoRequest
       \/ RequestUnreadable
       \/ StatusUnreadable
       \/ \E bootNext \in BOOLEAN : NewRequest(bootNext)
       \/ SwitchWorked
       \/ SwitchFailed
       \/ AlreadyDecided
    /\ UNCHANGED <<nv, reg, used>> /\ Quiet

-----------------------------------------------------------------------------
(* The switch: three variables, the BCT, a reset.  A step whose write fails *)
(* ends the update with the status given.                                   *)
Record(label, name, value, next, error) ==
    /\ At(label)
    /\ \/ Put(name, value) /\ Goto(next) /\ Success
       \/ NvFault /\ Fail(error)
    /\ reg' = reg /\ Quiet

SavePrevious ==
    Record("save previous", "previous", boot, "set in progress",
           "ERROR_SETTING_PREVIOUS")

SetInProgress ==
    Record("set in progress", "status", IN_PROGRESS, "count reset",
           "ERROR_SETTING_IN_PROGRESS")

ResetCount == IF nv.count = None THEN 0 ELSE nv.count

(* A faulty variant: the limit is not checked. *)
CountResetUnchecked ==
    Record("count reset", "count", ResetCount + 1, "switch",
           "ERROR_SETTING_RESET_COUNT")

CountReset ==
    /\ ResetCount < MAX_RESET_COUNT
    /\ Record("count reset", "count", ResetCount + 1, "switch",
              "ERROR_SETTING_RESET_COUNT")

TooManyResets ==
    /\ At("count reset") /\ ResetCount >= MAX_RESET_COUNT
    /\ Fail("ERROR_MAX_RESET_COUNT")
    /\ Success
    /\ UNCHANGED <<nv, reg>> /\ Quiet

Switch ==
    /\ At("switch")
    /\ reg' = ValidateActiveBootChain(reg)
    /\ CallUpdateFwChain(nv.next, "reset")
    /\ Success
    /\ nv' = nv /\ Quiet

SwitchGivesUp ==
    /\ At("slots failed") /\ run.ret = "reset" /\ run.status = None
    /\ Fail("ERROR_UPDATING_FW_CHAIN")
    /\ Success
    /\ UNCHANGED <<nv, reg>> /\ Quiet

(* BootChainReset, after either switch.                                     *)
ResetToChain ==
    /\ At("reset")
    /\ Restart
    /\ Success
    /\ UNCHANGED <<fixed, nv, flash, reg, pending>>

-----------------------------------------------------------------------------
(* The end of an update.  The result of setting Status or of deleting a     *)
(* variable is ignored.                                                     *)
ReportSuccess ==
    /\ At("report success")
    /\ \/ Put("status", SUCCESS) /\ Success
       \/ NvFault
    /\ Finish(SUCCESS)
    /\ reg' = reg /\ Quiet

SetStatus ==
    /\ At("set status")
    /\ \/ Put("status", run.status) /\ Success
       \/ NvFault
    /\ Goto("finish")
    /\ reg' = reg /\ Quiet

(* BootChainFinishUpdate: chain is the one to go back to, None for none.    *)
FinishUpdate ==
    /\ At("finish")
    /\ run' = [run EXCEPT !.at = "delete previous",
                 !.chain = IF run.status # SUCCESS /\ nv.previous # boot
                             THEN nv.previous ELSE None]
    /\ Success
    /\ UNCHANGED <<nv, reg>> /\ Quiet

Erase(label, name, next) ==
    /\ At(label)
    /\ \/ Delete(name) /\ Success
       \/ NvFault
    /\ Goto(next)
    /\ reg' = reg /\ Quiet

(* Faulty variants: a variable is left behind. *)
DeletePreviousForgotten ==
    /\ At("delete previous")
    /\ Goto("delete next")
    /\ Success
    /\ UNCHANGED <<nv, reg>> /\ Quiet

DeleteNextForgotten ==
    /\ At("delete next")
    /\ Goto("delete count")
    /\ Success
    /\ UNCHANGED <<nv, reg>> /\ Quiet

DeletePrevious == Erase("delete previous", "previous", "delete next")
DeleteNext == Erase("delete next", "next", "delete count")
DeleteResetCount == Erase("delete count", "count", "restore")

(* Once an update is closed, the BCT is only looked at if the status was    *)
(* MAX_UINT32, which BCStatus holds where there is no update.               *)
AfterUpdate == IF run.status = MAX_UINT32 THEN "boot os" ELSE "ready to boot"

Restore ==
    /\ At("restore")
    /\ \/ run.chain # None /\ CallUpdateFwChain(run.chain, "reset")
       \/ run.chain = None /\ Goto(AfterUpdate)
    /\ Success
    /\ UNCHANGED <<nv, reg>> /\ Quiet

RestoreGivesUp ==
    /\ At("slots failed") /\ run.ret = "reset" /\ run.status # None
    /\ Goto(AfterUpdate)
    /\ Success
    /\ UNCHANGED <<nv, reg>> /\ Quiet

-----------------------------------------------------------------------------
(* No update: rewrite the BCT for the chain that started when the other one *)
(* failed and AutoUpdateBrBct asks for it.                                  *)
BootOs ==
    /\ At("boot os")
    /\ \/ autoUpdate /\ brBctFlag /\ CallUpdateFwChain(boot, "clear flag")
       \/ ~(autoUpdate /\ brBctFlag) /\ Goto("ready to boot")
    /\ Success
    /\ UNCHANGED <<nv, reg>> /\ Quiet

ClearFlag ==
    /\ \/ At("clear flag")
       \/ At("slots failed") /\ run.ret = "clear flag"
    /\ ClearUpdateBrBctFlag
    /\ Goto("ready to boot")
    /\ Success
    /\ nv' = nv /\ Quiet

(* The OS loader starts: BootChainReadyToBootNotify.                        *)
ReadyToBoot ==
    /\ At("ready to boot")
    /\ reg' = ValidateActiveBootChain(reg)
    /\ Enter("os")
    /\ Success
    /\ nv' = nv /\ Quiet

BootChainStep ==
    \/ ExecuteUpdate
    \/ SavePrevious \/ SetInProgress \/ CountReset \/ TooManyResets
    \/ Switch \/ SwitchGivesUp \/ ResetToChain
    \/ ReportSuccess \/ SetStatus \/ FinishUpdate
    \/ DeletePrevious \/ DeleteNext \/ DeleteResetCount
    \/ Restore \/ RestoreGivesUp
    \/ BootOs \/ ClearFlag \/ ReadyToBoot
=============================================================================
