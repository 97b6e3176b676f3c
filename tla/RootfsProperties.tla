-------------------------- MODULE RootfsProperties --------------------------
(* What the choice of the root file system promises.                        *)
EXTENDS RootfsSystem, BootProperties

(* Two-bit retry counts, one slot in memory, and Next written only with the *)
(* slot in memory.                                                          *)
RootfsTypeOK ==
    /\ status \in [Chain -> {NORMAL, UNBOOTABLE}]
    /\ retry = None \/ retry \in [Chain -> 0..3]
    /\ osCurrent \in Chain \cup {None}
    /\ launcher.slot \in Chain \cup {None} /\ launcher.flagged \subseteq Chain
    /\ (launcher.at # "off" => At("os"))

(* A slot that does not come up gets RootfsRetryCountMax retries and no     *)
(* more, counted since it last came up, was written anew, or power was lost,*)
(* although the register that counts is cleared at every switch and set up  *)
(* afresh after it, as long as no write to a variable or a slot failed and  *)
(* no torn backup was copied (ValidateRootfsStatus: "Clear the rootfs       *)
(* status register before issuing a reset").  It bounds the starts for      *)
(* which validation takes a retry, also those before and after a time when  *)
(* a variable is unreadable; the starts within that time take none and are  *)
(* without bound (L4TRootfsValidation.c:653-661, ignored by the launcher).  *)
RetriesBounded ==
    used.nvFaults + used.faults = 0 /\ ~used.tornCopied
      => \A c \in Chain : spent[c] <= RetryMax

(* A slot is declared unbootable only when all its retries have been used   *)
(* (IsRootfsSlotBootable): never because of a restart by the firmware or    *)
(* the user of a slot that still has some.                                  *)
UnbootableMeansTried ==
    [][\A c \in Chain : status[c] = NORMAL /\ status'[c] = UNBOOTABLE
            => spent[c] >= RetryMax]_allVars

(* The kernel that starts is that of the chain the firmware runs from: the  *)
(* code says "Rootfs slot is always linked with bootloader chain", whatever *)
(* variable write fails on the way, unless the boot option forces a slot.   *)
KernelFollowsChain ==
    launcher.at \in {"start", "kernel", "up"} /\ redundancy = BOOT_ROOTFS /\ override = None
        => launcher.slot = boot

(* The recovery kernel runs only on request or when no slot is left.        *)
RecoveryIsLast ==
    launcher.at = "start recovery" /\ bootMode # "recovery" /\ used.nvFaults = 0
        => ~IsValidRootfs(status)

(* A machine whose two firmware chains start does not reset itself for      *)
(* ever: some kernel or the recovery kernel comes up, or the boot manager   *)
(* gets control back, unless a slot is forced, a write failed, a variable   *)
(* cannot be read, or BootChainDxe refuses the switch, which the launcher   *)
(* asks for again at every boot.                                            *)
Refusals == {"ERROR_BOOT_NEXT_EXISTS", "ERROR_UPDATE_BR_BCT_FLAG_SET",
             "ERROR_BOOT_CHAIN_IS_FAILED"}
Settled ==
    \/ launcher.at \in {"up", "recovery", "returned"}
    \/ override # None \/ used.nvFaults + used.faults > 0 \/ Unreadables # {} \/ Bricked
    \/ nv.status \in Refusals
    \/ \E c \in Chain : ~Startable(c)
Settles == []<>Settled
=============================================================================
