----------------------------- MODULE L4TLauncher -----------------------------
(****************************************************************************)
(* L4TLauncher, the loader that the boot manager starts once the firmware   *)
(* is ready: ValidateRootfsStatus picks the slot of the root file system by *)
(* the retries left to each slot, or the recovery kernel, and the launcher  *)
(* starts the kernel of that slot.  Retries live in a scratch register that *)
(* survives resets, the status of a slot in a variable; leaving a slot for  *)
(* the other is a request to BootChainDxe and a reset.                      *)
(*                                                                          *)
(* Left out: which of GRUB, extlinux and the boot partition starts the      *)
(* kernel (only whether one does), RCM boot and booting from an ISO, and    *)
(* levels of redundancy other than the two that the code knows.             *)
(****************************************************************************)
EXTENDS BootMachine

CONSTANTS
    RetryMax,    \* RootfsRetryCountMax, a locked variable: 3
    Override     \* slots that a boot option may force

ASSUME RetryAssumption == RetryMax \in Nat
ASSUME OverrideAssumption == Override \subseteq {"A", "B"}
ASSUME NoCountAssumption == None \notin [{"A", "B"} -> 0..3]

VARIABLES
    redundancy,  \* RootfsRedundancyLevel, fixed
    override,    \* the slot the boot option forces, None for none, fixed
    bootMode,    \* L4TDefaultBootMode: "kernel" or "recovery"
    status,      \* RootfsStatusSlotA and B
    retry,       \* scratch register: retries of each slot, None: no magic
    osCurrent,   \* BootChainOsCurrent, a volatile variable
    launcher,    \* where the launcher is, and mRootfsInfo
    healthy,     \* slot -> its kernel and root file system come up
    spent        \* history: retries spent, the starts of a slot that validation
                 \* took a retry for and that did not come up; it takes none
                 \* while a variable cannot be read (VariableUnreadable)

rootfsFixed == <<redundancy, override>>
rootfsVars == <<rootfsFixed, bootMode, status, retry, osCurrent, launcher, healthy, spent>>

BOOT_ONLY == "boot only"
BOOT_ROOTFS == "boot and rootfs"
NORMAL == "normal"
UNBOOTABLE == "unbootable"

(* at: place in the code; slot: CurrentSlot; recovery: BootMode; status:    *)
(* the variables as read and changed in memory; flagged: the slots whose    *)
(* status is to be written; next: BootChainFwNext is to be written.         *)
NotStarted == [at |-> "off", slot |-> None, recovery |-> FALSE,
               status |-> [c \in Chain |-> NORMAL], flagged |-> {}, next |-> FALSE]

Launcher(label) == At("os") /\ launcher.at = label
Proceed(label) == launcher' = [launcher EXCEPT !.at = label]

MachineUnchanged ==
    UNCHANGED <<fixed, flash, reg, boot, brBctFlag, run, pending>>

-----------------------------------------------------------------------------
(* ProcessBootParams and ValidateRootfsStatus.                              *)

(* The slot before validation: the option, else the slot of an earlier run  *)
(* of the launcher in this boot, else the chain of the firmware.            *)
BootParamsChain ==
    IF override # None THEN override ELSE IF osCurrent # None THEN osCurrent ELSE boot

CurrentSlot == IF redundancy = BOOT_ONLY THEN "A" ELSE BootParamsChain

IsValidRootfs(st) ==
    \E c \in Chain : (redundancy = BOOT_ONLY => c = "A") /\ st[c] # UNBOOTABLE

(* The register as left by the boots before, or set afresh.  A count has    *)
(* two bits.                                                                *)
InitializeRootfsStatusReg ==
    IF retry # None THEN retry
    ELSE [c \in Chain |-> IF status[c] = UNBOOTABLE THEN 0 ELSE RetryMax % 4]

IsRootfsSlotBootable(c) == InitializeRootfsStatusReg[c] # 0

DecreaseRootfsRetryCount(c) ==
    retry' = [InitializeRootfsStatusReg EXCEPT ![c] = @ - 1]

(* What validation leaves in memory.                                        *)
Validated(label, slot, recovery, unbootable, next) ==
    launcher' = [at |-> label, slot |-> slot, recovery |-> recovery,
                 status |-> [c \in Chain |-> IF c \in unbootable THEN UNBOOTABLE
                                             ELSE status[c]],
                 flagged |-> unbootable, next |-> next]

RecoveryRequested ==
    /\ bootMode = "recovery"
    /\ Validated("store", BootParamsChain, TRUE, {}, FALSE)
    /\ retry' = retry

Unreadables == {name \in {"next", "status"} : nv[name] = "unreadable"}

(* A variable of the wrong size ends the validation, and the launcher goes  *)
(* on as if the slot had been accepted: it is started at every boot, no     *)
(* retry is taken, and nothing bounds how often that happens.               *)
VariableUnreadable ==
    /\ bootMode # "recovery" /\ Unreadables # {}
    /\ Validated("store", BootParamsChain, FALSE, {}, FALSE)
    /\ retry' = retry

Readable == bootMode # "recovery" /\ Unreadables = {}

NoValidRootfs ==
    /\ Readable /\ ~IsValidRootfs(status)
    /\ Validated("store", BootParamsChain, TRUE, {}, FALSE)
    /\ retry' = None

CurrentSlotBootable ==
    /\ Readable /\ IsValidRootfs(status)
    /\ IsRootfsSlotBootable(CurrentSlot)
    /\ DecreaseRootfsRetryCount(CurrentSlot)
    /\ Validated("write", CurrentSlot, FALSE, {}, FALSE)

Exhausted ==
    Readable /\ IsValidRootfs(status) /\ ~IsRootfsSlotBootable(CurrentSlot)

(* There is no other slot.  The register is left without its magic.         *)
OnlySlotExhausted ==
    /\ Exhausted /\ redundancy = BOOT_ONLY
    /\ Validated("write", CurrentSlot, TRUE, {CurrentSlot}, FALSE)
    /\ retry' = None

(* A faulty variant: the slot that is left keeps its status. *)
SwitchSlotSilently ==
    /\ Exhausted /\ redundancy = BOOT_ROOTFS
    /\ IsRootfsSlotBootable(Other(CurrentSlot))
    /\ DecreaseRootfsRetryCount(Other(CurrentSlot))
    /\ Validated("write", Other(CurrentSlot), FALSE, {}, TRUE)

(* A faulty variant: the slot that is switched to loses its status. *)
SwitchSlotWrongStatus ==
    /\ Exhausted /\ redundancy = BOOT_ROOTFS
    /\ IsRootfsSlotBootable(Other(CurrentSlot))
    /\ DecreaseRootfsRetryCount(Other(CurrentSlot))
    /\ Validated("write", Other(CurrentSlot), FALSE, {Other(CurrentSlot)}, TRUE)

SwitchSlot ==
    /\ Exhausted /\ redundancy = BOOT_ROOTFS
    /\ IsRootfsSlotBootable(Other(CurrentSlot))
    /\ DecreaseRootfsRetryCount(Other(CurrentSlot))
    /\ Validated("write", Other(CurrentSlot), FALSE, {CurrentSlot}, TRUE)

(* A faulty variant: only the current slot gets its status. *)
BothSlotsExhaustedOne ==
    /\ Exhausted /\ redundancy = BOOT_ROOTFS
    /\ ~IsRootfsSlotBootable(Other(CurrentSlot))
    /\ Validated("write", CurrentSlot, TRUE, {CurrentSlot}, FALSE)
    /\ retry' = None

BothSlotsExhausted ==
    /\ Exhausted /\ redundancy = BOOT_ROOTFS
    /\ ~IsRootfsSlotBootable(Other(CurrentSlot))
    /\ Validated("write", CurrentSlot, TRUE, Chain, FALSE)
    /\ retry' = None

ValidateRootfsStatus ==
    /\ Launcher("off")
    /\ \/ RecoveryRequested \/ VariableUnreadable \/ NoValidRootfs
       \/ CurrentSlotBootable \/ OnlySlotExhausted
       \/ SwitchSlot \/ BothSlotsExhausted
    /\ Success /\ nv' = nv /\ MachineUnchanged
    /\ UNCHANGED <<rootfsFixed, bootMode, status, osCurrent, healthy, spent>>

-----------------------------------------------------------------------------
(* CheckAndUpdateVariable: slot A, slot B, Next; the first write that fails *)
(* is the last.  It is only logged.                                         *)
Written == IF launcher.next THEN "clear" ELSE "store"

FirstFlagged == {c \in launcher.flagged : c = "A" \/ launcher.flagged = {"B"}}

WriteStatus ==
    /\ Launcher("write")
    /\ \E c \in FirstFlagged :
         \/ /\ status' = [status EXCEPT ![c] = UNBOOTABLE]
            /\ launcher' = [launcher EXCEPT !.flagged = @ \ {c}]
            /\ Success /\ nv' = nv
         \/ NvFault /\ Proceed(Written) /\ status' = status
    /\ MachineUnchanged
    /\ UNCHANGED <<rootfsFixed, bootMode, retry, osCurrent, healthy, spent>>

(* A faulty variant: no reset when the request could not be written. *)
WriteNextOrGoOn ==
    /\ Launcher("write") /\ launcher.flagged = {}
    /\ \/ Put("next", launcher.slot) /\ launcher.next /\ Success /\ Proceed("clear")
       \/ NvFault /\ launcher.next /\ Proceed("store")
       \/ ~launcher.next /\ Success /\ nv' = nv /\ Proceed("store")
    /\ MachineUnchanged
    /\ UNCHANGED <<rootfsFixed, bootMode, status, retry, osCurrent, healthy, spent>>

WriteNext ==
    /\ Launcher("write") /\ launcher.flagged = {}
    /\ \/ /\ launcher.next
          /\ \/ Put("next", launcher.slot) /\ Success
             \/ NvFault
       \/ ~launcher.next /\ Success /\ nv' = nv
    /\ Proceed(Written)
    /\ MachineUnchanged
    /\ UNCHANGED <<rootfsFixed, bootMode, status, retry, osCurrent, healthy, spent>>

(* A faulty variant: the status of the last update is left. *)
ClearForSwitchKeepsStatus ==
    /\ Launcher("clear")
    /\ retry' = None
    /\ Success /\ nv' = nv
    /\ Proceed("reset")
    /\ MachineUnchanged
    /\ UNCHANGED <<rootfsFixed, bootMode, status, osCurrent, healthy, spent>>

(* The switch: the register is cleared and the status of the boot chain     *)
(* update deleted, so that BootChainDxe takes the request, whether or not   *)
(* the request could be written.                                            *)
ClearForSwitch ==
    /\ Launcher("clear")
    /\ retry' = None
    /\ \/ Delete("status") /\ Success
       \/ NvFault
    /\ Proceed("reset")
    /\ MachineUnchanged
    /\ UNCHANGED <<rootfsFixed, bootMode, status, osCurrent, healthy, spent>>

(* A reset, from wherever the launcher or the kernel is.                    *)
ResetLauncher ==
    /\ launcher' = NotStarted
    /\ osCurrent' = None

ResetSystem ==
    /\ Restart /\ ResetLauncher
    /\ Success
    /\ UNCHANGED <<fixed, nv, flash, reg, pending>>
    /\ UNCHANGED <<rootfsFixed, bootMode, status, retry, healthy>>

ResetForSwitch == Launcher("reset") /\ ResetSystem /\ spent' = spent

-----------------------------------------------------------------------------
(* The kernel.  One that is not healthy fails to load, or hangs until the   *)
(* watchdog resets the machine.                                             *)
Store ==
    /\ Launcher("store")
    /\ osCurrent' = launcher.slot
    /\ Proceed(IF launcher.recovery THEN "start recovery" ELSE "start")
    /\ Success /\ nv' = nv /\ MachineUnchanged
    /\ UNCHANGED <<rootfsFixed, bootMode, status, retry, healthy, spent>>

(* The retries spent once the slot in memory is started: one more, if       *)
(* validation has come so far as to take one.  Starts of a slot while a     *)
(* variable is unreadable are not in it.  The history stops at the bound.   *)
MaxSpent == 2 * RetryMax
Spent ==
    [c \in Chain |->
        IF c = launcher.slot /\ Unreadables = {} /\ spent[c] < MaxSpent
          THEN spent[c] + 1 ELSE spent[c]]

StartKernel ==
    /\ Launcher("start")
    /\ Proceed("kernel")
    /\ spent' = Spent
    /\ Success /\ nv' = nv /\ MachineUnchanged
    /\ UNCHANGED <<rootfsFixed, bootMode, status, retry, osCurrent, healthy>>

(* No way to boot the slot works.  The boot manager gets control back when  *)
(* it was the image of GRUB that returned or no slot is left.               *)
KernelReturns ==
    /\ Launcher("start") /\ ~healthy[launcher.slot]
    /\ Proceed("returned")
    /\ spent' = Spent
    /\ Success /\ nv' = nv /\ MachineUnchanged
    /\ UNCHANGED <<rootfsFixed, bootMode, status, retry, osCurrent, healthy>>

KernelResets ==
    /\ Launcher("start") /\ ~healthy[launcher.slot]
    /\ IsValidRootfs(launcher.status)
    /\ ResetSystem
    /\ spent' = Spent

StartRecovery ==
    /\ Launcher("start recovery")
    /\ Proceed("recovery") \/ Proceed("returned")
    /\ Success /\ nv' = nv /\ MachineUnchanged
    /\ UNCHANGED <<rootfsFixed, bootMode, status, retry, osCurrent, healthy, spent>>

(* The boot manager, or the user in its menu, starts the launcher again.    *)
StartAgain ==
    /\ Launcher("returned")
    /\ launcher' = NotStarted
    /\ Success /\ nv' = nv /\ MachineUnchanged
    /\ UNCHANGED <<rootfsFixed, bootMode, status, retry, osCurrent, healthy, spent>>

LauncherStep ==
    \/ ValidateRootfsStatus
    \/ WriteStatus \/ WriteNext \/ ClearForSwitch \/ ResetForSwitch
    \/ Store \/ StartKernel \/ KernelReturns \/ KernelResets \/ StartRecovery
=============================================================================
