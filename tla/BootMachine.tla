----------------------------- MODULE BootMachine -----------------------------
(****************************************************************************)
(* A machine with two firmware boot chains: the storage that decides which  *)
(* chain starts (BCT slots, their backup, the images of both chains), the   *)
(* UEFI variables of a boot chain update, the scratch register, and the     *)
(* library that switches chains (BrBctUpdateDeviceLib).  The boot ROM and   *)
(* MB1, which read all this at reset, are outside the repository.           *)
(*                                                                          *)
(* One step is at most one write to flash or to one variable, so that power *)
(* can be lost between any two of them; a write that is cut short leaves a  *)
(* torn slot or image.  Variable writes are atomic (the variable driver).   *)
(****************************************************************************)
EXTENDS Integers

CONSTANTS
    Version,     \* firmware versions
    FirstVersion,\* the one both chains hold at the factory
    Broken,      \* versions that install but do not start
    Regular,     \* number of images of a chain besides mb1
    Platforms,   \* the platforms considered: [slots, marker, failBits]
    MAX_RESET_COUNT, \* BOOT_CHAIN_MAX_RESET_COUNT, 3 in the code
    MaxEvents,   \* bound: power losses, writes that report an error, capsules
    MaxRequests, \* bound: writes of BootChainFwNext by the OS
    None, Torn

ASSUME VersionAssumption ==
    /\ FirstVersion \in Version \ Broken
    /\ Torn \notin Version
ASSUME RegularAssumption == Regular \in Nat
ASSUME PlatformAssumption ==
    \A p \in Platforms :
        p.slots \in Nat \ {0} /\ p.marker \in BOOLEAN /\ p.failBits \in BOOLEAN
ASSUME ResetCountAssumption == MAX_RESET_COUNT \in Nat \ {0}
ASSUME NoneAssumption == None \notin {"A", "B"}

VARIABLES
    platform,    \* the platform the machine is, fixed
    autoUpdate,  \* variable AutoUpdateBrBct is 1, fixed
    nv,          \* the non-volatile variables of an update
    slots,       \* BCT slot -> the chain whose BCT it holds, None when invalid
    backup,      \* chain -> its BCT in the backup partition is whole
    image,       \* chain -> image -> version, Torn when invalid; image 0 is mb1
    reg,         \* scratch register; survives a reset, not a power loss
    boot,        \* mBootChain, the chain this boot runs from; None when off
    brBctFlag,   \* mUpdateBrBctFlag of this boot
    run,         \* where the firmware is, and its local variables
    pending,     \* version of the capsule waiting to be processed
    used,        \* how often each bounded thing has happened, and history:
                 \* whether a torn backup has been copied to a slot
    asked        \* history of the request last examined: the chain that ran
                 \* then, whether power was lost or a write failed since, and
                 \* whether the OS has written IN_PROGRESS itself since

vars == <<platform, autoUpdate, nv, slots, backup, image, reg, boot, brBctFlag,
          run, pending, used, asked>>
flash == <<slots, backup, image>>
fixed == <<platform, autoUpdate>>

Chain == {"A", "B"}
Other(c) == IF c = "A" THEN "B" ELSE "A"
Images == 0..Regular
SlotNumbers == 0..(platform.slots - 1)

(* An image that MB1 accepts and that then starts the machine.              *)
Startable(c) == image[c][0] \in Version \ Broken

-----------------------------------------------------------------------------
(* Steps of the firmware.  at is the place in the code; status is BCStatus; *)
(* chain, slot and ret are the frame of UpdateFwChain; part is the image a  *)
(* capsule is writing, and reset whether a reset follows the capsule.       *)
Idle == [at |-> "off", status |-> None, chain |-> None, slot |-> 0,
         ret |-> None, part |-> 0, reset |-> FALSE]

At(label) == run.at = label
Goto(label) == run' = [run EXCEPT !.at = label]
Enter(label) == run' = [Idle EXCEPT !.at = label]

Success == UNCHANGED <<used, asked>>
MayHappen == used.losses + used.faults + used.nvFaults + used.capsules < MaxEvents
Disturbed == asked' = [asked EXCEPT !.disturbed = TRUE]
Fault == MayHappen /\ used' = [used EXCEPT !.faults = @ + 1] /\ Disturbed
NvFault ==
    /\ MayHappen /\ used' = [used EXCEPT !.nvFaults = @ + 1] /\ Disturbed
    /\ nv' = nv

Put(name, value) == nv' = [nv EXCEPT ![name] = value]
Delete(name) == Put(name, None)

(* A reset by the firmware or the OS: memory is lost, the register is not.  *)
Restart ==
    /\ run' = Idle
    /\ boot' = None
    /\ brBctFlag' = FALSE

-----------------------------------------------------------------------------
(* The scratch register of the chains.  failed: chains whose MB1 did not    *)
(* start; lastFailed: the chain of the BCT was not the one that started;    *)
(* next: the chain SetNextBootChain left for the boot ROM.                  *)
RegAfterPowerLoss == [failed |-> {}, lastFailed |-> FALSE, next |-> None]

ValidateActiveBootChain(r) == [r EXCEPT !.failed = @ \ {boot}]

BootChainIsFailed(c) == platform.failBits /\ c \in reg.failed

SetInactiveBootChainStatus(good) ==
    reg' = IF ~platform.failBits THEN reg
           ELSE [reg EXCEPT !.failed =
                     IF good THEN @ \ {Other(boot)} ELSE @ \cup {Other(boot)}]

ClearUpdateBrBctFlag ==
    reg' = [reg EXCEPT !.lastFailed = @ /\ ~platform.failBits]

SetNextBootChain(c) == reg' = [reg EXCEPT !.next = c]

-----------------------------------------------------------------------------
(* BrBctUpdateDeviceLib: which slots hold the BCT of a chain.  On a marker  *)
(* platform even slots are for A, odd ones for B, and B needs slot 0 gone.  *)
(* A faulty variant: slot 0 keeps chain A whatever chain is asked for. *)
SlotNeverInvalidated(s, c) == FALSE

SlotShouldBeInvalidated(s, c) == platform.marker /\ c = "B" /\ s = 0

SlotShouldBeUpdated(s, c) ==
    \/ ~platform.marker
    \/ s % 2 = (IF c = "A" THEN 0 ELSE 1)
    \/ SlotShouldBeInvalidated(s, c)

(* What the slot should hold: the BCT read from the backup partition.  A    *)
(* torn backup is copied unseen and leaves an invalid slot.                 *)
SlotData(s, c) ==
    IF backup[c] /\ ~SlotShouldBeInvalidated(s, c) THEN c ELSE None

SlotsLeft == {s \in 0..run.slot : SlotShouldBeUpdated(s, run.chain)}
HighestLeft == {s \in SlotsLeft : \A t \in SlotsLeft : t <= s}

CallUpdateFwChain(c, ret) ==
    run' = [run EXCEPT !.at = "slots", !.chain = c, !.ret = ret,
                       !.slot = platform.slots - 1]

(* One slot, highest first, written and read back.                          *)
WriteSlot ==
    /\ At("slots")
    /\ \E s \in HighestLeft :
         /\ slots' = [slots EXCEPT ![s] = SlotData(s, run.chain)]
         /\ run' = [run EXCEPT !.slot = s - 1]
    /\ used' = [used EXCEPT !.tornCopied = @ \/ ~backup[run.chain]]
    /\ UNCHANGED <<fixed, nv, backup, image, reg, boot, brBctFlag, pending, asked>>

(* The write or its verification fails: UpdateFwChain gives up.             *)
WriteSlotFails ==
    /\ At("slots")
    /\ \E s \in HighestLeft : slots' \in {slots, [slots EXCEPT ![s] = None]}
    /\ Goto("slots failed")
    /\ Fault
    /\ UNCHANGED <<fixed, nv, backup, image, reg, boot, brBctFlag, pending>>

SlotsWritten ==
    /\ At("slots") /\ SlotsLeft = {}
    /\ SetNextBootChain(run.chain)
    /\ Goto(run.ret)
    /\ Success
    /\ UNCHANGED <<fixed, nv, flash, boot, brBctFlag, pending>>

UpdateFwChain == WriteSlot \/ WriteSlotFails \/ SlotsWritten

-----------------------------------------------------------------------------
(* The boot ROM takes the first valid slot, or the chain the register       *)
(* names; MB1 of a chain that does not start hands over to the other one    *)
(* and says so in the register.                                             *)
FirstValid ==
    {s \in SlotNumbers : slots[s] # None /\ \A t \in 0..(s - 1) : slots[t] = None}

RomChoice ==
    {slots[s] : s \in FirstValid}
      \cup {c \in Chain : c = reg.next /\ \E s \in SlotNumbers : slots[s] = c}

PowerOn ==
    /\ At("off")
    /\ \E c \in RomChoice :
         \/ /\ Startable(c)
            /\ boot' = c
            /\ reg' \in {reg, [reg EXCEPT !.lastFailed = FALSE]}
         \/ /\ ~Startable(c) /\ Startable(Other(c))
            /\ boot' = Other(c)
            /\ reg' = [reg EXCEPT !.failed = @ \cup {c}, !.lastFailed = TRUE]
    /\ brBctFlag' = reg'.lastFailed
    /\ Enter("uefi")
    /\ UNCHANGED <<fixed, nv, flash, pending, used, asked>>

(* A write of the backup partition that is cut short: the partition is      *)
(* written whole, the other chain's copy changed, so that both may be torn. *)
BackupCutShort ==
    {backup, [backup EXCEPT ![Other(boot)] = FALSE], [c \in Chain |-> FALSE]}

(* Power is lost.  The slot, image or backup being written may be cut short.*)
PowerLoss ==
    /\ ~At("off") /\ MayHappen
    /\ used' = [used EXCEPT !.losses = @ + 1] /\ Disturbed
    /\ slots' \in {slots} \cup
         (IF At("slots") THEN {[slots EXCEPT ![s] = None] : s \in HighestLeft} ELSE {})
    /\ image' \in {image} \cup
         (IF run.at \in {"invalidate mb1", "write", "write mb1"} THEN {[image EXCEPT ![Other(boot)][run.part] = Torn]} ELSE {})
    /\ backup' \in (IF At("backup") THEN BackupCutShort ELSE {backup})
    /\ reg' = RegAfterPowerLoss
    /\ Restart
    /\ UNCHANGED <<fixed, nv, pending>>
=============================================================================
