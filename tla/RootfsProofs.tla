---------------------------- MODULE RootfsProofs ----------------------------
(****************************************************************************)
(* The kernel that starts is that of the chain the firmware runs from, on   *)
(* every platform, for every number of retries, events and requests.        *)
(*                                                                          *)
(* The argument: the launcher and BootChainOsCurrent exist only while the   *)
(* machine is past the firmware, where the chain it runs from cannot        *)
(* change; there, every slot in memory is that chain except between the     *)
(* choice of the other slot and the reset that follows whatever happens.    *)
(****************************************************************************)
EXTENDS RootfsProperties, BootProofs

Free == redundancy = BOOT_ROOTFS /\ override = None

(* The launcher runs only once the firmware has handed over, and its memory *)
(* and BootChainOsCurrent do not outlive the boot.                          *)
OnlyInOs == launcher.at # "off" \/ osCurrent # None => At("os")

LauncherShape ==
    launcher = [at |-> launcher.at, slot |-> launcher.slot,
                recovery |-> launcher.recovery, status |-> launcher.status,
                flagged |-> launcher.flagged, next |-> launcher.next]

Starting == {"store", "start", "start recovery", "kernel", "up", "recovery", "returned"}

SlotFollows ==
    Free => /\ launcher.at \in Starting => launcher.slot = boot
            /\ launcher.at = "write" /\ ~launcher.next => launcher.slot = boot

CurrentFollows == Free => osCurrent \in {None, boot}

Linked == OnlyInOs /\ LauncherShape /\ SlotFollows /\ CurrentFollows

(* Every step of the firmware happens before the launcher is started.       *)
LEMMA CapsuleBeforeOs == CapsuleStep => run.at # "os"
  BY DEF CapsuleStep, HandleCapsules, CheckImage, CancelNext, CancelStatus, SetImage,
         InvalidateMb1, WriteRegular, WriteMb1, VerifyImages, UpdateBackup,
         CapsuleGivesUp, CapsuleDone, At

LEMMA SwitchBeforeOs ==
    ExecuteUpdate \/ SavePrevious \/ SetInProgress \/ CountReset \/ TooManyResets
      \/ Switch \/ SwitchGivesUp \/ ResetToChain => run.at # "os"
  BY DEF ExecuteUpdate, SavePrevious, SetInProgress, CountReset, TooManyResets,
         Switch, SwitchGivesUp, ResetToChain, Record, At

LEMMA FinishBeforeOs ==
    ReportSuccess \/ SetStatus \/ FinishUpdate \/ DeletePrevious \/ DeleteNext
      \/ DeleteResetCount \/ Restore \/ RestoreGivesUp \/ BootOs \/ ClearFlag
      \/ ReadyToBoot => run.at # "os"
  BY DEF ReportSuccess, SetStatus, FinishUpdate, DeletePrevious, DeleteNext,
         DeleteResetCount, Restore, RestoreGivesUp, BootOs, ClearFlag, ReadyToBoot,
         Erase, At

LEMMA FirmwareBeforeOs == Firmware => run.at # "os"
<1>1. PowerOn => run.at # "os"
  BY DEF PowerOn, At
<1>2. UpdateFwChain => run.at # "os"
  BY DEF UpdateFwChain, WriteSlot, WriteSlotFails, SlotsWritten, At
<1>3. BootChainStep => run.at # "os"
  BY SwitchBeforeOs, FinishBeforeOs DEF BootChainStep
<1> QED
  BY <1>1, <1>2, <1>3, CapsuleBeforeOs DEF Firmware

(* A reset, of any kind, leaves nothing of the launcher.                    *)
LEMMA ResetLinked ==
    ASSUME ResetLauncher PROVE Linked'
  BY DEF ResetLauncher, NotStarted, Linked, OnlyInOs, LauncherShape, SlotFollows,
         CurrentFollows, Starting

(* A step that leaves the launcher and the machine as they are.             *)
LEMMA QuietLinked ==
    ASSUME Linked,
           UNCHANGED <<launcher, osCurrent, rootfsFixed, run, boot>>
    PROVE  Linked'
  BY DEF Linked, OnlyInOs, LauncherShape, SlotFollows, CurrentFollows, Free,
         rootfsFixed, At

(* The launcher goes on to another place with the slot it has.              *)
LEMMA ProceedLinked ==
    ASSUME Linked, At("os"), NEW label, Proceed(label),
           UNCHANGED <<osCurrent, rootfsFixed, run, boot>>,
           label \in Starting /\ Free => launcher.slot = boot,
           label # "write"
    PROVE  Linked'
  BY DEF Linked, OnlyInOs, LauncherShape, SlotFollows, CurrentFollows, Free,
         rootfsFixed, At, Proceed

(* What validation leaves in memory is as it should be.                     *)
LEMMA ValidatedLinked ==
    ASSUME Linked, At("os"), NEW label, NEW slot, NEW recovery, NEW unbootable, NEW next,
           Validated(label, slot, recovery, unbootable, next),
           UNCHANGED <<osCurrent, rootfsFixed, run, boot>>,
           Free /\ ~next => slot = boot,
           label = "write" \/ (label = "store" /\ ~next)
    PROVE  Linked'
  BY DEF Linked, OnlyInOs, LauncherShape, SlotFollows, CurrentFollows, Free,
         rootfsFixed, At, Validated, Starting

-----------------------------------------------------------------------------
(* Before validation the slot is the chain of the firmware.                 *)
LEMMA ParamsFollow ==
    ASSUME Linked, Free PROVE BootParamsChain = boot /\ CurrentSlot = boot
  BY DEF Linked, CurrentFollows, Free, BootParamsChain, CurrentSlot, BOOT_ONLY, BOOT_ROOTFS

LEMMA ValidateLinked == ASSUME Linked, ValidateRootfsStatus PROVE Linked'
<1>1. At("os") /\ UNCHANGED <<osCurrent, rootfsFixed, run, boot>>
  BY DEF ValidateRootfsStatus, Launcher, MachineUnchanged
<1>2. Free => BootParamsChain = boot /\ CurrentSlot = boot
  BY ParamsFollow
<1>3. Free => redundancy # BOOT_ONLY
  BY DEF Free, BOOT_ONLY, BOOT_ROOTFS
<1>4. CASE RecoveryRequested
  BY <1>1, <1>2, <1>4, ValidatedLinked DEF RecoveryRequested
<1>5. CASE VariableUnreadable
  BY <1>1, <1>2, <1>5, ValidatedLinked DEF VariableUnreadable
<1>6. CASE NoValidRootfs
  BY <1>1, <1>2, <1>6, ValidatedLinked DEF NoValidRootfs
<1>7. CASE CurrentSlotBootable
  BY <1>1, <1>2, <1>7, ValidatedLinked DEF CurrentSlotBootable
<1>8. CASE OnlySlotExhausted
  BY <1>1, <1>2, <1>8, ValidatedLinked DEF OnlySlotExhausted
<1>9. CASE SwitchSlot
  BY <1>1, <1>9, ValidatedLinked DEF SwitchSlot
<1>10. CASE BothSlotsExhausted
  BY <1>1, <1>2, <1>10, ValidatedLinked DEF BothSlotsExhausted
<1> QED
  BY <1>4, <1>5, <1>6, <1>7, <1>8, <1>9, <1>10 DEF ValidateRootfsStatus

(* The place after the last write keeps the slot only if none was switched. *)
LEMMA WrittenLinked ==
    ASSUME Linked, Launcher("write"), Proceed(Written),
           UNCHANGED <<osCurrent, rootfsFixed, run, boot>>
    PROVE  Linked'
<1>1. Written \in Starting /\ Free => launcher.slot = boot
  BY DEF Linked, SlotFollows, Written, Starting, Launcher
<1>2. Written # "write"
  BY DEF Written
<1> QED
  BY <1>1, <1>2, ProceedLinked DEF Launcher

LEMMA WriteStatusLinked == ASSUME Linked, WriteStatus PROVE Linked'
<1>1. UNCHANGED <<osCurrent, rootfsFixed, run, boot>> /\ Launcher("write")
  BY DEF WriteStatus, MachineUnchanged
<1>2. CASE Proceed(Written)
  BY <1>1, <1>2, WrittenLinked
<1>3. CASE \E c \in FirstFlagged : launcher' = [launcher EXCEPT !.flagged = @ \ {c}]
  BY <1>1, <1>3 DEF Linked, OnlyInOs, LauncherShape, SlotFollows, CurrentFollows, Free,
                    rootfsFixed, At, Launcher
<1> QED
  BY <1>2, <1>3 DEF WriteStatus

LEMMA WritesLinked == ASSUME Linked, WriteNext \/ ClearForSwitch PROVE Linked'
<1>1. CASE WriteNext
  <2>1. UNCHANGED <<osCurrent, rootfsFixed, run, boot>> /\ Launcher("write") /\ Proceed(Written)
    BY <1>1 DEF WriteNext, MachineUnchanged
  <2> QED
    BY <2>1, WrittenLinked
<1>2. CASE ClearForSwitch
  BY <1>2, ProceedLinked DEF ClearForSwitch, MachineUnchanged, Launcher, Starting
<1> QED
  BY <1>1, <1>2

LEMMA StoreLinked == ASSUME Linked, Store PROVE Linked'
  BY DEF Store, MachineUnchanged, Launcher, Linked, OnlyInOs, LauncherShape, SlotFollows,
         CurrentFollows, Free, rootfsFixed, At, Proceed, Starting

(* The kernel and what follows it keep the slot.                            *)
LEMMA StartLinked ==
    ASSUME Linked,
           StartKernel \/ KernelReturns \/ StartRecovery \/ Confirm
    PROVE  Linked'
<1>1. At("os") /\ launcher.at \in Starting /\ UNCHANGED <<osCurrent, rootfsFixed, run, boot>>
  BY DEF StartKernel, KernelReturns, StartRecovery, Confirm, Launcher, Starting,
         MachineUnchanged, vars
<1>2. \E label \in Starting : Proceed(label) /\ label # "write"
  BY DEF StartKernel, KernelReturns, StartRecovery, Confirm, Starting
<1> QED
  BY <1>1, <1>2, ProceedLinked DEF Linked, SlotFollows

LEMMA StartAgainLinked == ASSUME Linked, StartAgain PROVE Linked'
  BY DEF StartAgain, NotStarted, MachineUnchanged, Launcher, Linked, OnlyInOs,
         LauncherShape, SlotFollows, CurrentFollows, Free, rootfsFixed, At, Starting

-----------------------------------------------------------------------------
LEMMA LauncherLinked == ASSUME Linked, LauncherStep PROVE Linked'
<1>1. CASE ResetForSwitch \/ KernelResets
  BY <1>1, ResetLinked DEF ResetForSwitch, KernelResets, ResetSystem
<1> QED
  BY <1>1, ValidateLinked, WriteStatusLinked, WritesLinked, StoreLinked, StartLinked
     DEF LauncherStep

(* The OS and its watchdog.                                                 *)
LEMMA OsLinked ==
    ASSUME Linked, Reflash \/ SetBootMode \/ OsWrites \/ OsRestarts \/ Watchdog
    PROVE  Linked'
<1>1. CASE OsRestarts \/ Watchdog
  BY <1>1, ResetLinked DEF OsRestarts, Watchdog, ResetSystem
<1>2. CASE Reflash \/ SetBootMode
  BY <1>2, QuietLinked DEF Reflash, SetBootMode, MachineUnchanged
<1>3. CASE OsWrites
  BY <1>3, QuietLinked DEF OsWrites, OsSetNext, OsClearStatus, OsSetStatus,
                           OsLeaveCapsule, rootfsVars
<1> QED
  BY <1>1, <1>2, <1>3

(* The firmware runs while there is no launcher, and may change the chain.  *)
LEMMA FirmwareLinked == ASSUME Linked, FirmwareStep PROVE Linked'
<1>1. launcher.at = "off" /\ osCurrent = None
  BY FirmwareBeforeOs DEF Linked, OnlyInOs, FirmwareStep, At
<1>2. UNCHANGED <<launcher, osCurrent>>
  BY DEF FirmwareStep, rootfsVars
<1> QED
  BY <1>1, <1>2 DEF Linked, OnlyInOs, LauncherShape, SlotFollows, CurrentFollows, Starting

LEMMA NextLinked == Linked /\ [RootfsNext]_allVars => Linked'
<1> SUFFICES ASSUME Linked, [RootfsNext]_allVars PROVE Linked'
  OBVIOUS
<1>1. CASE FirmwareStep
  BY <1>1, FirmwareLinked
<1>2. CASE LauncherStep
  BY <1>2, LauncherLinked
<1>3. CASE Confirm \/ Watchdog
  BY <1>3, StartLinked, OsLinked
<1>4. CASE StartAgain \/ Reflash \/ SetBootMode \/ OsWrites \/ OsRestarts
  BY <1>4, StartAgainLinked, OsLinked
<1>5. CASE LosePower
  BY <1>5, ResetLinked DEF LosePower
<1>6. CASE UNCHANGED allVars
  BY <1>6, QuietLinked DEF allVars, vars, rootfsVars
<1> QED
  BY <1>1, <1>2, <1>3, <1>4, <1>5, <1>6 DEF RootfsNext, Runs

LEMMA InitLinked == RootfsInit => Linked
  BY DEF RootfsInit, NotStarted, Linked, OnlyInOs, LauncherShape, SlotFollows,
         CurrentFollows, Starting

(* The kernel that starts is that of the chain the firmware runs from: a    *)
(* slot other than that is never started, however the writes of the switch  *)
(* and the firmware's own end (ValidateRootfsStatus).                       *)
THEOREM KernelFollows == RootfsSpec => []KernelFollowsChain
<1>1. Linked => KernelFollowsChain
  BY DEF Linked, SlotFollows, KernelFollowsChain, Free, Starting
<1> QED
  BY <1>1, InitLinked, NextLinked, PTL DEF RootfsSpec

(****************************************************************************)
(* The invariant of the firmware holds with the launcher on top of it, a    *)
(* slot is declared unbootable only when its retries have been used, and    *)
(* the recovery kernel starts only when both slots have been declared.      *)
(*                                                                          *)
(* The argument for the second: while the register is in use, the starts of *)
(* a slot and the retries it has left add up to RootfsRetryCountMax, one    *)
(* start being owed between the count and the start of the kernel.  That    *)
(* needs a count that fits its two bits.                                    *)
(*                                                                          *)
(* No slot is started more often than that either, where nothing fails:     *)
(* SpentInv, the last part, follows a slot that did not come up through the *)
(* reset and the firmware back to the launcher.                             *)
(****************************************************************************)
LauncherLabels ==
    {"off", "write", "clear", "reset", "store", "start", "start recovery", "kernel",
     "up", "recovery", "returned"}

LauncherOK ==
    /\ launcher \in [at : LauncherLabels, slot : Chain \cup {None}, recovery : BOOLEAN,
                     status : [Chain -> {NORMAL, UNBOOTABLE}], flagged : SUBSET Chain,
                     next : BOOLEAN]
    /\ launcher.at # "off" => launcher.slot \in Chain
    /\ launcher.at = "start" => ~launcher.recovery

SlotsOK ==
    /\ override \in Chain \cup {None}
    /\ osCurrent \in Chain \cup {None}
    /\ status \in [Chain -> {NORMAL, UNBOOTABLE}]
    /\ retry = None \/ retry \in [Chain -> 0..3]
    /\ spent \in [Chain -> Nat]

RootfsTyped == IInv /\ Linked /\ LauncherOK /\ SlotsOK

-----------------------------------------------------------------------------
(* The firmware's invariant.  A write to a variable while the OS loader     *)
(* runs cannot break it.                                                    *)
LEMMA WriteKeeps ==
    ASSUME IInv, At("os"), MachineUnchanged,
           NEW name \in {"next", "status"},
           NEW value \in Chain \cup {None}, name = "status" => value = None,
           Put(name, value) \/ nv' = nv
    PROVE  IInv'
<1>1. StoredOK'
  BY DEF IInv, Typed, StoredOK, MachineUnchanged, fixed, flash, SlotNumbers, Put, Statuses
<1>2. FrameOK' /\ BootOK' /\ StepsOK'
  BY DEF IInv, Typed, FrameOK, BootOK, StepsOK, MachineUnchanged, At
<1>3. image' = image /\ boot' \in {boot, None} /\ run'.at \notin CapsuleLabels
  BY DEF MachineUnchanged, flash, At, CapsuleLabels
<1> QED
  BY <1>1, <1>2, <1>3, Untouched DEF Typed

LEMMA NothingKeeps ==
    ASSUME IInv, At("os"), MachineUnchanged, nv' = nv PROVE IInv'
  BY WriteKeeps

LEMMA ResetSystemKeeps ==
    ASSUME IInv, At("os"), ResetSystem PROVE IInv'
  BY OsKeeps DEF ResetSystem, OsStep, OsRestart

LEMMA WritesKeep ==
    ASSUME IInv, WriteStatus \/ WriteNext \/ ClearForSwitch, LauncherOK PROVE IInv'
<1>1. At("os") /\ MachineUnchanged
  BY DEF WriteStatus, WriteNext, ClearForSwitch, Launcher
<1>2. CASE WriteStatus
  BY <1>1, <1>2, NothingKeeps DEF WriteStatus, NvFault
<1>3. CASE WriteNext
  <2>1. launcher.slot \in Chain
    BY <1>3 DEF WriteNext, Launcher, LauncherOK
  <2>2. Put("next", launcher.slot) \/ nv' = nv
    BY <1>3 DEF WriteNext, NvFault
  <2> QED
    BY <1>1, <2>1, <2>2, WriteKeeps
<1>4. CASE ClearForSwitch
  BY <1>1, <1>4, WriteKeeps DEF ClearForSwitch, Delete, NvFault
<1> QED
  BY <1>2, <1>3, <1>4

LEMMA LauncherKeeps == ASSUME IInv, LauncherStep, LauncherOK PROVE IInv'
<1>1. CASE WriteStatus \/ WriteNext \/ ClearForSwitch
  BY <1>1, WritesKeep
<1>2. CASE ResetForSwitch \/ KernelResets
  BY <1>2, ResetSystemKeeps DEF ResetForSwitch, KernelResets, Launcher
<1>3. CASE ValidateRootfsStatus \/ Store \/ StartKernel \/ KernelReturns \/ StartRecovery
  BY <1>3, NothingKeeps DEF ValidateRootfsStatus, Store, StartKernel, KernelReturns,
                            StartRecovery, Launcher
<1> QED
  BY <1>1, <1>2, <1>3 DEF LauncherStep

LEMMA RootfsKeeps == ASSUME IInv, LauncherOK, [RootfsNext]_allVars PROVE IInv'
<1>1. CASE FirmwareStep
  BY <1>1, PowerOnKeeps, CapsuleKeeps, BootChainKeeps, UpdateFwChainKeeps
     DEF FirmwareStep, Firmware
<1>2. CASE LauncherStep
  BY <1>2, LauncherKeeps
<1>3. CASE Confirm \/ UNCHANGED allVars
  BY <1>3, StutterKeeps DEF Confirm, allVars
<1>4. CASE OsRestarts \/ Watchdog
  BY <1>4, ResetSystemKeeps DEF OsRestarts, Watchdog, Launcher
<1>5. CASE StartAgain \/ Reflash \/ SetBootMode
  BY <1>5, NothingKeeps DEF StartAgain, Reflash, SetBootMode, Launcher
<1>6. CASE OsWrites
  BY <1>6, OsKeeps DEF OsWrites, OsStep
<1>7. CASE LosePower
  BY <1>7, PowerLossKeeps DEF LosePower
<1> QED
  BY <1>1, <1>2, <1>3, <1>4, <1>5, <1>6, <1>7 DEF RootfsNext, Runs

-----------------------------------------------------------------------------
(* Types.                                                                   *)
LEMMA ParamsTyped ==
    ASSUME IInv, SlotsOK, At("os")
    PROVE  BootParamsChain \in Chain /\ CurrentSlot \in Chain /\ Other(CurrentSlot) \in Chain
<1>1. boot \in Chain
  BY DEF IInv, Typed, BootOK, At
<1>2. "A" \in Chain /\ \A c \in Chain : Other(c) \in Chain
  BY DEF Chain, Other
<1> QED
  BY <1>1, <1>2 DEF SlotsOK, BootParamsChain, CurrentSlot

LEMMA RegisterTyped == ASSUME SlotsOK PROVE InitializeRootfsStatusReg \in [Chain -> 0..3]
<1>1. RetryMax % 4 \in 0..3
  BY RetryAssumption
<1> QED
  BY <1>1 DEF SlotsOK, InitializeRootfsStatusReg

LEMMA CountTyped ==
    ASSUME SlotsOK, NEW c \in Chain, IsRootfsSlotBootable(c), DecreaseRootfsRetryCount(c)
    PROVE  /\ retry' \in [Chain -> 0..3]
           /\ retry'[c] = InitializeRootfsStatusReg[c] - 1
           /\ \A d \in Chain \ {c} : retry'[d] = InitializeRootfsStatusReg[d]
<1>1. InitializeRootfsStatusReg[c] - 1 \in 0..3
  BY RegisterTyped DEF IsRootfsSlotBootable
<1> QED
  BY <1>1, RegisterTyped DEF DecreaseRootfsRetryCount

LEMMA ValidatedTyped ==
    ASSUME SlotsOK, NEW label \in {"write", "store"}, NEW slot \in Chain,
           NEW recovery \in BOOLEAN, NEW unbootable \in SUBSET Chain, NEW next \in BOOLEAN,
           Validated(label, slot, recovery, unbootable, next)
    PROVE  LauncherOK'
<1>1. [c \in Chain |-> IF c \in unbootable THEN UNBOOTABLE ELSE status[c]]
        \in [Chain -> {NORMAL, UNBOOTABLE}]
  BY DEF SlotsOK
<1> QED
  BY <1>1 DEF Validated, LauncherOK, LauncherLabels

LEMMA ValidateTyped ==
    ASSUME RootfsTyped, ValidateRootfsStatus PROVE LauncherOK' /\ SlotsOK'
<1>1. At("os") /\ SlotsOK /\ IInv
  BY DEF ValidateRootfsStatus, Launcher, RootfsTyped
<1>2. BootParamsChain \in Chain /\ CurrentSlot \in Chain /\ Other(CurrentSlot) \in Chain
  BY <1>1, ParamsTyped
<1>3. {} \in SUBSET Chain /\ {CurrentSlot} \in SUBSET Chain /\ Chain \in SUBSET Chain
  BY <1>2
<1>4. LauncherOK'
  <2>1. CASE RecoveryRequested
    BY <1>1, <1>2, <1>3, <2>1, ValidatedTyped DEF RecoveryRequested
  <2>2. CASE VariableUnreadable
    BY <1>1, <1>2, <1>3, <2>2, ValidatedTyped DEF VariableUnreadable
  <2>3. CASE NoValidRootfs
    BY <1>1, <1>2, <1>3, <2>3, ValidatedTyped DEF NoValidRootfs
  <2>4. CASE CurrentSlotBootable
    BY <1>1, <1>2, <1>3, <2>4, ValidatedTyped DEF CurrentSlotBootable
  <2>5. CASE OnlySlotExhausted
    BY <1>1, <1>2, <1>3, <2>5, ValidatedTyped DEF OnlySlotExhausted
  <2>6. CASE SwitchSlot
    BY <1>1, <1>2, <1>3, <2>6, ValidatedTyped DEF SwitchSlot
  <2>7. CASE BothSlotsExhausted
    BY <1>1, <1>2, <1>3, <2>7, ValidatedTyped DEF BothSlotsExhausted
  <2> QED
    BY <2>1, <2>2, <2>3, <2>4, <2>5, <2>6, <2>7 DEF ValidateRootfsStatus
<1>5. retry' = None \/ retry' \in [Chain -> 0..3]
  <2>1. CASE CurrentSlotBootable
    BY <1>1, <1>2, <2>1, CountTyped DEF CurrentSlotBootable
  <2>2. CASE SwitchSlot
    BY <1>1, <1>2, <2>2, CountTyped DEF SwitchSlot
  <2>3. CASE ~CurrentSlotBootable /\ ~SwitchSlot
    BY <1>1, <2>3 DEF ValidateRootfsStatus, RecoveryRequested, VariableUnreadable,
       NoValidRootfs, OnlySlotExhausted, BothSlotsExhausted, SlotsOK
  <2> QED
    BY <2>1, <2>2, <2>3
<1> QED
  BY <1>1, <1>4, <1>5 DEF ValidateRootfsStatus, SlotsOK, rootfsFixed

LEMMA ProceedTyped ==
    ASSUME LauncherOK, NEW label \in LauncherLabels, Proceed(label), launcher.at # "off",
           label = "start" => ~launcher.recovery
    PROVE  LauncherOK'
  BY DEF LauncherOK, Proceed

LEMMA TriedTyped ==
    ASSUME SlotsOK PROVE Spent \in [Chain -> Nat]
  BY DEF SlotsOK, Spent

LEMMA NotStartedTyped == ASSUME launcher' = NotStarted PROVE LauncherOK'
  BY DEF NotStarted, LauncherOK, LauncherLabels

LEMMA ResetTyped ==
    ASSUME SlotsOK, ResetSystem, spent' = spent \/ spent' = Spent
    PROVE  LauncherOK' /\ SlotsOK'
  BY NotStartedTyped, TriedTyped DEF SlotsOK, ResetSystem, ResetLauncher, rootfsFixed

LEMMA WritesTyped ==
    ASSUME RootfsTyped, WriteStatus \/ WriteNext \/ ClearForSwitch
    PROVE  LauncherOK' /\ SlotsOK'
<1>1. LauncherOK /\ SlotsOK /\ launcher.at # "off"
  BY DEF RootfsTyped, WriteStatus, WriteNext, ClearForSwitch, Launcher
<1>2. Written \in LauncherLabels /\ Written # "start" /\ "reset" \in LauncherLabels
  BY DEF Written, LauncherLabels
<1>3. CASE WriteStatus
  <2>1. LauncherOK'
    <3>1. CASE Proceed(Written)
      BY <1>1, <1>2, <3>1, ProceedTyped
    <3>2. CASE \E c \in FirstFlagged : launcher' = [launcher EXCEPT !.flagged = @ \ {c}]
      BY <1>1, <3>2 DEF LauncherOK
    <3> QED
      BY <1>3, <3>1, <3>2 DEF WriteStatus
  <2>2. SlotsOK'
    BY <1>1, <1>3 DEF WriteStatus, SlotsOK, rootfsFixed
  <2> QED
    BY <2>1, <2>2
<1>4. CASE WriteNext
  BY <1>1, <1>2, <1>4, ProceedTyped DEF WriteNext, SlotsOK, rootfsFixed
<1>5. CASE ClearForSwitch
  BY <1>1, <1>2, <1>5, ProceedTyped DEF ClearForSwitch, SlotsOK, rootfsFixed
<1> QED
  BY <1>3, <1>4, <1>5

LEMMA StartsTyped ==
    ASSUME RootfsTyped, Store \/ StartKernel \/ KernelReturns \/ StartRecovery
    PROVE  LauncherOK' /\ SlotsOK'
<1>1. LauncherOK /\ SlotsOK /\ launcher.at # "off"
  BY DEF RootfsTyped, Store, StartKernel, KernelReturns, StartRecovery, Launcher
<1>2. launcher.slot \in Chain
  BY <1>1 DEF LauncherOK
<1>3. CASE Store
  <2>1. Proceed("start recovery") \/ (Proceed("start") /\ ~launcher.recovery)
    BY <1>3 DEF Store
  <2> QED
    BY <1>1, <1>2, <1>3, <2>1, ProceedTyped DEF Store, SlotsOK, rootfsFixed, LauncherLabels
<1>4. CASE StartKernel \/ KernelReturns \/ StartRecovery
  BY <1>1, <1>4, ProceedTyped, TriedTyped
     DEF StartKernel, KernelReturns, StartRecovery, SlotsOK, rootfsFixed, LauncherLabels
<1> QED
  BY <1>3, <1>4

LEMMA OsTyped ==
    ASSUME RootfsTyped, Confirm \/ Reflash PROVE LauncherOK' /\ SlotsOK'
<1>1. LauncherOK /\ SlotsOK /\ RetryMax % 4 \in 0..3
  BY RetryAssumption DEF RootfsTyped
<1>2. CASE Confirm
  BY <1>1, <1>2, ProceedTyped DEF Confirm, Launcher, SlotsOK, rootfsFixed, LauncherLabels
<1>3. CASE Reflash
  BY <1>1, <1>3 DEF Reflash, SlotsOK, LauncherOK, rootfsFixed
<1> QED
  BY <1>2, <1>3

LEMMA QuietTyped ==
    ASSUME RootfsTyped, UNCHANGED <<rootfsFixed, status, retry, osCurrent, spent>>,
           UNCHANGED launcher \/ launcher' = NotStarted
    PROVE  LauncherOK' /\ SlotsOK'
  BY NotStartedTyped DEF RootfsTyped, LauncherOK, SlotsOK, rootfsFixed

LEMMA NextTyped == ASSUME RootfsTyped, [RootfsNext]_allVars PROVE RootfsTyped'
<1>1. IInv' /\ Linked'
  BY RootfsKeeps, NextLinked DEF RootfsTyped
<1>2. CASE LauncherStep
  <2>1. CASE ResetForSwitch \/ KernelResets
    BY <1>1, <2>1, ResetTyped DEF ResetForSwitch, KernelResets, RootfsTyped
  <2> QED
    BY <1>1, <1>2, <2>1, ValidateTyped, WritesTyped, StartsTyped DEF LauncherStep, RootfsTyped
<1>3. CASE Confirm \/ Reflash
  BY <1>1, <1>3, OsTyped DEF RootfsTyped
<1>4. CASE OsRestarts \/ Watchdog
  BY <1>1, <1>4, ResetTyped DEF OsRestarts, Watchdog, RootfsTyped
<1>5. CASE FirmwareStep \/ OsWrites \/ SetBootMode \/ StartAgain \/ UNCHANGED allVars
  BY <1>1, <1>5, QuietTyped DEF FirmwareStep, OsWrites, SetBootMode, StartAgain, allVars,
                                rootfsVars, RootfsTyped
<1>6. CASE LosePower
  BY <1>1, <1>6, NotStartedTyped DEF LosePower, ResetLauncher, RootfsTyped, SlotsOK, rootfsFixed
<1> QED
  BY <1>2, <1>3, <1>4, <1>5, <1>6 DEF RootfsNext, Runs

LEMMA InitTyped == ASSUME RootfsInit PROVE RootfsTyped
<1>1. IInv /\ Linked
  BY InitHolds, InitLinked DEF RootfsInit
<1>2. LauncherOK
  BY DEF RootfsInit, NotStarted, LauncherOK, LauncherLabels
<1>3. SlotsOK
  BY OverrideAssumption DEF RootfsInit, SlotsOK, Chain
<1> QED
  BY <1>1, <1>2, <1>3 DEF RootfsTyped

-----------------------------------------------------------------------------
(* Counting.  Between the decrease of the count and the start of the kernel *)
(* one start is owed.                                                       *)
Owing == {"write", "clear", "store", "start"}
Owed(c) ==
    IF /\ launcher.at \in Owing /\ ~launcher.recovery
       /\ launcher.slot = c /\ Unreadables = {}
      THEN 1 ELSE 0

Balanced ==
    retry # None => \A c \in Chain : status[c] = NORMAL =>
        spent[c] + retry[c] + Owed(c) >= RetryMax

FlaggedTried ==
    launcher.at = "write" =>
        \A c \in launcher.flagged : status[c] = NORMAL => spent[c] >= RetryMax

Counted == Balanced /\ FlaggedTried

RetriesInv == RootfsTyped /\ Counted

LEMMA OwedTyped == \A c \in Chain : Owed(c) \in {0, 1}
  BY DEF Owed

(* Before validation no start is owed, so that a slot without retries has   *)
(* been tried.                                                              *)
LEMMA RegisterBalanced ==
    ASSUME RetriesInv, launcher.at = "off", RetryMax < 4, NEW c \in Chain, status[c] = NORMAL
    PROVE  spent[c] + InitializeRootfsStatusReg[c] >= RetryMax
<1>1. spent[c] \in Nat /\ RetryMax \in Nat
  BY RetryAssumption DEF RetriesInv, RootfsTyped, SlotsOK
<1>2. CASE retry = None
  <2>1. RetryMax % 4 = RetryMax
    BY <1>1
  <2>2. NORMAL # UNBOOTABLE
    BY DEF NORMAL, UNBOOTABLE
  <2> QED
    BY <1>1, <1>2, <2>1, <2>2 DEF InitializeRootfsStatusReg
<1>3. CASE retry # None
  <2>1. Owed(c) = 0
    BY DEF Owed, Owing
  <2>2. spent[c] + retry[c] + Owed(c) >= RetryMax /\ retry[c] \in 0..3
    BY <1>3 DEF RetriesInv, Counted, Balanced, RootfsTyped, SlotsOK
  <2> QED
    BY <1>1, <1>3, <2>1, <2>2 DEF InitializeRootfsStatusReg
<1> QED
  BY <1>2, <1>3

(* Validation that starts a slot: the count of the slot goes down by the    *)
(* start that is owed.                                                      *)
LEMMA DecreasedBalanced ==
    ASSUME RetriesInv, Launcher("off"), RetryMax < 4, NEW slot \in Chain,
           IsRootfsSlotBootable(slot), DecreaseRootfsRetryCount(slot),
           NEW unbootable, NEW next, Validated("write", slot, FALSE, unbootable, next),
           Unreadables = {}, UNCHANGED <<nv, status, spent>>
    PROVE  Balanced'
<1>1. SlotsOK /\ launcher.at = "off"
  BY DEF RetriesInv, RootfsTyped, Launcher
<1>2. Owed(slot)' = 1 /\ \A d \in Chain : Owed(d)' \in {0, 1}
  BY DEF Owed, Owing, Validated, Unreadables
<1>3. /\ retry' \in [Chain -> 0..3]
      /\ retry'[slot] = InitializeRootfsStatusReg[slot] - 1
      /\ \A d \in Chain \ {slot} : retry'[d] = InitializeRootfsStatusReg[d]
  BY <1>1, CountTyped
<1>4. InitializeRootfsStatusReg \in [Chain -> 0..3] /\ spent \in [Chain -> Nat] /\ RetryMax \in Nat
  BY <1>1, RegisterTyped, RetryAssumption DEF SlotsOK
<1> SUFFICES ASSUME NEW c \in Chain, status[c] = NORMAL
             PROVE  spent[c] + retry'[c] + Owed(c)' >= RetryMax
  BY DEF Balanced
<1>5. spent[c] + InitializeRootfsStatusReg[c] >= RetryMax
  BY <1>1, RegisterBalanced
<1>6. CASE c = slot
  <2>1. retry'[c] = InitializeRootfsStatusReg[c] - 1 /\ Owed(c)' = 1
    BY <1>2, <1>3, <1>6
  <2>2. InitializeRootfsStatusReg[c] \in 0..3 /\ spent[c] \in Nat
    BY <1>4
  <2> QED
    BY <1>4, <1>5, <2>1, <2>2
<1>7. CASE c # slot
  <2>1. retry'[c] = InitializeRootfsStatusReg[c] /\ Owed(c)' \in {0, 1}
    BY <1>2, <1>3, <1>7
  <2>2. InitializeRootfsStatusReg[c] \in 0..3 /\ spent[c] \in Nat
    BY <1>4
  <2> QED
    BY <1>4, <1>5, <2>1, <2>2
<1> QED
  BY <1>6, <1>7

(* Slots that validation flags have no retries left.                        *)
LEMMA FlaggedAreTried ==
    ASSUME RetriesInv, launcher.at = "off", RetryMax < 4, UNCHANGED <<status, spent>>,
           NEW slot, NEW recovery, NEW unbootable \in SUBSET Chain, NEW next,
           Validated("write", slot, recovery, unbootable, next),
           \A c \in unbootable : ~IsRootfsSlotBootable(c)
    PROVE  FlaggedTried'
<1> SUFFICES ASSUME NEW c \in unbootable, status[c] = NORMAL PROVE spent[c] >= RetryMax
  BY DEF FlaggedTried, Validated
<1>1. spent[c] + InitializeRootfsStatusReg[c] >= RetryMax
  BY RegisterBalanced
<1>2. InitializeRootfsStatusReg[c] = 0
  BY DEF IsRootfsSlotBootable
<1>3. spent[c] \in Nat /\ RetryMax \in Nat
  BY RetryAssumption DEF RetriesInv, RootfsTyped, SlotsOK
<1> QED
  BY <1>1, <1>2, <1>3

LEMMA ValidateCounted ==
    ASSUME RetriesInv, ValidateRootfsStatus, RetryMax < 4 PROVE Counted'
<1>1. /\ launcher.at = "off" /\ At("os") /\ Launcher("off")
      /\ SlotsOK /\ IInv /\ UNCHANGED <<nv, status, spent>>
  BY DEF ValidateRootfsStatus, Launcher, RetriesInv, RootfsTyped
<1>2. BootParamsChain \in Chain /\ CurrentSlot \in Chain /\ Other(CurrentSlot) \in Chain
  BY <1>1, ParamsTyped
<1>3. CASE RecoveryRequested \/ VariableUnreadable
  <2>1. launcher'.at = "store" /\ retry' = retry
    BY <1>3 DEF RecoveryRequested, VariableUnreadable, Validated
  <2>2. FlaggedTried'
    BY <2>1 DEF FlaggedTried
  <2>3. \A c \in Chain : Owed(c) = 0 /\ Owed(c)' \in {0, 1}
    BY <1>1 DEF Owed, Owing
  <2>4. \A c \in Chain : retry # None => retry[c] \in 0..3 /\ spent[c] \in Nat
    BY <1>1 DEF SlotsOK
  <2>5. Balanced'
    <3> SUFFICES ASSUME retry # None, NEW c \in Chain, status[c] = NORMAL
                 PROVE  spent[c] + retry[c] + Owed(c)' >= RetryMax
      BY <1>1, <2>1 DEF Balanced
    <3>1. spent[c] + retry[c] + Owed(c) >= RetryMax /\ RetryMax \in Nat
      BY RetryAssumption DEF RetriesInv, Counted, Balanced
    <3> QED
      BY <2>3, <2>4, <3>1
  <2> QED
    BY <2>2, <2>5 DEF Counted
<1>4. CASE NoValidRootfs
  BY <1>4 DEF NoValidRootfs, Validated, Counted, Balanced, FlaggedTried
<1>5. CASE CurrentSlotBootable
  <2>1. {} \in SUBSET Chain /\ Unreadables = {}
    BY <1>5 DEF CurrentSlotBootable, Readable
  <2>2. Balanced'
    BY <1>1, <1>2, <1>5, <2>1, DecreasedBalanced DEF CurrentSlotBootable
  <2>3. FlaggedTried'
    BY <1>1, <1>5, <2>1, FlaggedAreTried DEF CurrentSlotBootable
  <2> QED
    BY <2>2, <2>3 DEF Counted
<1>6. CASE OnlySlotExhausted
  <2>1. {CurrentSlot} \in SUBSET Chain /\ ~IsRootfsSlotBootable(CurrentSlot)
    BY <1>2, <1>6 DEF OnlySlotExhausted, Exhausted
  <2>2. FlaggedTried'
    BY <1>1, <1>6, <2>1, FlaggedAreTried DEF OnlySlotExhausted
  <2> QED
    BY <1>6, <2>2 DEF OnlySlotExhausted, Counted, Balanced
<1>7. CASE SwitchSlot
  <2>1. {CurrentSlot} \in SUBSET Chain /\ Unreadables = {} /\ ~IsRootfsSlotBootable(CurrentSlot)
    BY <1>2, <1>7 DEF SwitchSlot, Exhausted, Readable
  <2>2. Balanced'
    BY <1>1, <1>2, <1>7, <2>1, DecreasedBalanced DEF SwitchSlot
  <2>3. FlaggedTried'
    BY <1>1, <1>7, <2>1, FlaggedAreTried DEF SwitchSlot
  <2> QED
    BY <2>2, <2>3 DEF Counted
<1>8. CASE BothSlotsExhausted
  <2>1. \A c \in Chain : ~IsRootfsSlotBootable(c)
    BY <1>2, <1>8 DEF BothSlotsExhausted, Exhausted, Chain, Other
  <2>2. FlaggedTried'
    BY <1>1, <1>8, <2>1, FlaggedAreTried DEF BothSlotsExhausted
  <2> QED
    BY <1>8, <2>2 DEF BothSlotsExhausted, Counted, Balanced
<1> QED
  BY <1>3, <1>4, <1>5, <1>6, <1>7, <1>8 DEF ValidateRootfsStatus

(* A step that leaves the register alone, and trades a start owed for a     *)
(* start.                                                                   *)
LEMMA BalanceKept ==
    ASSUME RetriesInv, retry' = retry, spent' \in [Chain -> Nat],
           \A c \in Chain : status'[c] = NORMAL => status[c] = NORMAL,
           \A c \in Chain : spent'[c] + Owed(c)' >= spent[c] + Owed(c)
                              \/ spent'[c] >= RetryMax
    PROVE  Balanced'
<1> SUFFICES ASSUME retry # None, NEW c \in Chain, status[c] = NORMAL
             PROVE  spent'[c] + retry[c] + Owed(c)' >= RetryMax
  BY DEF Balanced
<1>1. spent[c] + retry[c] + Owed(c) >= RetryMax
  BY DEF RetriesInv, Counted, Balanced
<1>2. /\ spent[c] \in Nat /\ spent'[c] \in Nat /\ retry[c] \in 0..3 /\ RetryMax \in Nat
      /\ Owed(c) \in {0, 1} /\ Owed(c)' \in {0, 1}
  BY RetryAssumption DEF RetriesInv, RootfsTyped, SlotsOK, Owed
<1> QED
  BY <1>1, <1>2

LEMMA WriteStatusCounted == ASSUME RetriesInv, WriteStatus PROVE Counted'
<1>1. /\ launcher.at = "write" /\ LauncherOK /\ SlotsOK
      /\ retry' = retry /\ spent' = spent
  BY DEF WriteStatus, Launcher, RetriesInv, RootfsTyped
<1>2. nv' = nv
  BY DEF WriteStatus, NvFault
<1>3. \A c \in Chain : status'[c] = NORMAL => status[c] = NORMAL
  BY <1>1 DEF WriteStatus, SlotsOK, NORMAL, UNBOOTABLE
<1>4. CASE Proceed(Written)
  <2>1. launcher'.at \in {"clear", "store"} /\ launcher'.slot = launcher.slot
          /\ launcher'.recovery = launcher.recovery
    BY <1>1, <1>4 DEF Proceed, Written, LauncherOK
  <2>2. \A c \in Chain : Owed(c)' = Owed(c)
    BY <1>1, <1>2, <2>1 DEF Owed, Owing, Unreadables
  <2>3. \A c \in Chain : spent'[c] + Owed(c)' >= spent[c] + Owed(c)
    BY <1>1, <2>2 DEF SlotsOK, Owed
  <2>4. Balanced'
    BY <1>1, <1>3, <2>3, BalanceKept DEF SlotsOK
  <2> QED
    BY <2>1, <2>4 DEF Counted, FlaggedTried
<1>5. CASE \E c \in FirstFlagged : launcher' = [launcher EXCEPT !.flagged = @ \ {c}]
  <2>1. launcher'.at = "write" /\ launcher'.slot = launcher.slot
          /\ launcher'.recovery = launcher.recovery /\ launcher'.flagged \subseteq launcher.flagged
    BY <1>1, <1>5 DEF LauncherOK
  <2>2. \A c \in Chain : Owed(c)' = Owed(c)
    BY <1>1, <1>2, <2>1 DEF Owed, Owing, Unreadables
  <2>3. \A c \in Chain : spent'[c] + Owed(c)' >= spent[c] + Owed(c)
    BY <1>1, <2>2 DEF SlotsOK, Owed
  <2>4. Balanced'
    BY <1>1, <1>3, <2>3, BalanceKept DEF SlotsOK
  <2>5. FlaggedTried'
    BY <1>1, <1>3, <2>1 DEF FlaggedTried, RetriesInv, Counted, LauncherOK
  <2> QED
    BY <2>4, <2>5 DEF Counted
<1> QED
  BY <1>4, <1>5 DEF WriteStatus

LEMMA WriteNextCounted == ASSUME RetriesInv, WriteNext PROVE Counted'
<1>1. /\ launcher.at = "write" /\ LauncherOK /\ SlotsOK /\ StoredOK
      /\ UNCHANGED <<status, retry, spent>> /\ Proceed(Written)
  BY DEF WriteNext, Launcher, RetriesInv, RootfsTyped, IInv, Typed
<1>2. launcher'.at \in {"clear", "store"} /\ launcher'.slot = launcher.slot
        /\ launcher'.recovery = launcher.recovery
  BY <1>1 DEF Proceed, Written, LauncherOK
<1>3. Unreadables' \subseteq Unreadables
  <2>1. CASE Put("next", launcher.slot)
    <3>1. launcher.slot # "unreadable"
      BY <1>1 DEF LauncherOK, Chain
    <3> QED
      BY <1>1, <2>1, <3>1 DEF Unreadables, Put, StoredOK
  <2>2. CASE nv' = nv
    BY <2>2 DEF Unreadables
  <2> QED
    BY <2>1, <2>2 DEF WriteNext, NvFault
<1>4. \A c \in Chain : Owed(c) \in {0, 1} /\ Owed(c)' \in {0, 1} /\ (Owed(c) = 1 => Owed(c)' = 1)
  BY <1>1, <1>2, <1>3 DEF Owed, Owing
<1>5. \A c \in Chain : spent'[c] + Owed(c)' >= spent[c] + Owed(c)
  BY <1>1, <1>4 DEF SlotsOK
<1>6. Balanced'
  BY <1>1, <1>5, BalanceKept DEF SlotsOK
<1> QED
  BY <1>2, <1>6 DEF Counted, FlaggedTried

(* The start of a kernel pays what is owed.                                 *)
LEMMA TriedCounted ==
    ASSUME RetriesInv, launcher.at = "start", UNCHANGED <<status, retry>>,
           launcher'.at \in {"kernel", "returned", "off"}, spent' = Spent
    PROVE  Counted'
<1>1. SlotsOK /\ LauncherOK /\ ~launcher.recovery /\ RetryMax \in Nat
  BY RetryAssumption DEF RetriesInv, RootfsTyped, LauncherOK
<1>2. \A c \in Chain : Owed(c)' = 0
  BY DEF Owed, Owing
<1>3. ASSUME NEW c \in Chain
      PROVE  spent'[c] + Owed(c)' >= spent[c] + Owed(c) \/ spent'[c] >= RetryMax
  <2>1. spent[c] \in Nat /\ Owed(c)' = 0
    BY <1>1, <1>2 DEF SlotsOK
  <2>2. CASE launcher.slot = c /\ Unreadables = {} /\ spent[c] < MaxSpent
    <3>1. spent'[c] = spent[c] + 1 /\ Owed(c) = 1
      BY <1>1, <2>2 DEF Spent, Owed, Owing
    <3> QED
      BY <2>1, <3>1
  <2>3. CASE launcher.slot = c /\ Unreadables = {} /\ ~(spent[c] < MaxSpent)
    <3>1. spent'[c] = spent[c] /\ ~(spent[c] < 2 * RetryMax)
      BY <2>3 DEF Spent, MaxSpent
    <3> QED
      BY <1>1, <2>1, <3>1
  <2>4. CASE ~(launcher.slot = c /\ Unreadables = {})
    <3>1. spent'[c] = spent[c] /\ Owed(c) = 0
      BY <2>4 DEF Spent, Owed
    <3> QED
      BY <2>1, <3>1
  <2> QED
    BY <2>2, <2>3, <2>4
<1>4. Balanced'
  BY <1>1, <1>3, TriedTyped, BalanceKept
<1> QED
  BY <1>4 DEF Counted, FlaggedTried

(* A step that starts nothing and owes nothing.                             *)
LEMMA IdleCounted ==
    ASSUME RetriesInv, launcher.at \notin Owing \/ launcher.recovery,
           launcher'.at # "write", UNCHANGED <<status, retry, spent>>
    PROVE  Counted'
<1>1. \A c \in Chain : Owed(c) = 0 /\ Owed(c)' \in {0, 1}
  BY DEF Owed
<1>2. \A c \in Chain : spent'[c] + Owed(c)' >= spent[c] + Owed(c)
  BY <1>1 DEF RetriesInv, RootfsTyped, SlotsOK
<1>3. Balanced'
  BY <1>2, BalanceKept DEF RetriesInv, RootfsTyped, SlotsOK
<1> QED
  BY <1>3 DEF Counted, FlaggedTried

LEMMA StoreCounted == ASSUME RetriesInv, Store PROVE Counted'
<1>1. /\ launcher.at = "store" /\ LauncherOK /\ UNCHANGED <<status, retry, spent, nv>>
  BY DEF Store, Launcher, RetriesInv, RootfsTyped
<1>2. /\ launcher'.at = (IF launcher.recovery THEN "start recovery" ELSE "start")
      /\ launcher'.slot = launcher.slot /\ launcher'.recovery = launcher.recovery
  BY <1>1 DEF Store, Proceed, LauncherOK
<1>3. CASE launcher.recovery
  BY <1>1, <1>2, <1>3, IdleCounted
<1>4. CASE ~launcher.recovery
  <2>1. \A c \in Chain : Owed(c)' = Owed(c) /\ Owed(c) \in {0, 1}
    BY <1>1, <1>2, <1>4 DEF Owed, Owing, Unreadables
  <2>2. \A c \in Chain : spent'[c] + Owed(c)' >= spent[c] + Owed(c)
    BY <1>1, <2>1 DEF RetriesInv, RootfsTyped, SlotsOK
  <2>3. Balanced'
    BY <1>1, <2>2, BalanceKept DEF RetriesInv, RootfsTyped, SlotsOK
  <2> QED
    BY <1>2, <1>4, <2>3 DEF Counted, FlaggedTried
<1> QED
  BY <1>3, <1>4

LEMMA LauncherCounted ==
    ASSUME RetriesInv, LauncherStep, RetryMax < 4 PROVE Counted'
<1>0. LauncherOK
  BY DEF RetriesInv, RootfsTyped
<1>1. CASE ClearForSwitch
  <2>1. launcher'.at = "reset" /\ retry' = None
    BY <1>0, <1>1 DEF ClearForSwitch, Proceed, LauncherOK
  <2> QED
    BY <2>1 DEF Counted, Balanced, FlaggedTried
<1>2. CASE StartKernel \/ KernelReturns
  <2>1. launcher'.at \in {"kernel", "returned"}
    BY <1>0, <1>2 DEF StartKernel, KernelReturns, Proceed, LauncherOK
  <2> QED
    BY <1>2, <2>1, TriedCounted DEF StartKernel, KernelReturns, Launcher
<1>3. CASE KernelResets
  <2>1. launcher'.at = "off" /\ UNCHANGED <<status, retry>>
    BY <1>3 DEF KernelResets, ResetSystem, ResetLauncher, NotStarted
  <2> QED
    BY <1>3, <2>1, TriedCounted DEF KernelResets, Launcher
<1>4. CASE StartRecovery
  <2>1. launcher'.at \in {"recovery", "returned"} /\ launcher.at \notin Owing
    BY <1>0, <1>4 DEF StartRecovery, Launcher, Proceed, LauncherOK, Owing
  <2> QED
    BY <1>4, <2>1, IdleCounted DEF StartRecovery
<1>5. CASE ResetForSwitch
  <2>1. launcher'.at = "off" /\ launcher.at \notin Owing
    BY <1>5 DEF ResetForSwitch, Launcher, ResetSystem, ResetLauncher, NotStarted, Owing
  <2> QED
    BY <1>5, <2>1, IdleCounted DEF ResetForSwitch, ResetSystem
<1> QED
  BY <1>1, <1>2, <1>3, <1>4, <1>5, ValidateCounted, WriteStatusCounted, WriteNextCounted,
     StoreCounted DEF LauncherStep

(* A slot that comes up, or is written anew, has all its retries.           *)
LEMMA RenewedCounted ==
    ASSUME RetriesInv, RetryMax < 4, NEW c \in Chain,
           launcher.at \notin Owing, launcher'.at \notin Owing,
           retry' = IF retry = None THEN None ELSE [retry EXCEPT ![c] = RetryMax % 4],
           spent' = [spent EXCEPT ![c] = 0],
           \A d \in Chain \ {c} : status'[d] = status[d]
    PROVE  Counted'
<1>1. SlotsOK /\ RetryMax \in Nat /\ RetryMax % 4 = RetryMax
  BY RetryAssumption DEF RetriesInv, RootfsTyped
<1>2. \A d \in Chain : Owed(d) = 0 /\ Owed(d)' = 0
  BY DEF Owed
<1>3. Balanced'
  <2> SUFFICES ASSUME retry # None, retry' # None, NEW d \in Chain, status'[d] = NORMAL
               PROVE  spent'[d] + retry'[d] + Owed(d)' >= RetryMax
    BY DEF Balanced
  <2>1. retry \in [Chain -> 0..3] /\ spent \in [Chain -> Nat]
    BY <1>1 DEF SlotsOK
  <2>2. CASE d = c
    BY <1>1, <1>2, <2>1, <2>2
  <2>3. CASE d # c
    <3>1. status[d] = NORMAL /\ spent'[d] = spent[d] /\ retry'[d] = retry[d]
      BY <2>1, <2>3
    <3>2. spent[d] + retry[d] + Owed(d) >= RetryMax
      BY <3>1 DEF RetriesInv, Counted, Balanced
    <3> QED
      BY <1>2, <3>1, <3>2
  <2> QED
    BY <2>2, <2>3
<1> QED
  BY <1>3 DEF Counted, FlaggedTried, Owing

LEMMA OsCounted == ASSUME RetriesInv, RetryMax < 4, Confirm \/ Reflash PROVE Counted'
<1>1. LauncherOK /\ SlotsOK
  BY DEF RetriesInv, RootfsTyped
<1>2. CASE Confirm
  <2>1. launcher.at = "kernel" /\ launcher'.at = "up" /\ launcher.slot \in Chain
    BY <1>1, <1>2 DEF Confirm, Launcher, Proceed, LauncherOK
  <2>2. launcher.at \notin Owing /\ launcher'.at \notin Owing
    BY <2>1 DEF Owing
  <2> QED
    BY <1>2, <2>1, <2>2, RenewedCounted DEF Confirm
<1>3. CASE Reflash
  <2>1. launcher.at \notin Owing /\ launcher' = launcher
    BY <1>3 DEF Reflash, Running, Owing
  <2>2. PICK c \in Chain :
            /\ status' = [status EXCEPT ![c] = NORMAL]
            /\ retry' = IF retry = None THEN None ELSE [retry EXCEPT ![c] = RetryMax % 4]
            /\ spent' = [spent EXCEPT ![c] = 0]
    BY <1>3 DEF Reflash
  <2>3. \A d \in Chain \ {c} : status'[d] = status[d]
    BY <1>1, <2>2 DEF SlotsOK
  <2> QED
    BY <2>1, <2>2, <2>3, RenewedCounted
<1> QED
  BY <1>2, <1>3

LEMMA NextCounted ==
    ASSUME RetriesInv, RetryMax < 4, [RootfsNext]_allVars PROVE RetriesInv'
<1>1. RootfsTyped'
  BY NextTyped DEF RetriesInv
<1>2. CASE LauncherStep
  BY <1>1, <1>2, LauncherCounted DEF RetriesInv
<1>3. CASE Confirm \/ Reflash
  BY <1>1, <1>3, OsCounted DEF RetriesInv
<1>4. CASE OsRestarts \/ Watchdog
  <2>1. launcher.at \notin Owing /\ launcher'.at = "off"
    BY <1>4 DEF OsRestarts, Watchdog, Running, Launcher, Owing, ResetSystem, ResetLauncher,
                NotStarted
  <2>2. UNCHANGED <<status, retry, spent>>
    BY <1>4 DEF OsRestarts, Watchdog, ResetSystem
  <2> QED
    BY <1>1, <2>1, <2>2, IdleCounted DEF RetriesInv
<1>5. CASE OsWrites \/ SetBootMode \/ StartAgain
  <2>1. launcher.at \notin Owing /\ launcher'.at # "write"
    BY <1>5 DEF OsWrites, SetBootMode, StartAgain, Running, Launcher, Owing, NotStarted,
                rootfsVars
  <2>2. UNCHANGED <<status, retry, spent>>
    BY <1>5 DEF OsWrites, SetBootMode, StartAgain, rootfsVars
  <2> QED
    BY <1>1, <2>1, <2>2, IdleCounted DEF RetriesInv
<1>6. CASE FirmwareStep
  <2>1. launcher.at = "off" /\ UNCHANGED <<launcher, status, retry, spent>>
    BY <1>6, FirmwareBeforeOs DEF RetriesInv, RootfsTyped, Linked, OnlyInOs, FirmwareStep, At,
                                  rootfsVars
  <2>2. launcher.at \notin Owing /\ launcher'.at # "write"
    BY <2>1 DEF Owing
  <2> QED
    BY <1>1, <2>1, <2>2, IdleCounted DEF RetriesInv
<1>7. CASE LosePower
  BY <1>1, <1>7 DEF LosePower, ResetLauncher, NotStarted, RetriesInv, Counted, Balanced,
                    FlaggedTried
<1>8. CASE UNCHANGED allVars
  BY <1>1, <1>8 DEF allVars, vars, rootfsVars, RetriesInv, Counted, Balanced, FlaggedTried,
                    Owed, Unreadables
<1> QED
  BY <1>2, <1>3, <1>4, <1>5, <1>6, <1>7, <1>8 DEF RootfsNext, Runs

LEMMA InitCounted == ASSUME RootfsInit PROVE RetriesInv
  BY InitTyped DEF RootfsInit, NotStarted, RetriesInv, Counted, Balanced, FlaggedTried

(* Only the launcher declares a slot unbootable, and only a flagged one.    *)
LEMMA DeclaredTried ==
    ASSUME RetriesInv, [RootfsNext]_allVars, NEW c \in Chain,
           status[c] = NORMAL, status'[c] = UNBOOTABLE
    PROVE  spent[c] >= RetryMax
<1>0. NORMAL # UNBOOTABLE /\ SlotsOK /\ LauncherOK
  BY DEF NORMAL, UNBOOTABLE, RetriesInv, RootfsTyped
<1>1. CASE WriteStatus
  <2>1. c \in launcher.flagged /\ launcher.at = "write"
    BY <1>0, <1>1 DEF WriteStatus, FirstFlagged, Launcher, SlotsOK
  <2> QED
    BY <2>1 DEF RetriesInv, Counted, FlaggedTried
<1>2. CASE Reflash
  BY <1>0, <1>2 DEF Reflash, SlotsOK
<1>3. CASE LauncherStep /\ ~WriteStatus
  BY <1>0, <1>3 DEF LauncherStep, ValidateRootfsStatus, WriteNext, ClearForSwitch,
     ResetForSwitch, Store, StartKernel, KernelReturns, KernelResets, StartRecovery, ResetSystem
<1>4. CASE FirmwareStep \/ Confirm \/ Watchdog \/ StartAgain \/ SetBootMode \/ OsWrites
             \/ OsRestarts \/ LosePower \/ UNCHANGED allVars
  BY <1>0, <1>4 DEF FirmwareStep, Confirm, Watchdog, StartAgain, SetBootMode, OsWrites,
     OsRestarts, LosePower, ResetSystem, allVars, rootfsVars
<1> QED
  BY <1>1, <1>2, <1>3, <1>4 DEF RootfsNext, Runs

(* A slot is declared unbootable only when its retries have been used, for  *)
(* every count that fits the two bits of the register: neither a restart,   *)
(* nor a lost register, nor a write that fails, costs a slot a retry        *)
(* (ValidateRootfsStatus).                                                  *)
THEOREM DeclaredAfterTries ==
    ASSUME RetryMax < 4 PROVE RootfsSpec => UnbootableMeansTried
<1>1. RootfsInit => RetriesInv
  BY InitCounted
<1>2. RetriesInv /\ [RootfsNext]_allVars => RetriesInv'
  BY NextCounted
<1>3. RetriesInv /\ [RootfsNext]_allVars =>
        [\A c \in Chain : status[c] = NORMAL /\ status'[c] = UNBOOTABLE
            => spent[c] >= RetryMax]_allVars
  BY DeclaredTried
<1> QED
  BY <1>1, <1>2, <1>3, PTL DEF RootfsSpec, UnbootableMeansTried

-----------------------------------------------------------------------------
(* Recovery.  What the launcher has read is what the variables hold, but    *)
(* for the slots it still has to declare unbootable; none is left to        *)
(* declare once it goes on, unless a write failed; and it has chosen        *)
(* recovery only when no slot was left.                                     *)
Deciding == {"write", "store", "start recovery"}

ReadAgrees ==
    launcher.at \in Deciding => \A c \in Chain :
        launcher.status[c] = IF c \in launcher.flagged THEN UNBOOTABLE ELSE status[c]

AllDeclared ==
    launcher.at \in {"clear", "store", "start recovery"} /\ used.nvFaults = 0
        => launcher.flagged = {}

RecoveryChosen ==
    /\ launcher.at \in Deciding /\ launcher.recovery /\ bootMode # "recovery"
         => ~IsValidRootfs(launcher.status)
    /\ launcher.at = "start recovery" => launcher.recovery

Decided == HistoryOK /\ ReadAgrees /\ AllDeclared /\ RecoveryChosen
RecoveryInv == RootfsTyped /\ Decided

LEMMA ElsewhereDecided ==
    ASSUME HistoryOK', launcher'.at \notin Deciding, launcher'.at # "clear"
    PROVE  Decided'
  BY DEF Decided, ReadAgrees, AllDeclared, RecoveryChosen, Deciding

LEMMA ValidateDecided == ASSUME RecoveryInv, ValidateRootfsStatus PROVE Decided'
<1>1. /\ At("os") /\ SlotsOK /\ IInv /\ HistoryOK
      /\ UNCHANGED <<status, bootMode, redundancy>> /\ Success
  BY DEF ValidateRootfsStatus, Launcher, RootfsTyped, RecoveryInv, Decided, rootfsFixed
<1>2. HistoryOK'
  BY <1>1, CountersGrow
<1>3. ASSUME NEW label \in {"write", "store"}, NEW slot, NEW recovery, NEW unbootable, NEW next,
             Validated(label, slot, recovery, unbootable, next),
             label = "store" => unbootable = {},
             /\ recovery = TRUE /\ bootMode # "recovery"
             => \A c \in Chain : (redundancy = BOOT_ONLY => c = "A")
                   => c \in unbootable \/ status[c] = UNBOOTABLE
      PROVE  Decided'
  <2>1. /\ launcher'.at = label /\ launcher'.recovery = recovery
        /\ launcher'.flagged = unbootable
        /\ \A c \in Chain : launcher'.status[c] =
                               IF c \in unbootable THEN UNBOOTABLE ELSE status[c]
    BY <1>3 DEF Validated
  <2>2. ReadAgrees' /\ AllDeclared'
    BY <1>1, <1>3, <2>1 DEF ReadAgrees, AllDeclared
  <2>3. RecoveryChosen'
    BY <1>1, <1>3, <2>1 DEF RecoveryChosen, IsValidRootfs
  <2> QED
    BY <1>2, <2>2, <2>3 DEF Decided
<1>4. CASE RecoveryRequested
  BY <1>3, <1>4 DEF RecoveryRequested
<1>5. CASE VariableUnreadable
  BY <1>3, <1>5 DEF VariableUnreadable
<1>6. CASE NoValidRootfs
  BY <1>3, <1>6 DEF NoValidRootfs, IsValidRootfs
<1>7. CASE CurrentSlotBootable
  BY <1>3, <1>7 DEF CurrentSlotBootable
<1>8. CASE OnlySlotExhausted
  BY <1>3, <1>8 DEF OnlySlotExhausted, CurrentSlot
<1>9. CASE SwitchSlot
  BY <1>3, <1>9 DEF SwitchSlot
<1>10. CASE BothSlotsExhausted
  BY <1>3, <1>10 DEF BothSlotsExhausted
<1> QED
  BY <1>4, <1>5, <1>6, <1>7, <1>8, <1>9, <1>10 DEF ValidateRootfsStatus

LEMMA WriteStatusDecided == ASSUME RecoveryInv, WriteStatus PROVE Decided'
<1>1. /\ launcher.at = "write" /\ LauncherOK /\ SlotsOK /\ HistoryOK
      /\ UNCHANGED <<bootMode, redundancy>> /\ ReadAgrees /\ RecoveryChosen
  BY DEF WriteStatus, Launcher, RecoveryInv, RootfsTyped, Decided, rootfsFixed
<1>2. PICK c \in FirstFlagged :
         \/ /\ status' = [status EXCEPT ![c] = UNBOOTABLE]
            /\ launcher' = [launcher EXCEPT !.flagged = @ \ {c}]
            /\ Success
         \/ NvFault /\ Proceed(Written) /\ status' = status
  BY DEF WriteStatus
<1>3. HistoryOK'
  BY <1>1, <1>2, CountersGrow
<1>4. c \in launcher.flagged /\ c \in Chain
  BY <1>1 DEF FirstFlagged, LauncherOK
<1>5. CASE /\ status' = [status EXCEPT ![c] = UNBOOTABLE]
           /\ launcher' = [launcher EXCEPT !.flagged = @ \ {c}]
  <2>1. /\ launcher'.at = "write" /\ launcher'.recovery = launcher.recovery
        /\ launcher'.status = launcher.status /\ launcher'.flagged = launcher.flagged \ {c}
    BY <1>1, <1>5 DEF LauncherOK
  <2>2. \A d \in Chain : status'[d] = IF d = c THEN UNBOOTABLE ELSE status[d]
    BY <1>1, <1>5 DEF SlotsOK
  <2>3. ReadAgrees'
    BY <1>1, <1>4, <2>1, <2>2 DEF ReadAgrees, Deciding
  <2> QED
    BY <1>1, <1>3, <2>1, <2>3 DEF Decided, AllDeclared, RecoveryChosen, Deciding, IsValidRootfs
<1>6. CASE NvFault /\ Proceed(Written) /\ status' = status
  <2>1. /\ launcher'.at \in {"clear", "store"} /\ launcher'.recovery = launcher.recovery
        /\ launcher'.status = launcher.status /\ launcher'.flagged = launcher.flagged
    BY <1>1, <1>6 DEF LauncherOK, Proceed, Written
  <2>2. used' = [used EXCEPT !.nvFaults = @ + 1]
    BY <1>6 DEF NvFault
  <2>3. used'.nvFaults # 0
    BY <1>1, <2>2 DEF HistoryOK, UsedOK
  <2> QED
    BY <1>1, <1>3, <1>6, <2>1, <2>3
       DEF Decided, ReadAgrees, AllDeclared, RecoveryChosen, Deciding, IsValidRootfs
<1> QED
  BY <1>2, <1>5, <1>6

LEMMA WriteNextDecided == ASSUME RecoveryInv, WriteNext PROVE Decided'
<1>1. /\ launcher.at = "write" /\ launcher.flagged = {} /\ LauncherOK /\ HistoryOK
      /\ UNCHANGED <<bootMode, redundancy, status>> /\ ReadAgrees /\ RecoveryChosen
      /\ Success \/ NvFault
  BY DEF WriteNext, Launcher, RecoveryInv, RootfsTyped, Decided, rootfsFixed
<1>2. /\ launcher'.at \in {"clear", "store"} /\ launcher'.recovery = launcher.recovery
      /\ launcher'.status = launcher.status /\ launcher'.flagged = launcher.flagged
  BY <1>1 DEF WriteNext, LauncherOK, Proceed, Written
<1>3. HistoryOK'
  BY <1>1, CountersGrow
<1> QED
  BY <1>1, <1>2, <1>3
     DEF Decided, ReadAgrees, AllDeclared, RecoveryChosen, Deciding, IsValidRootfs

LEMMA StoreDecided == ASSUME RecoveryInv, Store PROVE Decided'
<1>1. /\ launcher.at = "store" /\ LauncherOK /\ HistoryOK /\ Success
      /\ UNCHANGED <<bootMode, redundancy, status>> /\ Decided
  BY DEF Store, Launcher, RecoveryInv, RootfsTyped, Decided, rootfsFixed
<1>2. /\ launcher'.at = (IF launcher.recovery THEN "start recovery" ELSE "start")
      /\ launcher'.recovery = launcher.recovery
      /\ launcher'.status = launcher.status /\ launcher'.flagged = launcher.flagged
  BY <1>1 DEF Store, LauncherOK, Proceed
<1>3. HistoryOK' /\ used' = used
  BY <1>1, CountersGrow DEF Success
<1> QED
  BY <1>1, <1>2, <1>3
     DEF Decided, ReadAgrees, AllDeclared, RecoveryChosen, Deciding, IsValidRootfs

LEMMA CountsKept ==
    ASSUME RootfsTyped, HistoryOK, [RootfsNext]_allVars PROVE HistoryOK' /\ Grows
<1>0. UsedOK /\ AskedOK /\ IInv
  BY DEF HistoryOK, RootfsTyped
<1>1. CASE LauncherStep
  <2>1. Success \/ NvFault
    BY <1>1 DEF LauncherStep, ValidateRootfsStatus, WriteStatus, WriteNext, ClearForSwitch,
       ResetForSwitch, Store, StartKernel, KernelReturns, KernelResets, StartRecovery, ResetSystem
  <2> QED
    BY <1>0, <2>1, CountersGrow
<1>2. CASE FirmwareStep
  BY <1>0, <1>2, HistoryKeeps DEF FirmwareStep, Next
<1>3. CASE OsWrites
  BY <1>0, <1>3, HistoryKeeps DEF OsWrites, OsStep, Next
<1>4. CASE LosePower
  BY <1>0, <1>4, HistoryKeeps DEF LosePower, Next
<1>5. CASE Watchdog \/ OsRestarts \/ StartAgain
  BY <1>0, <1>5, CountersGrow DEF Watchdog, OsRestarts, StartAgain, ResetSystem
<1>6. CASE Confirm \/ UNCHANGED allVars
  BY <1>0, <1>6, CountersGrow DEF Confirm, allVars, vars, Success
<1>7. CASE Reflash \/ SetBootMode
  <2>1. used' = [used EXCEPT !.requests = @ + 1] /\ asked' = asked
    BY <1>7 DEF Reflash, SetBootMode
  <2>2. UsedOK' /\ Grows
    BY <1>0, <2>1 DEF UsedOK, Grows
  <2>3. AskedOK'
    BY <1>0, <2>1 DEF AskedOK
  <2> QED
    BY <2>2, <2>3 DEF HistoryOK
<1> QED
  BY <1>1, <1>2, <1>3, <1>4, <1>5, <1>6, <1>7 DEF RootfsNext, Runs

LEMMA NextDecided == ASSUME RecoveryInv, [RootfsNext]_allVars PROVE RecoveryInv'
<1>1. RootfsTyped' /\ HistoryOK'
  BY NextTyped, CountsKept DEF RecoveryInv, Decided
<1>2. LauncherOK
  BY DEF RecoveryInv, RootfsTyped
<1>3. CASE LauncherStep
  <2>1. CASE ClearForSwitch
    <3>1. launcher'.at = "reset"
      BY <1>2, <2>1 DEF ClearForSwitch, Proceed, LauncherOK
    <3> QED
      BY <1>1, <3>1, ElsewhereDecided DEF Deciding, RecoveryInv
  <2>2. CASE ResetForSwitch \/ KernelResets
    <3>1. launcher'.at = "off"
      BY <2>2 DEF ResetForSwitch, KernelResets, ResetSystem, ResetLauncher, NotStarted
    <3> QED
      BY <1>1, <3>1, ElsewhereDecided DEF Deciding, RecoveryInv
  <2>3. CASE StartKernel \/ KernelReturns \/ StartRecovery
    <3>1. launcher'.at \in {"kernel", "returned", "recovery"}
      BY <1>2, <2>3 DEF StartKernel, KernelReturns, StartRecovery, Proceed, LauncherOK
    <3> QED
      BY <1>1, <3>1, ElsewhereDecided DEF Deciding, RecoveryInv
  <2>4. CASE ValidateRootfsStatus \/ WriteStatus \/ WriteNext \/ Store
    BY <1>1, <2>4, ValidateDecided, WriteStatusDecided, WriteNextDecided, StoreDecided
       DEF RecoveryInv
  <2> QED
    BY <1>3, <2>1, <2>2, <2>3, <2>4 DEF LauncherStep
<1>4. CASE OsRestarts \/ Watchdog \/ StartAgain \/ LosePower
  <2>1. launcher'.at = "off"
    BY <1>4 DEF OsRestarts, Watchdog, StartAgain, LosePower, ResetSystem, ResetLauncher,
       NotStarted
  <2> QED
    BY <1>1, <2>1, ElsewhereDecided DEF Deciding, RecoveryInv
<1>5. CASE Confirm
  <2>1. launcher'.at = "up"
    BY <1>2, <1>5 DEF Confirm, Proceed, LauncherOK
  <2> QED
    BY <1>1, <2>1, ElsewhereDecided DEF Deciding, RecoveryInv
<1>6. CASE Reflash \/ SetBootMode \/ OsWrites
  <2>1. launcher.at \in {"up", "recovery"} /\ launcher' = launcher
    BY <1>6 DEF Reflash, SetBootMode, OsWrites, Running, rootfsVars
  <2> QED
    BY <1>1, <2>1, ElsewhereDecided DEF Deciding, RecoveryInv
<1>7. CASE FirmwareStep
  <2>1. launcher.at = "off" /\ launcher' = launcher
    BY <1>7, FirmwareBeforeOs DEF RecoveryInv, RootfsTyped, Linked, OnlyInOs, FirmwareStep, At,
                                  rootfsVars
  <2> QED
    BY <1>1, <2>1, ElsewhereDecided DEF Deciding, RecoveryInv
<1>8. CASE UNCHANGED allVars
  BY <1>1, <1>8 DEF allVars, vars, rootfsVars, rootfsFixed, RecoveryInv, Decided, ReadAgrees,
                    AllDeclared, RecoveryChosen, IsValidRootfs
<1> QED
  BY <1>3, <1>4, <1>5, <1>6, <1>7, <1>8 DEF RootfsNext, Runs

(* The recovery kernel starts only when it was asked for or no slot is      *)
(* left: what ValidateRootfsStatus decided in memory is what the variables  *)
(* say when the kernel starts, unless a write of a status failed.           *)
THEOREM RecoveryComesLast == RootfsSpec => []RecoveryIsLast
<1>1. RootfsInit => RecoveryInv
  <2>1. SUFFICES ASSUME RootfsInit PROVE Decided
    BY InitTyped DEF RecoveryInv
  <2>2. Init /\ launcher.at = "off"
    BY <2>1 DEF RootfsInit, NotStarted
  <2>3. HistoryOK
    BY <2>2, BooksStart DEF BooksInv
  <2> QED
    BY <2>2, <2>3 DEF Decided, ReadAgrees, AllDeclared, RecoveryChosen, Deciding
<1>2. RecoveryInv /\ [RootfsNext]_allVars => RecoveryInv'
  BY NextDecided
<1>3. RecoveryInv => RecoveryIsLast
  <2>1. SUFFICES ASSUME RecoveryInv, launcher.at = "start recovery", bootMode # "recovery",
                        used.nvFaults = 0
                 PROVE  ~IsValidRootfs(status)
    BY DEF RecoveryIsLast
  <2>2. ~IsValidRootfs(launcher.status) /\ launcher.flagged = {}
    BY <2>1 DEF RecoveryInv, Decided, AllDeclared, RecoveryChosen, Deciding
  <2>3. \A c \in Chain : launcher.status[c] = status[c]
    BY <2>1, <2>2 DEF RecoveryInv, Decided, ReadAgrees, Deciding
  <2> QED
    BY <2>2, <2>3 DEF IsValidRootfs
<1> QED
  BY <1>1, <1>2, <1>3, PTL DEF RootfsSpec

(* The launcher on top of the firmware does not disturb it: chains stay     *)
(* whole or invisible, and one of them starts (FmpTegraSetImage).           *)
THEOREM FirmwareUndisturbed == RootfsSpec => [](WholeChains /\ SomeChainStarts)
<1>1. RootfsInit => RootfsTyped
  BY InitTyped
<1>2. RootfsTyped /\ [RootfsNext]_allVars => RootfsTyped'
  BY NextTyped
<1>3. RootfsTyped => WholeChains /\ SomeChainStarts
  BY DEF RootfsTyped, IInv
<1> QED
  BY <1>1, <1>2, <1>3, PTL DEF RootfsSpec

-----------------------------------------------------------------------------
(* The retries of a slot.  Where nothing has failed, the starts of a slot   *)
(* and the retries it has left add up to RootfsRetryCountMax at most, also  *)
(* when the register is set up afresh: a slot that has been started without *)
(* coming up is the one the next boot comes back to, through a firmware     *)
(* that finds no request and no capsule, and nothing clears the register on *)
(* that way before the slot is declared unbootable.                         *)
Smooth == used.faults = 0 /\ used.nvFaults = 0 /\ ~used.tornCopied

LevelKnown == redundancy \in {BOOT_ONLY, BOOT_ROOTFS}

(* The slot that the launcher takes, where it does not follow the firmware. *)
HomeSlot(c) ==
    /\ redundancy = BOOT_ONLY => c = "A"
    /\ redundancy # BOOT_ONLY /\ override # None => c = override

(* What the launcher has chosen when it is to start a slot.                 *)
Counting == {"write", "store", "start", "kernel"}
Chosen ==
    launcher.at \in Counting /\ ~launcher.recovery =>
      /\ launcher.at # "write" => ~launcher.next
      /\ launcher.at = "write" => Unreadables = {}
      /\ launcher.at # "kernel" => bootMode # "recovery"
      /\ launcher.at # "kernel" /\ ~launcher.next /\ Unreadables = {} => HomeSlot(launcher.slot)

(* No request and no capsule waits while the launcher chooses.              *)
OsQuiet ==
    used.nvFaults = 0 /\ At("os") /\ ~Running =>
      pending = None /\ (launcher.at \notin {"clear", "reset"} => nv.next = None)

(* A slot that has been started, did not come up and is not given up.       *)
HalfTried(c) ==
    spent[c] > 0 /\ status[c] = NORMAL /\ ~(launcher.at = "write" /\ c \in launcher.flagged)

FirmwareComesBack(c) ==
    /\ nv.next = None /\ pending = None /\ OnWay
    /\ Free => (run.at # "off" => boot = c) /\ (run.at = "off" => RomSays(c))
LauncherComesBack(c) ==
    /\ retry # None /\ Unreadables = {} /\ bootMode # "recovery" /\ HomeSlot(c)
    /\ launcher.at \in {"off", "write", "store", "start", "kernel", "returned"}
    /\ launcher.at # "off" => launcher.slot = c /\ ~launcher.recovery /\ ~launcher.next
ComesBack(c) == FirmwareComesBack(c) /\ LauncherComesBack(c)

UsedUp(c) ==
    /\ spent[c] <= RetryMax
    /\ retry # None => spent[c] + retry[c] + Owed(c) <= RetryMax
    /\ Owed(c) = 1 => retry # None

Accounted(c) == UsedUp(c) /\ (HalfTried(c) => ComesBack(c))
Spending == Smooth => \A c \in Chain : Accounted(c)

SpentInv == RootfsTyped /\ SteadyInv /\ LevelKnown /\ Chosen /\ OsQuiet /\ Spending

-----------------------------------------------------------------------------
(* The firmware's part goes on holding with the launcher on top of it.      *)
LEMMA SteadyQuiet ==
    ASSUME SteadyInv, At("os"), MachineUnchanged, HistoryOK', Grows PROVE SteadyInv'
<1>1. /\ run' = run /\ run.at = "os" /\ platform' = platform /\ slots' = slots /\ boot' = boot
      /\ image' = image /\ reg' = reg /\ pending' = pending /\ SlotNumbers' = SlotNumbers
  BY DEF MachineUnchanged, At, fixed, flash, SlotNumbers
<1>2. UsedOK /\ UsedOK'
  BY DEF SteadyInv, HistoryOK
<1>3. used'.faults = 0 => used.faults = 0
  BY <1>2 DEF Grows, UsedOK
<1>4. ~used'.tornCopied => ~used.tornCopied
  BY <1>2 DEF Grows, UsedOK
<1>5. /\ StatusMeans' /\ SlotInRange' /\ WrittenSlots' /\ WrittenWhole' /\ OwnChainWritten'
      /\ NoPending' /\ NextGone'
  BY <1>1 DEF StatusMeans, EndLabels, SlotInRange, WrittenSlots, WrittenWhole, OwnChainWritten,
     WritingSlots, NoPending, NextGone, Closing
<1>6. MarkedSlots'
  BY <1>1 DEF SteadyInv, MarkedSlots
<1>7. OneChoice'
  <2>1. \A c \in Chain : FirstIs(c)' = FirstIs(c)
    BY <1>1 DEF FirstIs, FirstValid
  <2> QED
    BY <1>1, <1>3, <2>1 DEF SteadyInv, OneChoice
<1>8. RomAgrees'
  <2>1. RomSays(boot) => RomSays(boot)'
    BY <1>1, RomSame DEF RomSays
  <2> QED
    BY <1>1, <1>3, <1>4, <2>1 DEF SteadyInv, RomAgrees
<1> QED
  BY <1>5, <1>6, <1>7, <1>8 DEF SteadyInv

LEMMA SteadyReset ==
    ASSUME IInv, SteadyInv, At("os"), ResetSystem PROVE SteadyInv'
  BY SteadyKeeps DEF ResetSystem, OsStep, OsRestart, Next

LEMMA SteadyStays ==
    ASSUME RootfsTyped, SteadyInv, [RootfsNext]_allVars PROVE SteadyInv' /\ HistoryOK' /\ Grows
<1>0. IInv /\ HistoryOK
  BY DEF RootfsTyped, SteadyInv
<1>1. HistoryOK' /\ Grows
  BY <1>0, CountsKept
<1>2. CASE FirmwareStep \/ OsWrites \/ LosePower
  <2>1. Next
    BY <1>2 DEF FirmwareStep, OsWrites, LosePower, OsStep, Next
  <2> QED
    BY <1>0, <1>1, <2>1, SteadyKeeps
<1>3. CASE ResetForSwitch \/ KernelResets \/ Watchdog \/ OsRestarts
  <2>1. At("os") /\ ResetSystem
    BY <1>3 DEF ResetForSwitch, KernelResets, Watchdog, OsRestarts, Launcher
  <2> QED
    BY <1>0, <1>1, <2>1, SteadyReset
<1>4. CASE (LauncherStep \/ Confirm \/ StartAgain \/ Reflash \/ SetBootMode)
             /\ ~ResetForSwitch /\ ~KernelResets
  <2>1. At("os") /\ MachineUnchanged
    BY <1>4 DEF LauncherStep, ValidateRootfsStatus, WriteStatus, WriteNext, ClearForSwitch, Store,
       StartKernel, KernelReturns, StartRecovery, Confirm, StartAgain, Reflash, SetBootMode,
       Launcher, MachineUnchanged, vars, fixed, flash
  <2> QED
    BY <1>1, <2>1, SteadyQuiet
<1>5. CASE UNCHANGED allVars
  <2>1. /\ run' = run /\ nv' = nv /\ used' = used /\ pending' = pending /\ boot' = boot
        /\ slots' = slots /\ platform' = platform /\ reg' = reg /\ backup' = backup
        /\ image' = image /\ SlotNumbers' = SlotNumbers
    BY <1>5 DEF allVars, vars, SlotNumbers
  <2>2. FirstValid' = FirstValid /\ \A c \in Chain : FirstIs(c)' = FirstIs(c)
    BY <2>1 DEF FirstValid, FirstIs
  <2>3. RomSays(boot) => RomSays(boot)'
    BY <2>1, RomSame DEF RomSays
  <2>4. RomAgrees' /\ OneChoice' /\ MarkedSlots' /\ WrittenWhole' /\ SlotInRange'
    BY <2>1, <2>2, <2>3 DEF SteadyInv, RomAgrees, OneChoice, MarkedSlots, WrittenWhole,
       SlotInRange, SlotShouldBeUpdated, SlotShouldBeInvalidated
  <2>5. WrittenSlots' /\ StatusMeans' /\ OwnChainWritten' /\ NoPending' /\ NextGone'
    BY <2>1 DEF SteadyInv, WrittenSlots, StatusMeans, OwnChainWritten, NoPending, NextGone,
       WritingSlots, SlotShouldBeUpdated, SlotShouldBeInvalidated, SlotData
  <2> QED
    BY <1>1, <2>4, <2>5 DEF SteadyInv
<1> QED
  BY <1>2, <1>3, <1>4, <1>5 DEF RootfsNext, Runs, LauncherStep

LEMMA SmoothBefore ==
    ASSUME HistoryOK, HistoryOK', Grows, Smooth' PROVE Smooth
<1>1. UsedOK /\ UsedOK'
  BY DEF HistoryOK
<1>2. used'.faults = 0 /\ used'.nvFaults = 0 /\ used'.tornCopied = FALSE
  BY <1>1 DEF Smooth, UsedOK
<1>3. used.faults \in Nat /\ used.nvFaults \in Nat /\ used.tornCopied \in BOOLEAN
  BY <1>1 DEF UsedOK
<1> QED
  BY <1>2, <1>3 DEF Grows, Smooth

LEMMA LevelStays ==
    ASSUME [RootfsNext]_allVars PROVE UNCHANGED rootfsFixed
<1>1. CASE LauncherStep
  BY <1>1 DEF LauncherStep, ValidateRootfsStatus, WriteStatus, WriteNext, ClearForSwitch, Store,
     StartKernel, KernelReturns, StartRecovery, ResetForSwitch, KernelResets, ResetSystem
<1>2. CASE FirmwareStep \/ Confirm \/ Watchdog \/ StartAgain \/ SetBootMode \/ OsWrites
             \/ OsRestarts \/ LosePower \/ Reflash \/ UNCHANGED allVars
  BY <1>2 DEF FirmwareStep, Confirm, Watchdog, StartAgain, SetBootMode, OsWrites, Reflash,
     OsRestarts, LosePower, ResetSystem, allVars, rootfsVars
<1> QED
  BY <1>1, <1>2 DEF RootfsNext, Runs

-----------------------------------------------------------------------------
(* What has been chosen.                                                    *)
LEMMA ValidatedMeans ==
    ASSUME NEW label, NEW slot, NEW recovery, NEW unbootable, NEW next,
           Validated(label, slot, recovery, unbootable, next)
    PROVE  /\ launcher'.at = label /\ launcher'.slot = slot /\ launcher'.recovery = recovery
           /\ launcher'.flagged = unbootable /\ launcher'.next = next
  BY DEF Validated

LEMMA ValidateChosen == ASSUME SlotsOK, ValidateRootfsStatus PROVE Chosen'
<1>1. bootMode' = bootMode /\ nv' = nv /\ redundancy' = redundancy /\ override' = override
  BY DEF ValidateRootfsStatus, rootfsFixed
<1>2. Unreadables' = Unreadables /\ \A c : HomeSlot(c)' = HomeSlot(c)
  BY <1>1 DEF Unreadables, HomeSlot
<1>3. HomeSlot(CurrentSlot)
  BY DEF HomeSlot, CurrentSlot, BootParamsChain
<1>4. CASE RecoveryRequested \/ NoValidRootfs \/ OnlySlotExhausted \/ BothSlotsExhausted
  <2>1. launcher'.recovery = TRUE
    BY <1>4, ValidatedMeans DEF RecoveryRequested, NoValidRootfs, OnlySlotExhausted,
       BothSlotsExhausted
  <2> QED
    BY <2>1 DEF Chosen
<1>5. CASE VariableUnreadable
  <2>1. launcher'.at = "store" /\ launcher'.next = FALSE
    BY <1>5, ValidatedMeans DEF VariableUnreadable
  <2> QED
    BY <1>1, <1>2, <1>5, <2>1 DEF Chosen, VariableUnreadable
<1>6. CASE CurrentSlotBootable
  <2>1. launcher'.at = "write" /\ launcher'.slot = CurrentSlot
    BY <1>6, ValidatedMeans DEF CurrentSlotBootable
  <2> QED
    BY <1>1, <1>2, <1>3, <1>6, <2>1 DEF Chosen, CurrentSlotBootable, Readable
<1>7. CASE SwitchSlot
  <2>1. launcher'.at = "write" /\ launcher'.next = TRUE
    BY <1>7, ValidatedMeans DEF SwitchSlot
  <2> QED
    BY <1>1, <1>2, <1>7, <2>1 DEF Chosen, SwitchSlot, Exhausted, Readable
<1> QED
  BY <1>4, <1>5, <1>6, <1>7 DEF ValidateRootfsStatus

(* The launcher goes on with what it has chosen.                            *)
LEMMA GoesOnChosen ==
    ASSUME Chosen, LauncherOK, launcher.at \in {"write", "store", "start"},
           /\ launcher'.slot = launcher.slot /\ launcher'.recovery = launcher.recovery
           /\ launcher'.next = launcher.next,
           launcher'.at \in {"write", "store", "start", "kernel"},
           UNCHANGED <<bootMode, nv, rootfsFixed>>,
           launcher'.at = "write" => launcher.at = "write",
           launcher'.at # "write" /\ launcher.at = "write" => ~launcher.next
    PROVE  Chosen'
<1>1. Unreadables' = Unreadables /\ \A c : HomeSlot(c)' = HomeSlot(c)
  BY DEF Unreadables, HomeSlot, rootfsFixed
<1> QED
  BY <1>1 DEF Chosen, Counting

LEMMA ChosenKeeps ==
    ASSUME RootfsTyped, Chosen, [RootfsNext]_allVars PROVE Chosen'
<1>0. LauncherOK /\ SlotsOK /\ UNCHANGED rootfsFixed
  BY LevelStays DEF RootfsTyped
<1>a. launcher'.at \notin Counting => Chosen'
  BY DEF Chosen
<1>p. \A label \in LauncherLabels : Proceed(label) => 
        /\ launcher'.at = label /\ launcher'.slot = launcher.slot
        /\ launcher'.recovery = launcher.recovery /\ launcher'.next = launcher.next
  BY <1>0 DEF Proceed, LauncherOK
<1>1. CASE ValidateRootfsStatus
  BY <1>0, <1>1, ValidateChosen
<1>2. CASE WriteStatus
  <2>1. launcher.at = "write" /\ UNCHANGED <<bootMode, nv>>
    BY <1>2 DEF WriteStatus, Launcher, NvFault
  <2>2. CASE Proceed(Written)
    <3>1. CASE launcher.next
      BY <1>a, <1>p, <2>2, <3>1 DEF Written, Counting, LauncherLabels
    <3>2. CASE ~launcher.next
      <4>1. launcher'.at = "store" /\ launcher'.slot = launcher.slot
            /\ launcher'.recovery = launcher.recovery /\ launcher'.next = launcher.next
        BY <1>p, <2>2, <3>2 DEF Written, LauncherLabels
      <4> QED
        BY <1>0, <2>1, <3>2, <4>1, GoesOnChosen
    <3> QED
      BY <3>1, <3>2
  <2>3. CASE \E c \in FirstFlagged : launcher' = [launcher EXCEPT !.flagged = @ \ {c}]
    <3>1. launcher'.at = "write" /\ launcher'.slot = launcher.slot
          /\ launcher'.recovery = launcher.recovery /\ launcher'.next = launcher.next
      BY <1>0, <2>1, <2>3 DEF LauncherOK
    <3> QED
      BY <1>0, <2>1, <3>1, GoesOnChosen
  <2> QED
    BY <1>2, <2>2, <2>3 DEF WriteStatus
<1>3. CASE WriteNext
  <2>1. launcher.at = "write" /\ Proceed(Written) /\ bootMode' = bootMode
    BY <1>3 DEF WriteNext, Launcher
  <2>2. CASE launcher.next
    BY <1>a, <1>p, <2>1, <2>2 DEF Written, Counting, LauncherLabels
  <2>3. CASE ~launcher.next
    <3>1. nv' = nv
      BY <1>3, <2>3 DEF WriteNext
    <3>2. launcher'.at = "store" /\ launcher'.slot = launcher.slot
          /\ launcher'.recovery = launcher.recovery /\ launcher'.next = launcher.next
      BY <1>p, <2>1, <2>3 DEF Written, LauncherLabels
    <3> QED
      BY <1>0, <2>1, <2>3, <3>1, <3>2, GoesOnChosen
  <2> QED
    BY <2>2, <2>3
<1>4. CASE Store
  <2>1. launcher.at = "store" /\ UNCHANGED <<bootMode, nv>>
    BY <1>4 DEF Store, Launcher
  <2>2. CASE launcher.recovery
    BY <1>a, <1>p, <1>4, <2>2 DEF Store, Counting, LauncherLabels
  <2>3. CASE ~launcher.recovery
    <3>1. launcher'.at = "start" /\ launcher'.slot = launcher.slot
          /\ launcher'.recovery = launcher.recovery /\ launcher'.next = launcher.next
      BY <1>p, <1>4, <2>3 DEF Store, LauncherLabels
    <3> QED
      BY <1>0, <2>1, <3>1, GoesOnChosen
  <2> QED
    BY <2>2, <2>3
<1>5. CASE StartKernel
  <2>1. launcher.at = "start" /\ UNCHANGED <<bootMode, nv>>
    BY <1>5 DEF StartKernel, Launcher
  <2>2. launcher'.at = "kernel" /\ launcher'.slot = launcher.slot
        /\ launcher'.recovery = launcher.recovery /\ launcher'.next = launcher.next
    BY <1>p, <1>5 DEF StartKernel, LauncherLabels
  <2> QED
    BY <1>0, <2>1, <2>2, GoesOnChosen
<1>6. CASE ClearForSwitch \/ KernelReturns \/ StartRecovery \/ Confirm
  <2>1. launcher'.at \in {"reset", "returned", "recovery", "up"}
    BY <1>p, <1>6 DEF ClearForSwitch, KernelReturns, StartRecovery, Confirm, LauncherLabels
  <2> QED
    BY <1>a, <2>1 DEF Counting
<1>7. CASE ResetForSwitch \/ KernelResets \/ Watchdog \/ OsRestarts \/ StartAgain \/ LosePower
  <2>1. launcher'.at = "off"
    BY <1>7 DEF ResetForSwitch, KernelResets, Watchdog, OsRestarts, StartAgain, LosePower,
       ResetSystem, ResetLauncher, NotStarted
  <2> QED
    BY <1>a, <2>1 DEF Counting
<1>8. CASE Reflash \/ SetBootMode \/ OsWrites
  <2>1. launcher'.at \in {"up", "recovery"}
    BY <1>8 DEF Reflash, SetBootMode, OsWrites, Running, rootfsVars
  <2> QED
    BY <1>a, <2>1 DEF Counting
<1>9. CASE FirmwareStep
  <2>1. launcher'.at = "off"
    BY <1>9, FirmwareBeforeOs DEF RootfsTyped, Linked, OnlyInOs, FirmwareStep, At, rootfsVars
  <2> QED
    BY <1>a, <2>1 DEF Counting
<1>10. CASE UNCHANGED allVars
  BY <1>10 DEF allVars, vars, rootfsVars, rootfsFixed, Chosen, Unreadables, HomeSlot
<1> QED
  BY <1>1, <1>2, <1>3, <1>4, <1>5, <1>6, <1>7, <1>8, <1>9, <1>10 DEF RootfsNext, Runs, LauncherStep

LEMMA QuietKeeps ==
    ASSUME RootfsTyped, SteadyInv, SteadyInv', OsQuiet, Grows, HistoryOK', [RootfsNext]_allVars
    PROVE  OsQuiet'
<1>0. LauncherOK /\ IInv /\ UsedOK /\ UsedOK'
  BY DEF RootfsTyped, SteadyInv, HistoryOK
<1>1. SUFFICES ASSUME used'.nvFaults = 0, At("os")', ~Running'
               PROVE  pending' = None /\ (launcher'.at \notin {"clear", "reset"} => nv'.next = None)
  BY DEF OsQuiet
<1>2. used.nvFaults = 0
  BY <1>0, <1>1 DEF Grows, UsedOK
<1>3. ~NvFault
  <2>1. NvFault => used'.nvFaults = used.nvFaults + 1
    BY <1>0 DEF NvFault, UsedOK
  <2> QED
    BY <1>1, <1>2, <2>1
<1>q. At("os") /\ ~Running => pending = None /\ (launcher.at \notin {"clear", "reset"} => nv.next = None)
  BY <1>2 DEF OsQuiet
<1>p. \A label \in LauncherLabels : Proceed(label) => launcher'.at = label
  BY <1>0 DEF Proceed, LauncherOK
<1>4. CASE FirmwareStep
  <2>1. ReadyToBoot /\ run'.at = "os"
    BY <1>0, <1>1, <1>4, IntoOs DEF FirmwareStep, At
  <2>2. run.at = "ready to boot" /\ nv' = nv /\ pending' = pending
    BY <2>1 DEF ReadyToBoot, Quiet, At
  <2>3. pending = None
    BY <2>2 DEF SteadyInv, NoPending
  <2>4. nv.next = None
    BY <1>2, <2>2 DEF SteadyInv, NextGone, Closing
  <2> QED
    BY <2>2, <2>3, <2>4
<1>5. CASE \/ ValidateRootfsStatus \/ WriteStatus \/ Store \/ StartKernel \/ KernelReturns
           \/ StartRecovery \/ StartAgain
  <2>1. /\ At("os") /\ ~Running /\ launcher.at \notin {"clear", "reset"} /\ nv' = nv
        /\ pending' = pending
    BY <1>3, <1>5 DEF ValidateRootfsStatus, WriteStatus, Store, StartKernel, KernelReturns,
       StartRecovery, StartAgain, Launcher, Running, MachineUnchanged
  <2> QED
    BY <1>q, <2>1
<1>6. CASE WriteNext
  <2>1. At("os") /\ ~Running /\ launcher.at = "write" /\ pending' = pending
    BY <1>6 DEF WriteNext, Launcher, Running, MachineUnchanged
  <2>2. launcher.next => launcher'.at = "clear"
    BY <1>6, <1>p DEF WriteNext, Written, LauncherLabels
  <2>3. ~launcher.next => nv' = nv
    BY <1>6 DEF WriteNext
  <2> QED
    BY <1>q, <2>1, <2>2, <2>3
<1>7. CASE ClearForSwitch
  <2>1. At("os") /\ ~Running /\ pending' = pending /\ launcher'.at = "reset"
    BY <1>7, <1>p DEF ClearForSwitch, Launcher, Running, MachineUnchanged, LauncherLabels
  <2> QED
    BY <1>q, <2>1
<1>8. CASE ResetForSwitch \/ KernelResets \/ Watchdog \/ OsRestarts \/ LosePower
  <2>1. Restart
    BY <1>8 DEF ResetForSwitch, KernelResets, Watchdog, OsRestarts, LosePower, PowerLoss,
       ResetSystem
  <2>2. run'.at = "off"
    BY <2>1 DEF Restart, Idle
  <2> QED
    BY <1>1, <2>2 DEF At
<1>9. CASE Confirm
  <2>1. launcher'.at = "up"
    BY <1>9, <1>p DEF Confirm, LauncherLabels
  <2> QED
    BY <1>1, <2>1 DEF Running
<1>10. CASE Reflash \/ SetBootMode \/ OsWrites
  <2>1. launcher'.at \in {"up", "recovery"}
    BY <1>10 DEF Reflash, SetBootMode, OsWrites, Running, rootfsVars
  <2> QED
    BY <1>1, <2>1 DEF Running
<1>11. CASE UNCHANGED allVars
  BY <1>1, <1>q, <1>11 DEF allVars, vars, rootfsVars, At, Running
<1> QED
  BY <1>4, <1>5, <1>6, <1>7, <1>8, <1>9, <1>10, <1>11 DEF RootfsNext, Runs, LauncherStep

-----------------------------------------------------------------------------
(* The account of a slot.                                                   *)
LEMMA SpentTyped ==
    ASSUME RootfsTyped, NEW c \in Chain
    PROVE  /\ spent[c] \in Nat /\ RetryMax \in Nat /\ Owed(c) \in {0, 1}
           /\ retry # None => retry[c] \in 0..3
  BY RetryAssumption, OwedTyped DEF RootfsTyped, SlotsOK

(* A step that starts nothing and counts nothing.                           *)
LEMMA SpentSame ==
    ASSUME RootfsTyped, NEW c \in Chain, UsedUp(c), spent'[c] = spent[c],
           retry' = retry \/ retry' = None,
           Owed(c)' = 1 => Owed(c) = 1 /\ retry' = retry
    PROVE  UsedUp(c)'
<1>1. /\ spent[c] \in Nat /\ RetryMax \in Nat /\ Owed(c) \in {0, 1}
      /\ retry # None => retry[c] \in 0..3
  BY SpentTyped
<1>2. Owed(c)' \in {0, 1}
  BY DEF Owed
<1>3. spent'[c] <= RetryMax
  BY DEF UsedUp
<1>4. retry' # None => spent'[c] + retry'[c] + Owed(c)' <= RetryMax
  <2>1. SUFFICES ASSUME retry' # None PROVE spent[c] + retry[c] + Owed(c)' <= RetryMax
    BY <2>1
  <2>2. spent[c] + retry[c] + Owed(c) <= RetryMax /\ retry[c] \in 0..3
    BY <1>1, <2>1 DEF UsedUp
  <2>3. CASE Owed(c)' = 1
    BY <2>2, <2>3
  <2>4. CASE Owed(c)' = 0
    BY <1>1, <2>2, <2>4
  <2> QED
    BY <1>2, <2>3, <2>4
<1>5. Owed(c)' = 1 => retry' # None
  BY DEF UsedUp
<1> QED
  BY <1>3, <1>4, <1>5 DEF UsedUp

(* The register, also when it is set up afresh: then no slot is half tried. *)
LEMMA RegisterSpent ==
    ASSUME RootfsTyped, launcher.at = "off", NEW c \in Chain, Accounted(c)
    PROVE  spent[c] + InitializeRootfsStatusReg[c] <= RetryMax
<1>1. /\ spent[c] \in Nat /\ RetryMax \in Nat /\ Owed(c) = 0
      /\ retry # None => retry[c] \in 0..3
  BY SpentTyped DEF Owed, Owing
<1>2. CASE retry # None
  BY <1>1, <1>2 DEF Accounted, UsedUp, InitializeRootfsStatusReg
<1>3. CASE retry = None
  <2>1. ~HalfTried(c)
    BY <1>3 DEF Accounted, ComesBack, LauncherComesBack
  <2>2. CASE status[c] = UNBOOTABLE
    BY <1>1, <1>3, <2>2 DEF InitializeRootfsStatusReg, Accounted, UsedUp
  <2>3. CASE status[c] # UNBOOTABLE
    <3>1. status[c] = NORMAL
      BY <2>3 DEF RootfsTyped, SlotsOK
    <3>2. spent[c] = 0
      BY <1>1, <2>1, <3>1 DEF HalfTried
    <3>3. RetryMax % 4 <= RetryMax
      BY <1>1
    <3>4. InitializeRootfsStatusReg[c] = RetryMax % 4
      BY <1>3, <2>3 DEF InitializeRootfsStatusReg
    <3> QED
      BY <1>1, <3>2, <3>3, <3>4
  <2> QED
    BY <2>2, <2>3
<1> QED
  BY <1>2, <1>3

(* Only the slot that the launcher is about to take is half tried.          *)
LEMMA HalfTriedIsCurrent ==
    ASSUME RootfsTyped, LevelKnown, At("os"), launcher.at = "off", NEW c \in Chain, ComesBack(c)
    PROVE  CurrentSlot = c
<1>1. CASE redundancy = BOOT_ONLY
  BY <1>1 DEF ComesBack, LauncherComesBack, HomeSlot, CurrentSlot
<1>2. CASE redundancy # BOOT_ONLY /\ override # None
  BY <1>2 DEF ComesBack, LauncherComesBack, HomeSlot, CurrentSlot, BootParamsChain
<1>3. CASE redundancy # BOOT_ONLY /\ override = None
  <2>1. Free
    BY <1>3 DEF LevelKnown, Free
  <2>2. CurrentSlot = boot
    BY <2>1, ParamsFollow DEF RootfsTyped
  <2> QED
    BY <2>1, <2>2 DEF ComesBack, FirmwareComesBack, At
<1> QED
  BY <1>1, <1>2, <1>3

(* The firmware's part, while the launcher runs and after a reset.          *)
LEMMA FirmwareHere ==
    ASSUME At("os"), NEW c, FirmwareComesBack(c), run' = run, boot' = boot,
           nv'.next = nv.next, pending' = pending, UNCHANGED rootfsFixed
    PROVE  FirmwareComesBack(c)'
  BY DEF FirmwareComesBack, At, OnWay, Free, rootfsFixed

LEMMA FirmwareAfterReset ==
    ASSUME SteadyInv, Smooth, At("os"), ResetSystem, NEW c, nv.next = None, pending = None,
           Free => boot = c
    PROVE  FirmwareComesBack(c)'
<1>1. run'.at = "off" /\ nv' = nv /\ pending' = pending
  BY DEF ResetSystem, Restart, Idle
<1>2. OnWay'
  BY <1>1 DEF OnWay, WayToOs
<1>3. RomSays(boot)
  BY DEF SteadyInv, RomAgrees, Smooth, At, Rewriting
<1>4. Free' = Free /\ (RomSays(boot) => \A d : d = boot => RomSays(d)')
  BY RomSame DEF ResetSystem, fixed, flash, rootfsFixed, Free
<1> QED
  BY <1>1, <1>2, <1>3, <1>4 DEF FirmwareComesBack

-----------------------------------------------------------------------------
(* The launcher's steps, for each slot.                                     *)
LEMMA ValidateSpent ==
    ASSUME SpentInv, Smooth, ValidateRootfsStatus, NEW c \in Chain PROVE Accounted(c)'
<1>1. /\ At("os") /\ launcher.at = "off" /\ RootfsTyped /\ SlotsOK /\ IInv /\ LevelKnown
      /\ UNCHANGED <<status, spent, bootMode, nv, run, boot, pending, rootfsFixed>>
  BY DEF ValidateRootfsStatus, Launcher, SpentInv, RootfsTyped, MachineUnchanged
<1>2. /\ BootParamsChain \in Chain /\ CurrentSlot \in Chain /\ Other(CurrentSlot) \in Chain
      /\ Other(CurrentSlot) # CurrentSlot
  BY <1>1, ParamsTyped DEF Other, Chain
<1>3. Accounted(c) /\ Unreadables' = Unreadables /\ HomeSlot(c)' = HomeSlot(c)
  BY <1>1 DEF SpentInv, Spending, Unreadables, HomeSlot, rootfsFixed
<1>4. HalfTried(c)' => HalfTried(c)
  BY <1>1 DEF HalfTried
<1>5. HalfTried(c) => ComesBack(c) /\ CurrentSlot = c /\ status[c] = NORMAL
  BY <1>1, <1>3, HalfTriedIsCurrent DEF Accounted, HalfTried
<1>6. /\ spent[c] \in Nat /\ RetryMax \in Nat /\ Owed(c) = 0
      /\ spent[c] + InitializeRootfsStatusReg[c] <= RetryMax
      /\ InitializeRootfsStatusReg[c] \in 0..3
  BY <1>1, <1>3, SpentTyped, RegisterSpent, RegisterTyped DEF Owed, Owing
<1>a. ASSUME Owed(c)' = 0, retry' = retry \/ retry' = None PROVE UsedUp(c)'
  BY <1>a, <1>1, <1>3, SpentSame DEF Accounted
<1>b. ASSUME NEW slot \in Chain, IsRootfsSlotBootable(slot), DecreaseRootfsRetryCount(slot),
             launcher'.slot = slot
      PROVE  UsedUp(c)' /\ retry' # None
  <2>1. /\ retry' \in [Chain -> 0..3]
        /\ retry'[slot] = InitializeRootfsStatusReg[slot] - 1
        /\ \A d \in Chain \ {slot} : retry'[d] = InitializeRootfsStatusReg[d]
    BY <1>1, <1>b, CountTyped
  <2>2. retry' # None
    BY <2>1, NoCountAssumption DEF Chain
  <2>3. Owed(c)' \in {0, 1} /\ (c # slot => Owed(c)' = 0)
    BY <1>b DEF Owed
  <2>4. spent[c] + retry'[c] + Owed(c)' <= RetryMax
    <3>1. CASE c = slot
      BY <1>6, <2>1, <2>3, <3>1
    <3>2. CASE c # slot
      BY <1>6, <2>1, <2>3, <3>2
    <3> QED
      BY <3>1, <3>2
  <2> QED
    BY <1>1, <1>6, <2>2, <2>4 DEF UsedUp
<1>7. CASE RecoveryRequested \/ VariableUnreadable
  <2>1. ~HalfTried(c)
    BY <1>5, <1>7 DEF RecoveryRequested, VariableUnreadable, ComesBack, LauncherComesBack
  <2>2. Owed(c)' = 0
    <3>1. CASE RecoveryRequested
      BY <3>1, ValidatedMeans DEF RecoveryRequested, Owed
    <3>2. CASE VariableUnreadable
      BY <1>3, <3>2 DEF VariableUnreadable, Owed
    <3> QED
      BY <1>7, <3>1, <3>2
  <2> QED
    BY <1>4, <1>7, <1>a, <2>1, <2>2 DEF RecoveryRequested, VariableUnreadable, Accounted
<1>8. CASE NoValidRootfs
  <2>1. ~HalfTried(c)
    <3>1. SUFFICES ASSUME HalfTried(c) PROVE FALSE
      OBVIOUS
    <3>2. status[c] = NORMAL /\ HomeSlot(c)
      BY <1>5, <3>1 DEF ComesBack, LauncherComesBack
    <3>3. IsValidRootfs(status)
      BY <3>2 DEF IsValidRootfs, HomeSlot, NORMAL, UNBOOTABLE
    <3> QED
      BY <1>8, <3>3 DEF NoValidRootfs
  <2>2. Owed(c)' = 0
    BY <1>8, ValidatedMeans DEF NoValidRootfs, Owed
  <2> QED
    BY <1>4, <1>8, <1>a, <2>1, <2>2 DEF NoValidRootfs, Accounted
<1>9. CASE CurrentSlotBootable
  <2>1. /\ launcher'.at = "write" /\ launcher'.slot = CurrentSlot /\ launcher'.recovery = FALSE
        /\ launcher'.next = FALSE
    <3>1. Validated("write", CurrentSlot, FALSE, {}, FALSE)
      BY <1>9 DEF CurrentSlotBootable
    <3> QED
      BY <3>1 DEF Validated
  <2>2. UsedUp(c)' /\ retry' # None
    BY <1>2, <1>9, <1>b, <2>1 DEF CurrentSlotBootable
  <2>3. HalfTried(c) => FirmwareComesBack(c)'
    BY <1>1, <1>5, FirmwareHere DEF ComesBack
  <2>4. HalfTried(c) => LauncherComesBack(c)'
    BY <1>1, <1>3, <1>5, <2>1, <2>2 DEF ComesBack, LauncherComesBack
  <2> QED
    BY <1>4, <2>2, <2>3, <2>4 DEF Accounted, ComesBack
<1>10. CASE OnlySlotExhausted \/ BothSlotsExhausted
  <2>1. /\ launcher'.at = "write" /\ launcher'.recovery = TRUE
        /\ CurrentSlot \in launcher'.flagged /\ retry' = None
    <3>1. \E unbootable \in {{CurrentSlot}, Chain} :
             Validated("write", CurrentSlot, TRUE, unbootable, FALSE)
      BY <1>10 DEF OnlySlotExhausted, BothSlotsExhausted
    <3>2. retry' = None
      BY <1>10 DEF OnlySlotExhausted, BothSlotsExhausted
    <3> QED
      BY <1>2, <3>1, <3>2 DEF Validated
  <2>2. ~HalfTried(c)'
    BY <1>4, <1>5, <2>1 DEF HalfTried
  <2>3. Owed(c)' = 0
    BY <2>1 DEF Owed
  <2> QED
    BY <1>a, <2>1, <2>2, <2>3 DEF Accounted
<1>11. CASE SwitchSlot
  <2>1. /\ launcher'.at = "write" /\ launcher'.slot = Other(CurrentSlot)
        /\ CurrentSlot \in launcher'.flagged
    <3>1. Validated("write", Other(CurrentSlot), FALSE, {CurrentSlot}, TRUE)
      BY <1>11 DEF SwitchSlot
    <3> QED
      BY <3>1 DEF Validated
  <2>2. ~HalfTried(c)'
    BY <1>4, <1>5, <2>1 DEF HalfTried
  <2>3. UsedUp(c)'
    BY <1>2, <1>11, <1>b, <2>1 DEF SwitchSlot
  <2> QED
    BY <2>2, <2>3 DEF Accounted
<1> QED
  BY <1>7, <1>8, <1>9, <1>10, <1>11 DEF ValidateRootfsStatus

LEMMA WriteStatusSpent ==
    ASSUME SpentInv, Smooth, Smooth', WriteStatus, NEW c \in Chain PROVE Accounted(c)'
<1>1. /\ At("os") /\ launcher.at = "write" /\ RootfsTyped /\ SlotsOK /\ LauncherOK
      /\ UNCHANGED <<retry, spent, bootMode, nv, run, boot, pending, rootfsFixed>>
  BY DEF WriteStatus, Launcher, SpentInv, RootfsTyped, MachineUnchanged, NvFault
<1>2. PICK d \in FirstFlagged :
         \/ /\ status' = [status EXCEPT ![d] = UNBOOTABLE]
            /\ launcher' = [launcher EXCEPT !.flagged = @ \ {d}]
         \/ NvFault
  BY DEF WriteStatus
<1>3. ~NvFault
  <2>1. used.nvFaults = 0 /\ UsedOK /\ used'.nvFaults = 0
    BY DEF Smooth, SpentInv, SteadyInv, HistoryOK
  <2>2. NvFault => used'.nvFaults = used.nvFaults + 1
    BY <2>1 DEF NvFault, UsedOK
  <2> QED
    BY <2>1, <2>2
<1>4. /\ launcher'.at = "write" /\ launcher'.slot = launcher.slot
      /\ launcher'.recovery = launcher.recovery /\ launcher'.next = launcher.next
      /\ launcher'.flagged = launcher.flagged \ {d}
  BY <1>1, <1>2, <1>3 DEF LauncherOK
<1>5. /\ Accounted(c) /\ Unreadables' = Unreadables /\ HomeSlot(c)' = HomeSlot(c)
      /\ Owed(c)' = Owed(c)
  BY <1>1, <1>4 DEF SpentInv, Spending, Unreadables, HomeSlot, rootfsFixed, Owed
<1>6. UsedUp(c)'
  BY <1>1, <1>5, SpentSame DEF Accounted
<1>7. HalfTried(c)' => HalfTried(c)
  <2>1. status'[c] = NORMAL => c # d /\ status[c] = NORMAL
    BY <1>1, <1>2, <1>3 DEF SlotsOK, NORMAL, UNBOOTABLE
  <2> QED
    BY <1>1, <1>4, <2>1 DEF HalfTried
<1>8. HalfTried(c) => ComesBack(c)'
  <2>1. HalfTried(c) => FirmwareComesBack(c)'
    BY <1>1, <1>5, FirmwareHere DEF Accounted, ComesBack
  <2>2. HalfTried(c) => LauncherComesBack(c)'
    BY <1>1, <1>4, <1>5 DEF Accounted, ComesBack, LauncherComesBack
  <2> QED
    BY <2>1, <2>2 DEF ComesBack
<1> QED
  BY <1>6, <1>7, <1>8 DEF Accounted

LEMMA WriteNextSpent ==
    ASSUME SpentInv, Smooth, Smooth', WriteNext, NEW c \in Chain PROVE Accounted(c)'
<1>1. /\ At("os") /\ launcher.at = "write" /\ RootfsTyped /\ SlotsOK /\ LauncherOK
      /\ launcher.flagged = {} /\ Proceed(Written)
      /\ UNCHANGED <<retry, spent, status, bootMode, run, boot, pending, rootfsFixed>>
  BY DEF WriteNext, Launcher, SpentInv, RootfsTyped, MachineUnchanged
<1>2. /\ launcher'.at = (IF launcher.next THEN "clear" ELSE "store")
      /\ launcher'.slot = launcher.slot
      /\ launcher'.recovery = launcher.recovery /\ launcher'.next = launcher.next
  BY <1>1 DEF LauncherOK, Proceed, Written
<1>3. Accounted(c) /\ HomeSlot(c)' = HomeSlot(c)
  BY <1>1 DEF SpentInv, Spending, HomeSlot, rootfsFixed
<1>4. ~launcher.recovery => Unreadables = {}
  BY <1>1 DEF SpentInv, Chosen, Counting
<1>5. Owed(c)' = 1 => Owed(c) = 1
  BY <1>1, <1>2, <1>4 DEF Owed, Owing
<1>6. UsedUp(c)'
  BY <1>1, <1>3, <1>5, SpentSame DEF Accounted
<1>7. HalfTried(c)' => HalfTried(c)
  BY <1>1 DEF HalfTried
<1>8. HalfTried(c) => ComesBack(c)'
  <2>1. SUFFICES ASSUME HalfTried(c) PROVE ComesBack(c)'
    OBVIOUS
  <2>2. ComesBack(c) /\ ~launcher.next
    BY <1>1, <1>3, <2>1 DEF Accounted, ComesBack, LauncherComesBack
  <2>3. nv' = nv
    BY <2>2 DEF WriteNext
  <2>4. FirmwareComesBack(c)'
    BY <1>1, <2>2, <2>3, FirmwareHere DEF ComesBack
  <2>5. LauncherComesBack(c)'
    BY <1>1, <1>2, <1>3, <2>2, <2>3 DEF ComesBack, LauncherComesBack, Unreadables
  <2> QED
    BY <2>4, <2>5 DEF ComesBack
<1> QED
  BY <1>6, <1>7, <1>8 DEF Accounted

(* Where the launcher is past its choice, or starts the recovery kernel, no *)
(* slot is half tried.                                                      *)
Elsewhere == {"clear", "reset", "start recovery", "up", "recovery"}

LEMMA ElsewhereSpent ==
    ASSUME SpentInv, Smooth, NEW c \in Chain,
           launcher.at \in Elsewhere, launcher'.at \notin Owing,
           status' = status, spent' = spent, retry' = retry \/ retry' = None
    PROVE  Accounted(c)'
<1>1. RootfsTyped /\ Accounted(c)
  BY DEF SpentInv, Spending
<1>2. Owed(c)' = 0 /\ spent'[c] = spent[c]
  BY DEF Owed
<1>3. UsedUp(c)'
  <2>1. RootfsTyped /\ UsedUp(c)
    BY <1>1 DEF Accounted
  <2>2. (Owed(c)' = 1) => (Owed(c) = 1 /\ retry' = retry)
    BY <1>2
  <2>3. retry' = retry \/ retry' = None
    OBVIOUS
  <2>4. spent'[c] = spent[c]
    BY <1>2
  <2> QED
    BY <2>1, <2>2, <2>3, <2>4, SpentSame
<1>4. HalfTried(c)' => HalfTried(c)
  BY DEF HalfTried, Elsewhere
<1>5. ~HalfTried(c)
  BY <1>1 DEF Accounted, ComesBack, LauncherComesBack, Elsewhere
<1> QED
  BY <1>3, <1>4, <1>5 DEF Accounted

LEMMA StoreSpent ==
    ASSUME SpentInv, Smooth, Store, NEW c \in Chain PROVE Accounted(c)'
<1>1. /\ At("os") /\ launcher.at = "store" /\ RootfsTyped /\ LauncherOK
      /\ UNCHANGED <<retry, spent, status, bootMode, nv, run, boot, pending, rootfsFixed>>
  BY DEF Store, Launcher, SpentInv, RootfsTyped, MachineUnchanged
<1>2. /\ launcher'.at = (IF launcher.recovery THEN "start recovery" ELSE "start")
      /\ launcher'.slot = launcher.slot
      /\ launcher'.recovery = launcher.recovery /\ launcher'.next = launcher.next
  BY <1>1 DEF Store, LauncherOK, Proceed
<1>3. Accounted(c) /\ HomeSlot(c)' = HomeSlot(c) /\ Unreadables' = Unreadables
  BY <1>1 DEF SpentInv, Spending, HomeSlot, rootfsFixed, Unreadables
<1>4. Owed(c)' = 1 => Owed(c) = 1
  BY <1>1, <1>2, <1>3 DEF Owed, Owing
<1>5. UsedUp(c)'
  BY <1>1, <1>3, <1>4, SpentSame DEF Accounted
<1>6. HalfTried(c)' => HalfTried(c)
  BY <1>1 DEF HalfTried
<1>7. HalfTried(c) => FirmwareComesBack(c)'
  BY <1>1, <1>3, FirmwareHere DEF Accounted, ComesBack
<1>8. HalfTried(c) => LauncherComesBack(c)'
  BY <1>1, <1>2, <1>3 DEF Accounted, ComesBack, LauncherComesBack
<1> QED
  BY <1>5, <1>6, <1>7, <1>8 DEF Accounted, ComesBack

(* The start of a kernel pays what is owed; from then on the slot is half   *)
(* tried, and the next boot comes back to it.                               *)
LEMMA StartSpent ==
    ASSUME SpentInv, Smooth, StartKernel \/ KernelReturns \/ KernelResets, NEW c \in Chain
    PROVE  Accounted(c)'
<1>1. /\ At("os") /\ launcher.at = "start" /\ RootfsTyped /\ LauncherOK /\ SlotsOK
      /\ UNCHANGED <<retry, status, bootMode, nv, pending, rootfsFixed>>
      /\ spent' = Spent /\ ~launcher.recovery
  BY DEF StartKernel, KernelReturns, KernelResets, Launcher, SpentInv, RootfsTyped,
     MachineUnchanged, ResetSystem, LauncherOK
<1>2. \/ /\ launcher'.at = "off" /\ ResetSystem
      \/ /\ launcher'.at \in {"kernel", "returned"} /\ launcher'.slot = launcher.slot
         /\ launcher'.recovery = launcher.recovery /\ launcher'.next = launcher.next
         /\ run' = run /\ boot' = boot
  BY <1>1 DEF StartKernel, KernelReturns, KernelResets, ResetSystem, ResetLauncher, NotStarted,
     Proceed, LauncherOK, MachineUnchanged
<1>3. Accounted(c) /\ HomeSlot(c)' = HomeSlot(c) /\ Unreadables' = Unreadables
  BY <1>1 DEF SpentInv, Spending, HomeSlot, rootfsFixed, Unreadables
<1>4. /\ spent[c] \in Nat /\ RetryMax \in Nat /\ Owed(c) \in {0, 1}
      /\ retry # None => retry[c] \in 0..3
  BY <1>1, SpentTyped
<1>5. Owed(c)' = 0
  BY <1>2 DEF Owed, Owing
<1>6. CASE Owed(c) = 0
  <2>1. spent'[c] = spent[c]
    BY <1>1, <1>6 DEF Spent, Owed, Owing
  <2>2. UsedUp(c)'
    BY <1>1, <1>3, <1>5, <2>1, SpentSame DEF Accounted
  <2>3. HalfTried(c)' => HalfTried(c)
    BY <1>1, <2>1 DEF HalfTried
  <2>4. ~HalfTried(c)
    <3>1. SUFFICES ASSUME HalfTried(c) PROVE FALSE
      OBVIOUS
    <3>2. launcher.slot = c /\ Unreadables = {}
      BY <1>1, <1>3, <3>1 DEF Accounted, ComesBack, LauncherComesBack
    <3> QED
      BY <1>1, <1>6, <3>2 DEF Owed, Owing
  <2> QED
    BY <2>2, <2>3, <2>4 DEF Accounted
<1>7. CASE Owed(c) = 1
  <2>1. launcher.slot = c /\ Unreadables = {}
    BY <1>1, <1>7 DEF Owed
  <2>2. retry # None /\ spent[c] + retry[c] + 1 <= RetryMax
    BY <1>3, <1>7 DEF Accounted, UsedUp
  <2>3. spent'[c] \in {spent[c], spent[c] + 1}
    BY <1>1 DEF Spent
  <2>4. UsedUp(c)'
    BY <1>1, <1>4, <1>5, <2>2, <2>3 DEF UsedUp
  <2>5. /\ ~launcher.next /\ bootMode # "recovery" /\ HomeSlot(c)
    BY <1>1, <2>1 DEF SpentInv, Chosen, Counting
  <2>6. Free => boot = c
    BY <1>1, <2>1 DEF RootfsTyped, Linked, SlotFollows, Starting
  <2>7. pending = None /\ nv.next = None
    BY <1>1 DEF SpentInv, OsQuiet, Running, Smooth
  <2>8. FirmwareComesBack(c)'
    <3>1. CASE ResetSystem
      BY <1>1, <2>6, <2>7, <3>1, FirmwareAfterReset DEF SpentInv
    <3>2. CASE run' = run /\ boot' = boot
      <4>1. FirmwareComesBack(c)
        BY <1>1, <2>6, <2>7 DEF FirmwareComesBack, OnWay, WayToOs, At
      <4> QED
        BY <1>1, <3>2, <4>1, FirmwareHere
    <3> QED
      BY <1>2, <3>1, <3>2
  <2>9. LauncherComesBack(c)'
    BY <1>1, <1>2, <1>3, <2>1, <2>2, <2>5 DEF LauncherComesBack
  <2> QED
    BY <2>4, <2>8, <2>9 DEF Accounted, ComesBack
<1> QED
  BY <1>4, <1>6, <1>7

(* A kernel that hangs, and a launcher that is started again.               *)
LEMMA AgainSpent ==
    ASSUME SpentInv, Smooth, Watchdog \/ StartAgain, NEW c \in Chain
    PROVE  Accounted(c)'
<1>1. /\ At("os") /\ launcher.at \in {"kernel", "returned"} /\ RootfsTyped /\ launcher'.at = "off"
      /\ UNCHANGED <<retry, spent, status, bootMode, nv, pending, rootfsFixed>>
      /\ ResetSystem \/ (run' = run /\ boot' = boot)
  BY DEF Watchdog, StartAgain, Launcher, SpentInv, MachineUnchanged, ResetSystem, ResetLauncher,
     NotStarted
<1>2. Accounted(c) /\ HomeSlot(c)' = HomeSlot(c) /\ Unreadables' = Unreadables
  BY <1>1 DEF SpentInv, Spending, HomeSlot, rootfsFixed, Unreadables
<1>3. Owed(c)' = 0
  BY <1>1 DEF Owed, Owing
<1>4. UsedUp(c)'
  BY <1>1, <1>2, <1>3, SpentSame DEF Accounted
<1>5. HalfTried(c)' => HalfTried(c)
  BY <1>1 DEF HalfTried
<1>6. SUFFICES ASSUME HalfTried(c) PROVE ComesBack(c)'
  BY <1>4, <1>5 DEF Accounted
<1>7. ComesBack(c)
  BY <1>2, <1>6 DEF Accounted
<1>8. LauncherComesBack(c)'
  BY <1>1, <1>2, <1>7 DEF ComesBack, LauncherComesBack
<1>9. FirmwareComesBack(c)'
  <2>1. CASE ResetSystem
    <3>1. nv.next = None /\ pending = None /\ (Free => boot = c)
      BY <1>1, <1>7 DEF ComesBack, FirmwareComesBack, At
    <3> QED
      BY <1>1, <2>1, <3>1, FirmwareAfterReset DEF SpentInv
  <2>2. CASE run' = run /\ boot' = boot
    BY <1>1, <1>7, <2>2, FirmwareHere DEF ComesBack
  <2> QED
    BY <1>1, <2>1, <2>2
<1> QED
  BY <1>8, <1>9 DEF ComesBack

(* A slot that comes up, or is written anew, has not been tried.            *)
LEMMA RenewedSpent ==
    ASSUME SpentInv, Smooth, Confirm \/ Reflash, NEW c \in Chain
    PROVE  Accounted(c)'
<1>1. /\ At("os") /\ RootfsTyped /\ LauncherOK /\ SlotsOK /\ Accounted(c)
      /\ launcher.at \in {"kernel", "up", "recovery"} /\ launcher'.at \in {"up", "recovery"}
  BY DEF Confirm, Reflash, Launcher, Running, SpentInv, RootfsTyped, Spending, Proceed, LauncherOK
<1>2. PICK d \in Chain :
        /\ retry' = IF retry = None THEN None ELSE [retry EXCEPT ![d] = RetryMax % 4]
        /\ spent' = [spent EXCEPT ![d] = 0]
        /\ status' = status \/ status' = [status EXCEPT ![d] = NORMAL]
        /\ launcher.at = "kernel" => launcher.slot = d
  BY <1>1 DEF Confirm, Reflash, Launcher, Running, LauncherOK
<1>3. /\ spent[c] \in Nat /\ RetryMax \in Nat /\ Owed(c) = 0 /\ Owed(c)' = 0
      /\ retry # None => retry[c] \in 0..3
  BY <1>1, SpentTyped DEF Owed, Owing
<1>4. CASE c = d
  <2>1. spent'[c] = 0
    BY <1>1, <1>2, <1>4 DEF SlotsOK
  <2>2. RetryMax % 4 \in Nat /\ RetryMax % 4 <= RetryMax
    BY <1>3
  <2>3. retry' # None => retry # None /\ retry'[c] = RetryMax % 4
    BY <1>1, <1>2, <1>4 DEF SlotsOK
  <2>4. UsedUp(c)'
    BY <1>3, <2>1, <2>2, <2>3 DEF UsedUp
  <2> QED
    BY <2>1, <2>4 DEF Accounted, HalfTried
<1>5. CASE c # d
  <2>1. spent'[c] = spent[c] /\ status'[c] = status[c]
    BY <1>1, <1>2, <1>5 DEF SlotsOK
  <2>2. retry' # None => retry # None /\ retry'[c] = retry[c]
    BY <1>1, <1>2, <1>5 DEF SlotsOK
  <2>3. UsedUp(c)'
    BY <1>1, <1>3, <2>1, <2>2 DEF Accounted, UsedUp
  <2>4. HalfTried(c)' => HalfTried(c)
    BY <1>1, <2>1 DEF HalfTried
  <2>5. ~HalfTried(c)
    BY <1>1, <1>2, <1>5 DEF Accounted, ComesBack, LauncherComesBack
  <2> QED
    BY <2>3, <2>4, <2>5 DEF Accounted
<1> QED
  BY <1>4, <1>5

LEMMA LauncherSpent ==
    ASSUME SpentInv, Smooth, Smooth', LauncherStep, NEW c \in Chain PROVE Accounted(c)'
<1>0. LauncherOK
  BY DEF SpentInv, RootfsTyped
<1>1. CASE ClearForSwitch
  <2>1. /\ launcher.at = "clear" /\ launcher'.at = "reset" /\ retry' = None
        /\ UNCHANGED <<status, spent>>
    BY <1>0, <1>1 DEF ClearForSwitch, Launcher, Proceed, LauncherOK
  <2> QED
    BY <2>1, ElsewhereSpent DEF Elsewhere, Owing
<1>2. CASE ResetForSwitch
  <2>1. /\ launcher.at = "reset" /\ launcher'.at = "off" /\ retry' = retry
        /\ UNCHANGED <<status, spent>>
    BY <1>2 DEF ResetForSwitch, Launcher, ResetSystem, ResetLauncher, NotStarted
  <2> QED
    BY <2>1, ElsewhereSpent DEF Elsewhere, Owing
<1>3. CASE StartRecovery
  <2>1. /\ launcher.at = "start recovery" /\ launcher'.at \in {"recovery", "returned"}
        /\ retry' = retry /\ UNCHANGED <<status, spent>>
    BY <1>0, <1>3 DEF StartRecovery, Launcher, Proceed, LauncherOK
  <2> QED
    BY <2>1, ElsewhereSpent DEF Elsewhere, Owing
<1> QED
  BY <1>1, <1>2, <1>3, ValidateSpent, WriteStatusSpent, WriteNextSpent, StoreSpent, StartSpent
     DEF LauncherStep

(* The OS that runs, and its restart.                                       *)
LEMMA OsSpent ==
    ASSUME SpentInv, Smooth, SetBootMode \/ OsWrites \/ OsRestarts, NEW c \in Chain
    PROVE  Accounted(c)'
<1>1. launcher.at \in {"up", "recovery"} /\ UNCHANGED <<status, spent, retry>>
  BY DEF SetBootMode, OsWrites, OsRestarts, Running, rootfsVars, ResetSystem
<1>2. launcher'.at \in {"up", "recovery", "off"}
  BY <1>1 DEF SetBootMode, OsWrites, OsRestarts, rootfsVars, ResetSystem, ResetLauncher, NotStarted
<1> QED
  BY <1>1, <1>2, ElsewhereSpent DEF Elsewhere, Owing

(* The firmware goes on to the OS.                                          *)
LEMMA FirmwareSpent ==
    ASSUME SpentInv, Smooth, Smooth', FirmwareStep, NEW c \in Chain PROVE Accounted(c)'
<1>1. /\ run.at # "os" /\ launcher.at = "off" /\ RootfsTyped /\ Accounted(c) /\ Firmware
      /\ UNCHANGED <<launcher, status, spent, retry, bootMode, redundancy, override>>
  BY FirmwareBeforeOs DEF SpentInv, Spending, RootfsTyped, Linked, OnlyInOs, FirmwareStep, At,
     rootfsVars, rootfsFixed
<1>2. Owed(c)' = 0 /\ spent'[c] = spent[c] /\ retry' = retry
  BY <1>1 DEF Owed, Owing
<1>3. UsedUp(c)'
  <2>1. UsedUp(c)
    BY <1>1 DEF Accounted
  <2> QED
    BY <1>1, <1>2, <2>1, SpentSame
<1>4. HalfTried(c)' => HalfTried(c)
  BY <1>1 DEF HalfTried
<1>5. SUFFICES ASSUME HalfTried(c) PROVE ComesBack(c)'
  BY <1>3, <1>4 DEF Accounted
<1>6. ComesBack(c)
  BY <1>1, <1>5 DEF Accounted
<1>7. /\ OnWay' /\ run'.at # "off" /\ nv' = nv /\ pending' = pending
      /\ run.at # "off" => boot' = boot
      /\ run.at = "off" => \A b \in Chain : RomSays(b) => boot' = b
  <2>1. IInv /\ HistoryOK /\ OneChoice
    BY DEF SpentInv, RootfsTyped, SteadyInv
  <2>2. OnWay /\ nv.next = None /\ pending = None
    BY <1>6 DEF ComesBack, FirmwareComesBack
  <2>3. used.faults = 0 /\ used'.faults = 0
    BY DEF Smooth
  <2> QED
    BY <1>1, <2>1, <2>2, <2>3, GoesOnToOs
<1>8. FirmwareComesBack(c)'
  <2>1. Free' = Free /\ nv'.next = None /\ pending' = None
    BY <1>1, <1>6, <1>7 DEF Free, ComesBack, FirmwareComesBack
  <2>2. Free => boot' = c
    BY <1>6, <1>7 DEF ComesBack, FirmwareComesBack
  <2> QED
    BY <1>7, <2>1, <2>2 DEF FirmwareComesBack
<1>9. LauncherComesBack(c)'
  BY <1>1, <1>6, <1>7 DEF ComesBack, LauncherComesBack, Unreadables, HomeSlot
<1> QED
  BY <1>8, <1>9 DEF ComesBack

(* Power is lost: nothing has been tried since.                             *)
LEMMA LossSpent ==
    ASSUME LosePower, NEW c \in Chain PROVE Accounted(c)'
<1>1. spent'[c] = 0 /\ retry' = None /\ launcher'.at = "off"
  BY DEF LosePower, ResetLauncher, NotStarted
<1>2. Owed(c)' = 0
  BY <1>1 DEF Owed, Owing
<1> QED
  BY <1>1, <1>2, RetryAssumption DEF Accounted, UsedUp, HalfTried

LEMMA StutterSpent ==
    ASSUME SpentInv, Smooth, UNCHANGED allVars, NEW c \in Chain PROVE Accounted(c)'
<1>1. /\ UNCHANGED <<launcher, status, spent, retry, bootMode, redundancy, override>>
      /\ UNCHANGED <<nv, run, boot, pending, platform, slots, image, reg>>
  BY DEF allVars, vars, rootfsVars, rootfsFixed
<1>2. RootfsTyped /\ Accounted(c)
  BY DEF SpentInv, Spending
<1>3. Owed(c)' = Owed(c) /\ HalfTried(c)' = HalfTried(c)
  BY <1>1 DEF Owed, HalfTried, Unreadables
<1>4. UsedUp(c)'
  BY <1>1, <1>2, <1>3 DEF UsedUp, Accounted
<1>5. RomSays(c) => RomSays(c)'
  BY <1>1, RomSame DEF RomSays
<1>6. ComesBack(c) => ComesBack(c)'
  BY <1>1, <1>5 DEF ComesBack, FirmwareComesBack, LauncherComesBack, OnWay, Free, HomeSlot,
                    Unreadables
<1> QED
  BY <1>2, <1>3, <1>4, <1>6 DEF Accounted

LEMMA NextSpent == ASSUME SpentInv, [RootfsNext]_allVars PROVE SpentInv'
<1>0. RootfsTyped /\ SteadyInv /\ LevelKnown /\ Chosen /\ OsQuiet /\ Spending /\ HistoryOK
  BY DEF SpentInv, SteadyInv
<1>1. RootfsTyped' /\ SteadyInv' /\ HistoryOK' /\ Grows
  BY <1>0, NextTyped, SteadyStays
<1>2. LevelKnown' /\ Chosen' /\ OsQuiet'
  BY <1>0, <1>1, LevelStays, ChosenKeeps, QuietKeeps DEF LevelKnown, rootfsFixed
<1>3. Spending'
  <2>1. SUFFICES ASSUME Smooth', NEW c \in Chain PROVE Accounted(c)'
    BY DEF Spending
  <2>2. Smooth
    BY <1>0, <1>1, <2>1, SmoothBefore
  <2>3. CASE LauncherStep
    BY <2>1, <2>2, <2>3, LauncherSpent
  <2>4. CASE FirmwareStep
    BY <2>1, <2>2, <2>4, FirmwareSpent
  <2>5. CASE Watchdog \/ StartAgain
    BY <2>2, <2>5, AgainSpent
  <2>6. CASE Confirm \/ Reflash
    BY <2>2, <2>6, RenewedSpent
  <2>7. CASE SetBootMode \/ OsWrites \/ OsRestarts
    BY <2>2, <2>7, OsSpent
  <2>8. CASE LosePower
    BY <2>8, LossSpent
  <2>9. CASE UNCHANGED allVars
    BY <2>2, <2>9, StutterSpent
  <2> QED
    BY <2>3, <2>4, <2>5, <2>6, <2>7, <2>8, <2>9 DEF RootfsNext, Runs
<1> QED
  BY <1>1, <1>2, <1>3 DEF SpentInv

LEMMA InitSpent == ASSUME RootfsInit PROVE SpentInv
<1>1. /\ launcher.at = "off" /\ run.at = "off" /\ spent = [c \in Chain |-> 0] /\ retry = None
      /\ LevelKnown /\ Init
  BY DEF RootfsInit, Init, Idle, NotStarted, LevelKnown
<1>2. Chosen /\ OsQuiet
  BY <1>1 DEF Chosen, Counting, OsQuiet, At
<1>3. \A c \in Chain : Owed(c) = 0 /\ ~HalfTried(c) /\ spent[c] <= RetryMax
  BY <1>1, RetryAssumption DEF Owed, Owing, HalfTried
<1>4. Spending
  BY <1>1, <1>3 DEF Spending, Accounted, UsedUp
<1> QED
  BY <1>1, <1>2, <1>4, InitTyped, SteadyStart DEF SpentInv

(* Validation takes a slot's retries for no more than RootfsRetryCountMax   *)
(* starts that do not come up, although the register that counts is cleared *)
(* at every switch of the slot and set up afresh by the next validation, as *)
(* long as nothing fails (ValidateRootfsStatus).  Starts while a variable   *)
(* is unreadable, when it returns before it takes one (653-661), are not    *)
(* counted and have no bound.                                               *)
THEOREM RetriesAreSpent == RootfsSpec => []RetriesBounded
<1>1. RootfsInit => SpentInv
  BY InitSpent
<1>2. SpentInv /\ [RootfsNext]_allVars => SpentInv'
  BY NextSpent
<1>3. SpentInv => RetriesBounded
  <2>1. SUFFICES ASSUME SpentInv, used.nvFaults + used.faults = 0, ~used.tornCopied, NEW c \in Chain
                 PROVE  spent[c] <= RetryMax
    BY DEF RetriesBounded
  <2>2. used.nvFaults \in Nat /\ used.faults \in Nat
    BY <2>1 DEF SpentInv, SteadyInv, HistoryOK, UsedOK
  <2>3. Smooth
    BY <2>1, <2>2 DEF Smooth
  <2> QED
    BY <2>1, <2>3 DEF SpentInv, Spending, Accounted, UsedUp
<1> QED
  BY <1>1, <1>2, <1>3, PTL DEF RootfsSpec
=============================================================================
