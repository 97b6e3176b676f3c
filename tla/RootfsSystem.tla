---------------------------- MODULE RootfsSystem ----------------------------
(****************************************************************************)
(* The firmware's boot chains and the launcher's rootfs slots together: the *)
(* launcher runs when BootUpdate hands over to the OS, and the OS of        *)
(* BootUpdate acts once a kernel, or the recovery kernel, has come up.      *)
(****************************************************************************)
EXTENDS BootUpdate, L4TLauncher

allVars == <<vars, rootfsVars>>

(* The OS that comes up gives its slot all retries back.                    *)
Confirm ==
    /\ Launcher("kernel") /\ healthy[launcher.slot]
    /\ Proceed("up")
    /\ retry' = IF retry = None THEN None
                ELSE [retry EXCEPT ![launcher.slot] = RetryMax % 4]
    /\ spent' = [spent EXCEPT ![launcher.slot] = 0]
    /\ UNCHANGED <<vars, rootfsFixed, bootMode, status, osCurrent, healthy>>

(* A kernel that hangs is reset by the watchdog.                            *)
Watchdog ==
    /\ Launcher("kernel") /\ ~healthy[launcher.slot]
    /\ ResetSystem
    /\ spent' = spent

Running == launcher.at \in {"up", "recovery"}

(* A new root file system is written to a slot: its status becomes normal   *)
(* and it gets its retries, if the register is in use.                      *)
Reflash ==
    /\ At("os") /\ Running /\ used.requests < MaxRequests
    /\ \E c \in Chain :
         /\ \E fine \in BOOLEAN : healthy' = [healthy EXCEPT ![c] = fine]
         /\ status' = [status EXCEPT ![c] = NORMAL]
         /\ retry' = IF retry = None THEN None
                     ELSE [retry EXCEPT ![c] = RetryMax % 4]
         /\ spent' = [spent EXCEPT ![c] = 0]
    /\ used' = [used EXCEPT !.requests = @ + 1]
    /\ nv' = nv /\ asked' = asked /\ MachineUnchanged
    /\ UNCHANGED <<rootfsFixed, bootMode, osCurrent, launcher>>

SetBootMode ==
    /\ At("os") /\ Running /\ used.requests < MaxRequests
    /\ bootMode' = IF bootMode = "kernel" THEN "recovery" ELSE "kernel"
    /\ used' = [used EXCEPT !.requests = @ + 1]
    /\ nv' = nv /\ asked' = asked /\ MachineUnchanged
    /\ UNCHANGED <<rootfsFixed, status, retry, osCurrent, launcher, healthy, spent>>

(* What the OS of BootUpdate does, short of a restart.                      *)
OsWrites ==
    /\ Running
    /\ OsSetNext \/ OsClearStatus \/ OsSetStatus \/ OsLeaveCapsule
    /\ UNCHANGED rootfsVars

OsRestarts ==
    /\ At("os") /\ Running
    /\ ResetSystem
    /\ spent' = spent

FirmwareStep == Firmware /\ UNCHANGED rootfsVars

LosePower ==
    /\ PowerLoss
    /\ ResetLauncher
    /\ retry' = None
    /\ spent' = [c \in Chain |-> 0]
    /\ UNCHANGED <<rootfsFixed, bootMode, status, healthy>>

RootfsInit ==
    /\ Init
    /\ redundancy \in {BOOT_ONLY, BOOT_ROOTFS}
    /\ override \in Override \cup {None}
    /\ bootMode = "kernel"
    /\ status = [c \in Chain |-> NORMAL]
    /\ retry = None
    /\ osCurrent = None
    /\ launcher = NotStarted
    /\ healthy \in [Chain -> BOOLEAN]
    /\ spent = [c \in Chain |-> 0]

Runs == FirmwareStep \/ LauncherStep \/ Confirm \/ Watchdog
RootfsNext ==
    \/ Runs \/ StartAgain
    \/ Reflash \/ SetBootMode \/ OsWrites \/ OsRestarts
    \/ LosePower

(* The firmware and the launcher run on one processor and never wait; a     *)
(* healthy kernel comes up and a hung one meets the watchdog.               *)
RootfsSpec == RootfsInit /\ [][RootfsNext]_allVars /\ WF_allVars(Runs)
=============================================================================
