----------------------------- MODULE FmpCapsule -----------------------------
(****************************************************************************)
(* A firmware capsule: PlatformBootManagerLib processes it before the boot  *)
(* chain update, TegraFmp checks it, which cancels a boot chain update that *)
(* is under way, and writes the images of the inactive chain.  mb1 is       *)
(* invalidated first and written last; the BCT is switched at the very end. *)
(*                                                                          *)
(* Left out: the header and size checks of CheckImage (they refuse without  *)
(* writing), the GPT image, and the development path that writes single     *)
(* images to a chain of the developer's choice.                             *)
(****************************************************************************)
EXTENDS BootMachine

(* The end of HandleCapsules.  A capsule found on disk or saved before the  *)
(* reset is followed by a reset whatever its outcome; one in a HOB that     *)
(* fails is dropped and the boot goes on.                                   *)
Rejected ==
    \/ run.reset /\ Restart
    \/ ~run.reset /\ Enter("execute") /\ UNCHANGED <<boot, brBctFlag>>

(* The capsule found is no longer waiting.  One on disk or saved marks the  *)
(* chain good before it is processed.                                       *)
HandleCapsules ==
    /\ At("uefi")
    /\ \/ pending = None /\ Enter("execute") /\ UNCHANGED <<pending, reg>>
       \/ /\ pending # None
          /\ \E reset \in BOOLEAN :
               /\ run' = [run EXCEPT !.at = "check image", !.status = pending,
                                     !.reset = reset]
               /\ reg' = IF reset THEN ValidateActiveBootChain(reg) ELSE reg
          /\ pending' = None
    /\ Success
    /\ UNCHANGED <<fixed, nv, flash, boot, brBctFlag>>

(* CheckAndCancelUpdate: a request or a status, even of an update that has  *)
(* ended, makes the check fail.                                             *)
CheckImage ==
    /\ At("check image")
    /\ IF nv.next = None /\ nv.status = None THEN Goto("set image") ELSE Goto("cancel next")
    /\ Success
    /\ UNCHANGED <<fixed, nv, flash, reg, boot, brBctFlag, pending>>

CancelNext ==
    /\ At("cancel next")
    /\ \/ Delete("next") /\ Success
       \/ NvFault
    /\ Goto("cancel status")
    /\ UNCHANGED <<fixed, flash, reg, boot, brBctFlag, pending>>

CancelStatus ==
    /\ At("cancel status")
    /\ \/ Put("status", "ERROR_CANCELED_FOR_FMP_CONFLICT") /\ Success
       \/ NvFault
    /\ Rejected
    /\ UNCHANGED <<fixed, flash, reg, pending>>

-----------------------------------------------------------------------------
(* SetImage.  part counts the images: 0 is mb1.  run.status holds the       *)
(* version of the capsule.                                                  *)
(* A faulty variant: the chain that runs is written. *)
PutImageActive(part, value) == image' = [image EXCEPT ![boot][part] = value]

PutImage(part, value) == image' = [image EXCEPT ![Other(boot)][part] = value]

SetImage ==
    /\ At("set image")
    /\ SetInactiveBootChainStatus(FALSE)
    /\ Goto("invalidate mb1")
    /\ Success
    /\ UNCHANGED <<fixed, nv, flash, boot, brBctFlag, pending>>

(* An error leaves the chain as it is; HandleCapsules decides what follows. *)
ImageFails(part) ==
    /\ Fault
    /\ \/ image' = image
       \/ PutImage(part, Torn)
    /\ Rejected

(* A faulty variant: mb1 is not invalidated, only written last. *)
InvalidateMb1Forgotten ==
    /\ At("invalidate mb1")
    /\ run' = [run EXCEPT !.at = IF Regular = 0 THEN "write mb1" ELSE "write",
                          !.part = IF Regular = 0 THEN 0 ELSE 1]
    /\ Success
    /\ UNCHANGED <<fixed, nv, flash, boot, brBctFlag, reg, pending>>

InvalidateMb1 ==
    /\ At("invalidate mb1")
    /\ \/ /\ PutImage(0, Torn)
          /\ run' = [run EXCEPT !.at = IF Regular = 0 THEN "write mb1" ELSE "write",
                                !.part = IF Regular = 0 THEN 0 ELSE 1]
          /\ Success
          /\ UNCHANGED <<boot, brBctFlag>>
       \/ ImageFails(0)
    /\ UNCHANGED <<fixed, nv, slots, backup, reg, pending>>

(* WriteRegularImages, one image a step; one that already matches is not    *)
(* written, which is the same step.                                         *)
WriteRegular ==
    /\ At("write")
    /\ \/ /\ PutImage(run.part, run.status)
          /\ run' = [run EXCEPT !.at = IF run.part = Regular THEN "write mb1" ELSE "write",
                                !.part = IF run.part = Regular THEN 0 ELSE run.part + 1]
          /\ Success
          /\ UNCHANGED <<boot, brBctFlag>>
       \/ ImageFails(run.part)
    /\ UNCHANGED <<fixed, nv, slots, backup, reg, pending>>

WriteMb1 ==
    /\ At("write mb1")
    /\ \/ /\ PutImage(0, run.status)
          /\ Goto("verify")
          /\ Success
          /\ UNCHANGED <<boot, brBctFlag>>
       \/ ImageFails(0)
    /\ UNCHANGED <<fixed, nv, slots, backup, reg, pending>>

(* VerifyAllImages: reading back finds the images written, or a read fails. *)
VerifyImages ==
    /\ At("verify")
    /\ \/ Goto("backup") /\ Success /\ UNCHANGED <<boot, brBctFlag>>
       \/ Fault /\ Rejected
    /\ UNCHANGED <<fixed, nv, flash, reg, pending>>

(* UpdateBctBackupPartition, if the capsule brings a BCT, then the slots.   *)
(* A failure leaves the partition old, cut short, or written and not        *)
(* verified.                                                                *)
UpdateBackup ==
    /\ At("backup")
    /\ \/ /\ backup' \in {backup, [backup EXCEPT ![Other(boot)] = TRUE]}
          /\ CallUpdateFwChain(Other(boot), "capsule done")
          /\ Success
          /\ UNCHANGED <<boot, brBctFlag>>
       \/ /\ Fault
          /\ backup' \in BackupCutShort \cup {[backup EXCEPT ![Other(boot)] = TRUE]}
          /\ Rejected
    /\ UNCHANGED <<fixed, nv, slots, image, reg, pending>>

CapsuleGivesUp ==
    /\ At("slots failed") /\ run.ret = "capsule done"
    /\ Rejected
    /\ Success
    /\ UNCHANGED <<fixed, nv, flash, reg, pending>>

(* The capsule is installed: mark the chain good and reset into it.         *)
CapsuleDone ==
    /\ At("capsule done")
    /\ SetInactiveBootChainStatus(TRUE)
    /\ Restart
    /\ Success
    /\ UNCHANGED <<fixed, nv, flash, pending>>

CapsuleStep ==
    \/ HandleCapsules \/ CheckImage \/ CancelNext \/ CancelStatus
    \/ SetImage \/ InvalidateMb1 \/ WriteRegular \/ WriteMb1 \/ VerifyImages
    \/ UpdateBackup \/ CapsuleGivesUp \/ CapsuleDone
=============================================================================
