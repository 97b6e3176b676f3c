--------------------------- MODULE BootProperties ---------------------------
(* What the boot chain update and the capsules promise.                     *)
EXTENDS BootUpdate

(* What BootChainFwStatus may hold, None where it is absent.                *)
Reported ==
    OsStatus \cup
    {"ERROR_CANCELED_FOR_FMP_CONFLICT", "ERROR_READING_STATUS", "ERROR_READING_NEXT",
     "ERROR_BAD_BOOT_CHAIN_NEXT", "ERROR_BOOT_NEXT_EXISTS", "ERROR_NO_OPERATION_REQUIRED",
     "ERROR_UPDATE_BR_BCT_FLAG_SET", "ERROR_BOOT_CHAIN_IS_FAILED",
     "ERROR_SETTING_PREVIOUS", "ERROR_SETTING_IN_PROGRESS", "ERROR_MAX_RESET_COUNT",
     "ERROR_SETTING_RESET_COUNT", "ERROR_UPDATING_FW_CHAIN", "ERROR_BOOT_CHAIN_FAILED"}
Statuses == Reported \cup {None}
ASSUME StatusAssumption == None \notin Reported \cup {BadNext}

(* The variables, the slots, the images and the register hold what the code *)
(* may write there; the count never passes BOOT_CHAIN_MAX_RESET_COUNT.      *)
TypeOK ==
    /\ nv \in [next : Chain \cup {None, BadNext, Unreadable}, status : Statuses,
               previous : Chain \cup {None}, count : 1..MAX_RESET_COUNT \cup {None}]
    /\ slots \in [SlotNumbers -> Chain \cup {None}]
    /\ backup \in [Chain -> BOOLEAN]
    /\ image \in [Chain -> [Images -> Version \cup {Torn}]]
    /\ reg \in [failed : SUBSET Chain, lastFailed : BOOLEAN, next : Chain \cup {None}]
    /\ boot \in Chain \cup {None} /\ (boot = None <=> At("off"))
    /\ run.chain \in Chain \cup {None} /\ run.part \in Images

(* A capsule is invisible to the boot ROM until it is complete: a chain     *)
(* whose mb1 is valid holds all images of that one version, wherever power  *)
(* is lost or a write fails (FmpTegraSetImage invalidates mb1 first and     *)
(* writes it last).                                                         *)
WholeChains ==
    \A c \in Chain : image[c][0] # Torn => \A i \in Images : image[c][i] = image[c][0]

(* The machine can always start again: one chain starts, and the boot ROM   *)
(* finds a valid slot - as long as fewer writes have been cut short than    *)
(* the layout bears, and no torn backup has been copied (UpdateFwChain does *)
(* not look at what it copies).  Where slots are marked, slot 0 is given up *)
(* for chain B, so that one slot less can be lost.                          *)
SomeChainStarts == \E c \in Chain : Startable(c)
Spare == platform.slots - (IF platform.marker THEN 2 ELSE 1)
CanStart ==
    /\ SomeChainStarts
    /\ used.losses + used.faults <= Spare /\ ~used.tornCopied
         => \E s \in SlotNumbers : slots[s] # None

(* A switch back goes to the chain that ran when the request was examined:  *)
(* Previous is never left over from another update, as long as no write     *)
(* fails.  The result of those of BootChainFinishUpdate is ignored; a slot  *)
(* that fails leaves slots of both chains beside the chain the register     *)
(* still names, and the machine may come up on either before Status is set. *)
RestoresOriginal ==
    At("restore") /\ run.chain # None /\ used.faults + used.nvFaults = 0
      => run.chain = asked.from

(* Success is reported only after a switch: the chain that runs is not the  *)
(* one that ran when the request was examined - unless IN_PROGRESS does not *)
(* come from that request: a failed variable write has left it behind, or   *)
(* the OS, which may write BootChainFwStatus, has written it itself.  With  *)
(* Next the running chain, BootChainExecuteUpdate then reports SUCCESS with *)
(* no switch.                                                               *)
SuccessMeansSwitched ==
    At("report success") /\ used.nvFaults = 0 /\ ~asked.forged
      => boot = Other(asked.from)

(* A request is always disposed of: once the OS restarts, Next is gone      *)
(* after some boot, unless a variable write failed or a torn backup was     *)
(* copied over the last valid slot.                                         *)
Bricked == \A s \in SlotNumbers : slots[s] = None
RequestEnds ==
    nv.next # None /\ ~At("os") ~> nv.next = None \/ used.nvFaults > 0 \/ Bricked

(* An accepted switch to a chain that starts brings the OS up on that chain *)
(* with success reported and the request gone, unless power is lost or a    *)
(* write fails meanwhile.                                                   *)
AcceptedSwitchCompletes ==
    At("count reset") /\ ResetCount < MAX_RESET_COUNT
        /\ Startable(nv.next) /\ backup[nv.next] /\ ~asked.disturbed
    ~> \/ At("os") /\ boot = Other(asked.from) /\ nv.status = SUCCESS /\ nv.next = None
       \/ asked.disturbed
=============================================================================
