----------------------------- MODULE BootProofs ------------------------------
(****************************************************************************)
(* Proofs about the boot chain update, for every number of images, slots,   *)
(* versions, power losses, faults and requests:                             *)
(*  - types, and that both chains are whole or invisible and one starts;    *)
(*  - what the variables of an update say together (Books);                 *)
(*  - which chain the boot ROM will take (OneChoice, SameOutcome, WayBack);  *)
(*  - how many slots can be lost (SlotsLast);                               *)
(* and from these that the machine starts again, that a switch back goes to *)
(* the chain that ran, and that success is reported only after a switch.    *)
(* SteadyInv, the last part, says when a boot without a request or a capsule*)
(* goes through the firmware to the OS of the chain that ran.               *)
(****************************************************************************)
EXTENDS BootProperties, TLAPS

Returns == {"reset", "clear flag", "capsule done"}

Labels ==
    {"off", "uefi", "execute", "save previous", "set in progress", "count reset", "switch",
     "reset", "report success", "set status", "finish", "delete previous", "delete next",
     "delete count", "restore", "boot os", "clear flag", "ready to boot", "os", "slots",
     "slots failed", "check image", "cancel next", "cancel status", "set image",
     "invalidate mb1", "write", "write mb1", "verify", "backup", "capsule done"}

CapsuleLabels ==
    {"uefi", "check image", "set image", "invalidate mb1", "write", "write mb1"}

(* The variables, the storage and the register hold what they may hold.     *)
StoredOK ==
    /\ platform \in Platforms
    /\ nv \in [next : Chain \cup {None, BadNext, Unreadable}, status : Statuses,
               previous : Chain \cup {None}, count : 1..MAX_RESET_COUNT \cup {None}]
    /\ slots \in [SlotNumbers -> Chain \cup {None}]
    /\ backup \in [Chain -> BOOLEAN]
    /\ image \in [Chain -> [Images -> Version \cup {Torn}]]
    /\ reg \in [failed : SUBSET Chain, lastFailed : BOOLEAN, next : Chain \cup {None}]
    /\ pending \in Version \cup {None}

BootOK == boot \in Chain \cup {None} /\ (boot = None <=> At("off"))

(* The frame of the firmware, and what its fields mean at certain steps.    *)
FrameOK ==
    run \in [at : Labels, status : Statuses \cup Version \cup {None},
             chain : Chain \cup {None}, slot : Int, ret : Returns \cup {None},
             part : Images, reset : BOOLEAN]

StepsOK ==
    /\ run.at \in {"slots", "slots failed"} => run.ret \in Returns /\ run.chain # None
    /\ run.at \in {"set status", "finish"} => run.status \in Statuses
    /\ run.at \in {"save previous", "set in progress", "count reset", "switch"} =>
           nv.next \in Chain

(* How far the capsule in progress has come: mb1 of the inactive chain is   *)
(* invalid from its invalidation to its write, and the images before part   *)
(* are those of the capsule.                                                *)
CapsuleOK ==
    LET new == image[Other(boot)] IN
    /\ run.at \in {"uefi", "check image", "set image", "invalidate mb1"} => run.part = 0
    /\ run.at \in {"check image", "set image", "invalidate mb1", "write", "write mb1"} =>
           run.status \in Version
    /\ run.at = "write" =>
           /\ new[0] = Torn /\ run.part \in 1..Regular
           /\ \A i \in 1..(run.part - 1) : new[i] = run.status
    /\ run.at = "write mb1" =>
           /\ new[0] = Torn /\ run.part = 0
           /\ \A i \in 1..Regular : new[i] = run.status

(* The chain that runs is one that starts; a capsule never writes to it.    *)
RunningStarts == boot # None => Startable(boot)

Typed == StoredOK /\ BootOK /\ FrameOK /\ StepsOK

IInv ==
    /\ Typed
    /\ CapsuleOK
    /\ WholeChains
    /\ SomeChainStarts
    /\ RunningStarts

-----------------------------------------------------------------------------
(* What each way of moving on does to the frame.                            *)
LEMMA StoredSame ==
    ASSUME StoredOK, UNCHANGED <<fixed, nv, flash, reg, pending>>
    PROVE  StoredOK'
    BY DEF StoredOK, fixed, flash, SlotNumbers

LEMMA GotoMoves ==
    ASSUME FrameOK, NEW l \in Labels, Goto(l)
    PROVE  /\ FrameOK'
           /\ run'.at = l /\ run'.status = run.status /\ run'.chain = run.chain
           /\ run'.ret = run.ret /\ run'.part = run.part /\ run'.reset = run.reset
    BY DEF FrameOK, Goto

LEMMA FailMoves ==
    ASSUME FrameOK, NEW s \in Statuses, Fail(s)
    PROVE  FrameOK' /\ run'.at = "set status" /\ run'.status = s
    BY DEF FrameOK, Fail, Labels

LEMMA FinishMoves ==
    ASSUME FrameOK, NEW s \in Statuses, Finish(s)
    PROVE  FrameOK' /\ run'.at = "finish" /\ run'.status = s
    BY DEF FrameOK, Finish, Labels

LEMMA CallMoves ==
    ASSUME FrameOK, NEW c \in Chain, NEW r \in Returns, CallUpdateFwChain(c, r),
           StoredOK
    PROVE  FrameOK' /\ run'.at = "slots" /\ run'.chain = c /\ run'.ret = r
<1>1. platform.slots - 1 \in Int
    BY PlatformAssumption DEF StoredOK
<1>2. QED
    BY <1>1 DEF FrameOK, CallUpdateFwChain, Labels

LEMMA EnterMoves ==
    ASSUME NEW l \in Labels, Enter(l)
    PROVE  FrameOK' /\ run'.at = l /\ run'.part = 0
<1>1. run' = [at |-> l, status |-> None, chain |-> None, slot |-> 0, ret |-> None,
              part |-> 0, reset |-> FALSE]
    BY DEF Enter, Idle
<1>2. QED
    BY <1>1, RegularAssumption DEF FrameOK, Images

LEMMA RestartMoves ==
    ASSUME Restart
    PROVE  FrameOK' /\ BootOK' /\ StepsOK' /\ run'.at = "off" /\ boot' = None
<1>1. run' = Idle /\ boot' = None
    BY DEF Restart
<1>2. FrameOK'
    BY <1>1, RegularAssumption DEF FrameOK, Idle, Images, Labels
<1>3. BootOK' /\ StepsOK'
    BY <1>1 DEF BootOK, StepsOK, Idle, At
<1>4. QED
    BY <1>1, <1>2, <1>3 DEF Idle

-----------------------------------------------------------------------------
(* A step that writes no image and goes to no step of a capsule keeps what  *)
(* the invariant says of images.                                            *)
LEMMA Untouched ==
    ASSUME IInv, Typed', image' = image, boot' \in {boot, None},
           run'.at \notin CapsuleLabels
    PROVE  IInv'
<1>1. WholeChains'
    BY DEF IInv, WholeChains
<1>2. SomeChainStarts' /\ RunningStarts'
    BY DEF IInv, SomeChainStarts, RunningStarts, Startable
<1>3. CapsuleOK'
    BY DEF CapsuleOK, CapsuleLabels
<1>4. QED
    BY <1>1, <1>2, <1>3 DEF IInv

(* A step that records something in a variable and goes on, or fails.       *)
LEMMA RecordMoves ==
    ASSUME StoredOK, BootOK, FrameOK, StepsOK,
           NEW label \in {"save previous", "set in progress", "count reset"},
           NEW name \in {"previous", "status", "count"}, NEW value,
           NEW next \in {"set in progress", "count reset", "switch"},
           NEW error \in Statuses,
           Record(label, name, value, next, error)
    PROVE  FrameOK' /\ StepsOK' /\ BootOK' /\ image' = image /\ boot' = boot
             /\ run'.at \in {next, "set status"}
<1>1. boot' = boot /\ image' = image /\ run.at = label /\ nv'.next = nv.next
    BY DEF Record, Quiet, flash, Put, NvFault, StoredOK, At
<1>2. CASE Goto(next)
  <2>1. FrameOK' /\ run'.at = next
    BY <1>2, GotoMoves DEF Labels
  <2>2. QED
    BY <1>1, <2>1 DEF StepsOK, BootOK, At
<1>3. CASE Fail(error)
  <2>1. FrameOK' /\ run'.at = "set status" /\ run'.status = error
    BY <1>3, FailMoves
  <2>2. QED
    BY <1>1, <2>1 DEF StepsOK, BootOK, At
<1>4. QED
    BY <1>2, <1>3 DEF Record

(* The frame holds a chain while slots are written.                         *)
LEMMA SlotsChain ==
    ASSUME FrameOK, StepsOK, run.at \in {"slots", "slots failed"}
    PROVE  run.chain \in Chain /\ run.ret \in Returns
    BY DEF FrameOK, StepsOK

(* The steps of BootChainDxe.                                               *)
LEMMA BootChainKeeps ==
    ASSUME IInv, BootChainStep
    PROVE  IInv'
<1>0. StoredOK /\ BootOK /\ FrameOK /\ StepsOK
    BY DEF IInv, Typed
<1> USE DEF At, Quiet, flash, fixed, Success, SlotNumbers
<1>1. CASE ExecuteUpdate
  <2>1. StoredOK'
    BY <1>0, <1>1, StoredSame DEF ExecuteUpdate
  <2>2. FrameOK' /\ StepsOK' /\ BootOK'
    BY <1>0, <1>1, GotoMoves, FailMoves, FinishMoves DEF StepsOK, BootOK, Labels, Statuses, Reported, OsStatus, Chain, BadNext, Unreadable, StoredOK, ExecuteUpdate, NoRequest, RequestUnreadable, StatusUnreadable, NewRequest,
       SwitchWorked, SwitchFailed, AlreadyDecided, Pending
  <2>3. image' = image /\ boot' \in {boot, None} /\ run'.at \notin CapsuleLabels
    BY <1>0, <1>1, GotoMoves, FailMoves, FinishMoves DEF CapsuleLabels, Labels, StepsOK, Statuses, Reported, OsStatus, Chain, BadNext, Unreadable, StoredOK, ExecuteUpdate, NoRequest, RequestUnreadable, StatusUnreadable, NewRequest,
       SwitchWorked, SwitchFailed, AlreadyDecided, Pending
  <2>4. QED
    BY <2>1, <2>2, <2>3, Untouched DEF Typed
<1>2. CASE SavePrevious
  <2>1. StoredOK'
    BY <1>0, <1>2 DEF StoredOK, BootOK, StepsOK, Statuses, Reported, OsStatus, SavePrevious, Record, Put, NvFault
  <2>2. FrameOK' /\ StepsOK' /\ BootOK'
    BY <1>0, <1>2, RecordMoves DEF SavePrevious, Statuses, Reported, OsStatus, IN_PROGRESS
  <2>3. image' = image /\ boot' \in {boot, None} /\ run'.at \notin CapsuleLabels
    BY <1>0, <1>2, RecordMoves DEF SavePrevious, Statuses, Reported, OsStatus, IN_PROGRESS, CapsuleLabels
  <2>4. QED
    BY <2>1, <2>2, <2>3, Untouched DEF Typed
<1>3. CASE SetInProgress
  <2>1. StoredOK'
    BY <1>0, <1>3 DEF StoredOK, BootOK, StepsOK, Statuses, Reported, OsStatus, SetInProgress, Record, Put, NvFault
  <2>2. FrameOK' /\ StepsOK' /\ BootOK'
    BY <1>0, <1>3, RecordMoves DEF SetInProgress, Statuses, Reported, OsStatus, IN_PROGRESS
  <2>3. image' = image /\ boot' \in {boot, None} /\ run'.at \notin CapsuleLabels
    BY <1>0, <1>3, RecordMoves DEF SetInProgress, Statuses, Reported, OsStatus, IN_PROGRESS, CapsuleLabels
  <2>4. QED
    BY <2>1, <2>2, <2>3, Untouched DEF Typed
<1>4. CASE CountReset
  <2>1. StoredOK'
    <3>1. ResetCount + 1 \in 1..MAX_RESET_COUNT
      <4>1. ResetCount < MAX_RESET_COUNT
        BY <1>4 DEF CountReset
      <4>2. nv.count \in 1..MAX_RESET_COUNT \cup {None}
        BY <1>0 DEF StoredOK
      <4>3. ResetCount \in 0..MAX_RESET_COUNT
        BY <4>2, ResetCountAssumption DEF ResetCount
      <4>4. QED
        BY <4>1, <4>3, ResetCountAssumption
    <3>2. QED
      BY <1>0, <1>4, <3>1 DEF StoredOK, CountReset, Record, Put, NvFault
  <2>2. FrameOK' /\ StepsOK' /\ BootOK'
    BY <1>0, <1>4, RecordMoves DEF CountReset, Statuses, Reported, OsStatus, IN_PROGRESS
  <2>3. image' = image /\ boot' \in {boot, None} /\ run'.at \notin CapsuleLabels
    BY <1>0, <1>4, RecordMoves DEF CountReset, Statuses, Reported, OsStatus, IN_PROGRESS, CapsuleLabels
  <2>4. QED
    BY <2>1, <2>2, <2>3, Untouched DEF Typed
<1>5. CASE TooManyResets
  <2>1. StoredOK'
    BY <1>0, <1>5, StoredSame DEF TooManyResets
  <2>2. FrameOK' /\ StepsOK' /\ BootOK'
    BY <1>0, <1>5, FailMoves DEF StepsOK, BootOK, Labels, Statuses, Reported, OsStatus, TooManyResets
  <2>3. image' = image /\ boot' \in {boot, None} /\ run'.at \notin CapsuleLabels
    BY <1>0, <1>5, FailMoves DEF CapsuleLabels, Labels, StepsOK, Statuses, Reported, OsStatus, TooManyResets
  <2>4. QED
    BY <2>1, <2>2, <2>3, Untouched DEF Typed
<1>6. CASE Switch
  <2>1. StoredOK'
    BY <1>0, <1>6 DEF StoredOK, BootOK, StepsOK, Statuses, Reported, OsStatus, Switch, ValidateActiveBootChain
  <2>2. FrameOK' /\ StepsOK' /\ BootOK'
    <3>1. nv.next \in Chain /\ run.at = "switch"
      BY <1>0, <1>6 DEF StepsOK, Switch
    <3>2. FrameOK' /\ run'.at = "slots" /\ run'.chain \in Chain /\ run'.ret \in Returns
      BY <1>0, <1>6, <3>1, CallMoves DEF Switch, Returns
    <3>3. run'.chain # None
      BY <3>2, NoneAssumption DEF Chain
    <3>4. QED
      BY <1>0, <1>6, <3>1, <3>2, <3>3 DEF StepsOK, BootOK, Switch
  <2>3. image' = image /\ boot' \in {boot, None} /\ run'.at \notin CapsuleLabels
    BY <1>0, <1>6, CallMoves DEF CapsuleLabels, Labels, StepsOK, Returns, Switch, ValidateActiveBootChain
  <2>4. QED
    BY <2>1, <2>2, <2>3, Untouched DEF Typed
<1>7. CASE SwitchGivesUp
  <2>1. StoredOK'
    BY <1>0, <1>7, StoredSame DEF SwitchGivesUp
  <2>2. FrameOK' /\ StepsOK' /\ BootOK'
    BY <1>0, <1>7, FailMoves DEF StepsOK, BootOK, Labels, Statuses, Reported, OsStatus, SwitchGivesUp
  <2>3. image' = image /\ boot' \in {boot, None} /\ run'.at \notin CapsuleLabels
    BY <1>0, <1>7, FailMoves DEF CapsuleLabels, Labels, StepsOK, Statuses, Reported, OsStatus, SwitchGivesUp
  <2>4. QED
    BY <2>1, <2>2, <2>3, Untouched DEF Typed
<1>8. CASE ResetToChain
  <2>1. StoredOK'
    BY <1>0, <1>8, StoredSame DEF ResetToChain
  <2>2. FrameOK' /\ StepsOK' /\ BootOK'
    BY <1>0, <1>8, RestartMoves DEF StepsOK, BootOK, Labels, ResetToChain
  <2>3. image' = image /\ boot' \in {boot, None} /\ run'.at \notin CapsuleLabels
    BY <1>0, <1>8, RestartMoves DEF CapsuleLabels, Labels, StepsOK, ResetToChain
  <2>4. QED
    BY <2>1, <2>2, <2>3, Untouched DEF Typed
<1>9. CASE ReportSuccess
  <2>1. StoredOK'
    BY <1>0, <1>9 DEF StoredOK, BootOK, StepsOK, Statuses, Reported, OsStatus, ReportSuccess, Put, NvFault
  <2>2. FrameOK' /\ StepsOK' /\ BootOK'
    BY <1>0, <1>9, FinishMoves DEF StepsOK, BootOK, Labels, Statuses, Reported, OsStatus, SUCCESS, ReportSuccess, Put, NvFault
  <2>3. image' = image /\ boot' \in {boot, None} /\ run'.at \notin CapsuleLabels
    BY <1>0, <1>9, FinishMoves DEF CapsuleLabels, Labels, StepsOK, Statuses, Reported, OsStatus, SUCCESS, ReportSuccess, Put, NvFault
  <2>4. QED
    BY <2>1, <2>2, <2>3, Untouched DEF Typed
<1>10. CASE SetStatus
  <2>1. StoredOK'
    BY <1>0, <1>10 DEF StoredOK, BootOK, StepsOK, Statuses, Reported, OsStatus, SetStatus, Put, NvFault
  <2>2. FrameOK' /\ StepsOK' /\ BootOK'
    BY <1>0, <1>10, GotoMoves DEF StepsOK, BootOK, Labels, SetStatus, Put, NvFault
  <2>3. image' = image /\ boot' \in {boot, None} /\ run'.at \notin CapsuleLabels
    BY <1>0, <1>10, GotoMoves DEF CapsuleLabels, Labels, StepsOK, SetStatus, Put, NvFault
  <2>4. QED
    BY <2>1, <2>2, <2>3, Untouched DEF Typed
<1>11. CASE FinishUpdate
  <2>1. StoredOK'
    BY <1>0, <1>11, StoredSame DEF FinishUpdate
  <2>2. FrameOK' /\ StepsOK' /\ BootOK'
    BY <1>0, <1>11, ZenonT(60) DEF StepsOK, BootOK, Labels, StoredOK, FrameOK, FinishUpdate
  <2>3. image' = image /\ boot' \in {boot, None} /\ run'.at \notin CapsuleLabels
    BY <1>0, <1>11 DEF CapsuleLabels, Labels, StepsOK, StoredOK, FrameOK, FinishUpdate
  <2>4. QED
    BY <2>1, <2>2, <2>3, Untouched DEF Typed
<1>12. CASE DeletePrevious
  <2>1. StoredOK'
    BY <1>0, <1>12 DEF StoredOK, BootOK, StepsOK, Statuses, Reported, OsStatus, DeletePrevious, Erase, Delete, Put, NvFault
  <2>2. FrameOK' /\ StepsOK' /\ BootOK'
    BY <1>0, <1>12, GotoMoves DEF StepsOK, BootOK, Labels, DeletePrevious, Erase, Delete, Put, NvFault
  <2>3. image' = image /\ boot' \in {boot, None} /\ run'.at \notin CapsuleLabels
    BY <1>0, <1>12, GotoMoves DEF CapsuleLabels, Labels, StepsOK, DeletePrevious, Erase, Delete, Put, NvFault
  <2>4. QED
    BY <2>1, <2>2, <2>3, Untouched DEF Typed
<1>13. CASE DeleteNext
  <2>1. StoredOK'
    BY <1>0, <1>13 DEF StoredOK, BootOK, StepsOK, Statuses, Reported, OsStatus, DeleteNext, Erase, Delete, Put, NvFault
  <2>2. FrameOK' /\ StepsOK' /\ BootOK'
    BY <1>0, <1>13, GotoMoves DEF StepsOK, BootOK, Labels, DeleteNext, Erase, Delete, Put, NvFault
  <2>3. image' = image /\ boot' \in {boot, None} /\ run'.at \notin CapsuleLabels
    BY <1>0, <1>13, GotoMoves DEF CapsuleLabels, Labels, StepsOK, DeleteNext, Erase, Delete, Put, NvFault
  <2>4. QED
    BY <2>1, <2>2, <2>3, Untouched DEF Typed
<1>14. CASE DeleteResetCount
  <2>1. StoredOK'
    BY <1>0, <1>14 DEF StoredOK, BootOK, StepsOK, Statuses, Reported, OsStatus, DeleteResetCount, Erase, Delete, Put, NvFault
  <2>2. FrameOK' /\ StepsOK' /\ BootOK'
    BY <1>0, <1>14, GotoMoves DEF StepsOK, BootOK, Labels, DeleteResetCount, Erase, Delete, Put, NvFault
  <2>3. image' = image /\ boot' \in {boot, None} /\ run'.at \notin CapsuleLabels
    BY <1>0, <1>14, GotoMoves DEF CapsuleLabels, Labels, StepsOK, DeleteResetCount, Erase, Delete, Put, NvFault
  <2>4. QED
    BY <2>1, <2>2, <2>3, Untouched DEF Typed
<1>15. CASE Restore
  <2>1. StoredOK'
    BY <1>0, <1>15, StoredSame DEF Restore
  <2>2. FrameOK' /\ StepsOK' /\ BootOK'
    <3>1. run.chain # None => run.chain \in Chain
      BY <1>0 DEF FrameOK
    <3>2. boot' = boot /\ run.at = "restore" /\ nv' = nv /\ pending' = pending
      BY <1>15 DEF Restore
    <3>3. CASE run.chain # None
      <4>1. CallUpdateFwChain(run.chain, "reset")
        BY <1>15, <3>3 DEF Restore
      <4>2. FrameOK' /\ run'.at = "slots" /\ run'.chain = run.chain /\ run'.ret = "reset"
        BY <1>0, <3>1, <3>3, <4>1, CallMoves DEF Returns
      <4>3. QED
        BY <1>0, <3>2, <3>3, <4>2 DEF StepsOK, BootOK, Returns
    <3>4. CASE run.chain = None
      BY <1>0, <1>15, <3>2, <3>4, GotoMoves DEF Restore, AfterUpdate, Labels, StepsOK, BootOK
    <3>5. QED
      BY <3>3, <3>4
  <2>3. image' = image /\ boot' \in {boot, None} /\ run'.at \notin CapsuleLabels
    BY <1>0, <1>15, CallMoves, GotoMoves DEF CapsuleLabels, Labels, StepsOK, Returns, FrameOK, Restore, AfterUpdate
  <2>4. QED
    BY <2>1, <2>2, <2>3, Untouched DEF Typed
<1>16. CASE RestoreGivesUp
  <2>1. StoredOK'
    BY <1>0, <1>16, StoredSame DEF RestoreGivesUp
  <2>2. FrameOK' /\ StepsOK' /\ BootOK'
    BY <1>0, <1>16, GotoMoves DEF StepsOK, BootOK, Labels, RestoreGivesUp, AfterUpdate
  <2>3. image' = image /\ boot' \in {boot, None} /\ run'.at \notin CapsuleLabels
    BY <1>0, <1>16, GotoMoves DEF CapsuleLabels, Labels, StepsOK, RestoreGivesUp, AfterUpdate
  <2>4. QED
    BY <2>1, <2>2, <2>3, Untouched DEF Typed
<1>17. CASE BootOs
  <2>1. StoredOK'
    BY <1>0, <1>17, StoredSame DEF BootOs
  <2>2. FrameOK' /\ StepsOK' /\ BootOK'
    BY <1>0, <1>17, CallMoves, GotoMoves DEF StepsOK, BootOK, Labels, Returns, BootOs
  <2>3. image' = image /\ boot' \in {boot, None} /\ run'.at \notin CapsuleLabels
    <3>1. image' = image /\ boot' = boot
      BY <1>17 DEF BootOs
    <3>2. boot \in Chain
      BY <1>0, <1>17 DEF BootOK, BootOs
    <3>3. run'.at \in {"slots", "ready to boot"}
      BY <1>0, <1>17, <3>2, CallMoves, GotoMoves DEF BootOs, Returns, Labels
    <3>4. QED
      BY <3>1, <3>3 DEF CapsuleLabels
  <2>4. QED
    BY <2>1, <2>2, <2>3, Untouched DEF Typed
<1>18. CASE ClearFlag
  <2>1. StoredOK'
    BY <1>0, <1>18 DEF StoredOK, ClearFlag, ClearUpdateBrBctFlag
  <2>2. FrameOK' /\ StepsOK' /\ BootOK'
    BY <1>0, <1>18, GotoMoves DEF StepsOK, BootOK, Labels, ClearFlag, ClearUpdateBrBctFlag
  <2>3. image' = image /\ boot' \in {boot, None} /\ run'.at \notin CapsuleLabels
    BY <1>0, <1>18, GotoMoves DEF CapsuleLabels, Labels, StepsOK, ClearFlag, ClearUpdateBrBctFlag
  <2>4. QED
    BY <2>1, <2>2, <2>3, Untouched DEF Typed
<1>19. CASE ReadyToBoot
  <2>1. StoredOK'
    BY <1>0, <1>19, ZenonT(60) DEF StoredOK, BootOK, StepsOK, Statuses, Reported, OsStatus, ReadyToBoot, ValidateActiveBootChain
  <2>2. FrameOK' /\ StepsOK' /\ BootOK'
    BY <1>0, <1>19, EnterMoves DEF StepsOK, BootOK, Labels, ReadyToBoot, ValidateActiveBootChain
  <2>3. image' = image /\ boot' \in {boot, None} /\ run'.at \notin CapsuleLabels
    BY <1>0, <1>19, EnterMoves DEF CapsuleLabels, Labels, StepsOK, ReadyToBoot, ValidateActiveBootChain
  <2>4. QED
    BY <2>1, <2>2, <2>3, Untouched DEF Typed
<1>20. QED
    BY <1>1, <1>2, <1>3, <1>4, <1>5, <1>6, <1>7, <1>8, <1>9, <1>10, <1>11, <1>12, <1>13, <1>14, <1>15, <1>16, <1>17, <1>18, <1>19 DEF BootChainStep

(* The steps of BrBctUpdateDeviceLib.                                       *)
LEMMA UpdateFwChainKeeps ==
    ASSUME IInv, UpdateFwChain
    PROVE  IInv'
<1>0. StoredOK /\ BootOK /\ FrameOK /\ StepsOK
    BY DEF IInv, Typed
<1> USE DEF At, Quiet, flash, fixed, Success, SlotNumbers
<1>1. CASE WriteSlot
  <2>1. StoredOK'
    <3>1. PICK s \in HighestLeft : slots' = [slots EXCEPT ![s] = SlotData(s, run.chain)]
      BY <1>1 DEF WriteSlot
    <3>2. SlotData(s, run.chain) \in Chain \cup {None}
      BY <1>0, <1>1, SlotsChain DEF SlotData, WriteSlot
    <3>3. UNCHANGED <<fixed, nv, backup, image, reg, pending>>
      BY <1>1 DEF WriteSlot
    <3>4. QED
      BY <1>0, <3>1, <3>2, <3>3 DEF StoredOK
  <2>2. FrameOK' /\ StepsOK' /\ BootOK'
    <3>1. PICK s \in HighestLeft : run' = [run EXCEPT !.slot = s - 1]
      BY <1>1 DEF WriteSlot
    <3>2. s - 1 \in Int
      BY <1>0 DEF HighestLeft, SlotsLeft, FrameOK
    <3>3. QED
      BY <1>0, <1>1, <3>1, <3>2 DEF FrameOK, StepsOK, BootOK, WriteSlot
  <2>3. image' = image /\ boot' \in {boot, None} /\ run'.at \notin CapsuleLabels
    BY <1>0, <1>1 DEF CapsuleLabels, Labels, StepsOK, FrameOK, WriteSlot, HighestLeft, SlotsLeft, SlotData
  <2>4. QED
    BY <2>1, <2>2, <2>3, Untouched DEF Typed
<1>2. CASE WriteSlotFails
  <2>1. StoredOK'
    <3>1. PICK s \in HighestLeft : slots' \in {slots, [slots EXCEPT ![s] = None]}
      BY <1>2 DEF WriteSlotFails
    <3>2. UNCHANGED <<fixed, nv, backup, image, reg, pending>>
      BY <1>2 DEF WriteSlotFails
    <3>3. QED
      BY <1>0, <3>1, <3>2 DEF StoredOK
  <2>2. FrameOK' /\ StepsOK' /\ BootOK'
    BY <1>0, <1>2, GotoMoves DEF StepsOK, BootOK, Labels, WriteSlotFails, Fault
  <2>3. image' = image /\ boot' \in {boot, None} /\ run'.at \notin CapsuleLabels
    BY <1>0, <1>2, GotoMoves DEF CapsuleLabels, Labels, StepsOK, WriteSlotFails, Fault
  <2>4. QED
    BY <2>1, <2>2, <2>3, Untouched DEF Typed
<1>3. CASE SlotsWritten
  <2>1. StoredOK'
    <3>1. run.chain \in Chain
      BY <1>0, <1>3, SlotsChain DEF SlotsWritten
    <3>2. QED
      BY <1>0, <1>3, <3>1 DEF StoredOK, SlotsWritten, SetNextBootChain
  <2>2. FrameOK' /\ StepsOK' /\ BootOK'
    <3>1. run.ret \in Returns /\ run.at = "slots"
      BY <1>0, <1>3, SlotsChain DEF SlotsWritten
    <3>2. FrameOK' /\ run'.at \in Returns
      BY <1>0, <1>3, <3>1, GotoMoves DEF SlotsWritten, Returns, Labels
    <3>3. QED
      BY <1>0, <1>3, <3>1, <3>2 DEF StepsOK, BootOK, Returns, SlotsWritten
  <2>3. image' = image /\ boot' \in {boot, None} /\ run'.at \notin CapsuleLabels
    <3>1. run.ret \in Returns
      BY <1>0, <1>3, SlotsChain DEF SlotsWritten
    <3>2. run'.at \in Returns
      BY <1>0, <1>3, <3>1, GotoMoves DEF SlotsWritten, Returns, Labels
    <3>3. QED
      BY <1>3, <3>2 DEF SlotsWritten, CapsuleLabels, Returns
  <2>4. QED
    BY <2>1, <2>2, <2>3, Untouched DEF Typed
<1>4. QED
    BY <1>1, <1>2, <1>3 DEF UpdateFwChain

(* The steps of the OS.                                                     *)
LEMMA OsKeeps ==
    ASSUME IInv, OsStep
    PROVE  IInv'
<1>0. StoredOK /\ BootOK /\ FrameOK /\ StepsOK
    BY DEF IInv, Typed
<1> USE DEF At, Quiet, flash, fixed, Success, SlotNumbers
<1>1. CASE OsSetNext
  <2>1. StoredOK'
    BY <1>0, <1>1 DEF StoredOK, BootOK, StepsOK, Statuses, Reported, OsStatus, OsSetNext, Put
  <2>2. FrameOK' /\ StepsOK' /\ BootOK'
    BY <1>0, <1>1 DEF StepsOK, BootOK, Labels, FrameOK, StoredOK, OsSetNext, Put
  <2>3. image' = image /\ boot' \in {boot, None} /\ run'.at \notin CapsuleLabels
    BY <1>0, <1>1 DEF CapsuleLabels, Labels, StepsOK, FrameOK, StoredOK, OsSetNext, Put
  <2>4. QED
    BY <2>1, <2>2, <2>3, Untouched DEF Typed
<1>2. CASE OsClearStatus
  <2>1. StoredOK'
    BY <1>0, <1>2 DEF StoredOK, BootOK, StepsOK, Statuses, Reported, OsStatus, OsClearStatus, Delete, Put
  <2>2. FrameOK' /\ StepsOK' /\ BootOK'
    BY <1>0, <1>2 DEF StepsOK, BootOK, Labels, FrameOK, StoredOK, OsClearStatus, Delete, Put
  <2>3. image' = image /\ boot' \in {boot, None} /\ run'.at \notin CapsuleLabels
    BY <1>0, <1>2 DEF CapsuleLabels, Labels, StepsOK, FrameOK, StoredOK, OsClearStatus, Delete, Put
  <2>4. QED
    BY <2>1, <2>2, <2>3, Untouched DEF Typed
<1>3. CASE OsSetStatus
  <2>1. StoredOK'
    BY <1>0, <1>3 DEF StoredOK, BootOK, StepsOK, Statuses, Reported, OsStatus, OsSetStatus, Put
  <2>2. FrameOK' /\ StepsOK' /\ BootOK'
    BY <1>0, <1>3 DEF StepsOK, BootOK, Labels, FrameOK, StoredOK, OsSetStatus, Put
  <2>3. image' = image /\ boot' \in {boot, None} /\ run'.at \notin CapsuleLabels
    BY <1>0, <1>3 DEF CapsuleLabels, Labels, StepsOK, FrameOK, StoredOK, OsSetStatus, Put
  <2>4. QED
    BY <2>1, <2>2, <2>3, Untouched DEF Typed
<1>4. CASE OsLeaveCapsule
  <2>1. StoredOK'
    BY <1>0, <1>4 DEF StoredOK, BootOK, StepsOK, Statuses, Reported, OsStatus, OsLeaveCapsule
  <2>2. FrameOK' /\ StepsOK' /\ BootOK'
    BY <1>0, <1>4 DEF StepsOK, BootOK, Labels, FrameOK, StoredOK, OsLeaveCapsule
  <2>3. image' = image /\ boot' \in {boot, None} /\ run'.at \notin CapsuleLabels
    BY <1>0, <1>4 DEF CapsuleLabels, Labels, StepsOK, FrameOK, StoredOK, OsLeaveCapsule
  <2>4. QED
    BY <2>1, <2>2, <2>3, Untouched DEF Typed
<1>5. CASE OsRestart
  <2>1. StoredOK'
    BY <1>0, <1>5, StoredSame DEF OsRestart
  <2>2. FrameOK' /\ StepsOK' /\ BootOK'
    BY <1>0, <1>5, RestartMoves DEF StepsOK, BootOK, Labels, OsRestart
  <2>3. image' = image /\ boot' \in {boot, None} /\ run'.at \notin CapsuleLabels
    BY <1>0, <1>5, RestartMoves DEF CapsuleLabels, Labels, StepsOK, OsRestart
  <2>4. QED
    BY <2>1, <2>2, <2>3, Untouched DEF Typed
<1>6. QED
    BY <1>1, <1>2, <1>3, <1>4, <1>5 DEF OsStep


-----------------------------------------------------------------------------
(* Writing an image of the inactive chain leaves the running one alone.     *)
LEMMA PutImageWrites ==
    ASSUME IInv, NEW part \in Images, NEW v \in Version \cup {Torn}, PutImage(part, v),
           boot \in Chain
    PROVE  /\ image' \in [Chain -> [Images -> Version \cup {Torn}]]
           /\ image'[boot] = image[boot] /\ Other(boot) \in Chain \ {boot}
           /\ image'[Other(boot)] = [image[Other(boot)] EXCEPT ![part] = v]
    BY DEF IInv, Typed, StoredOK, PutImage, Other, Chain

(* What is left to show of a step that writes at most the inactive chain.   *)
LEMMA InactiveWritten ==
    ASSUME IInv, Typed', boot \in Chain, boot' \in {boot, None},
           image'[boot] = image[boot],
           \/ image'[Other(boot)][0] = Torn
           \/ \A i \in Images : image'[Other(boot)][i] = image'[Other(boot)][0]
    PROVE  WholeChains' /\ SomeChainStarts' /\ RunningStarts'
<1>1. image'[boot][0] \in Version \ Broken
    BY NoneAssumption DEF IInv, RunningStarts, Startable, Chain
<1>2. SomeChainStarts' /\ RunningStarts'
    BY <1>1 DEF SomeChainStarts, RunningStarts, Startable, Chain
<1>3. Chain = {boot, Other(boot)}
    BY DEF Chain, Other
<1>4. WholeChains'
    BY <1>3 DEF IInv, WholeChains
<1>5. QED
    BY <1>2, <1>4

LEMMA RejectedMoves ==
    ASSUME Rejected, BootOK, ~At("off")
    PROVE  /\ FrameOK' /\ StepsOK' /\ BootOK'
           /\ run'.at \in {"off", "execute"} /\ boot' \in {boot, None}
<1>1. CASE Restart
    BY <1>1, RestartMoves
<1>2. CASE Enter("execute") /\ boot' = boot
  <2>1. FrameOK' /\ run'.at = "execute"
    BY <1>2, EnterMoves DEF Labels
  <2>2. QED
    BY <1>2, <2>1 DEF StepsOK, BootOK, At
<1>3. QED
    BY <1>1, <1>2 DEF Rejected

(* A write of the inactive chain that fails.                                *)
LEMMA ImageFailsKeeps ==
    ASSUME IInv, boot \in Chain, NEW part \in Images, ImageFails(part),
           UNCHANGED <<fixed, nv, slots, backup, reg, pending>>,
           part = 0 \/ image[Other(boot)][0] = Torn
    PROVE  IInv'
<1>1. /\ FrameOK' /\ StepsOK' /\ BootOK'
      /\ run'.at \in {"off", "execute"} /\ boot' \in {boot, None}
    BY RejectedMoves, NoneAssumption DEF ImageFails, IInv, Typed, BootOK, Chain
<1>2. CapsuleOK'
    BY <1>1 DEF CapsuleOK
<1>3. StoredOK /\ 0 \in Images
    BY RegularAssumption DEF IInv, Typed, Images
<1>4. CASE image' = image
  <2>1. StoredOK'
    BY <1>3, <1>4, StoredSame DEF flash
  <2>2. QED
    BY <1>1, <1>4, <2>1, Untouched DEF Typed, CapsuleLabels
<1>5. CASE PutImage(part, Torn)
  <2>1. StoredOK'
    BY <1>3, <1>5, PutImageWrites DEF StoredOK, fixed, SlotNumbers
  <2>2. image'[Other(boot)] = [image[Other(boot)] EXCEPT ![part] = Torn]
    BY <1>5, PutImageWrites
  <2>3. image[Other(boot)] \in [Images -> Version \cup {Torn}]
    BY <1>3, <1>5, PutImageWrites DEF StoredOK
  <2>4. image'[Other(boot)][0] = Torn
    BY <1>3, <2>2, <2>3
  <2>5. QED
    BY <1>1, <1>2, <1>5, <2>1, <2>4, PutImageWrites, InactiveWritten DEF Typed, IInv
<1>6. QED
    BY <1>4, <1>5 DEF ImageFails

(* The steps of a capsule.                                                  *)
LEMMA CapsuleKeeps ==
    ASSUME IInv, CapsuleStep
    PROVE  IInv'
<1>0. StoredOK /\ BootOK /\ FrameOK /\ StepsOK /\ CapsuleOK
    BY DEF IInv, Typed
<1> USE DEF At, flash, fixed, Success, SlotNumbers
<1>1. CASE HandleCapsules
  <2>1. StoredOK'
    <3>1. UNCHANGED <<fixed, nv, flash>> /\ pending' \in {pending, None}
      BY <1>1 DEF HandleCapsules
    <3>2. reg' \in {reg, ValidateActiveBootChain(reg)}
      BY <1>1 DEF HandleCapsules
    <3>3. QED
      BY <1>0, <3>1, <3>2 DEF StoredOK, ValidateActiveBootChain
  <2>2. image' = image /\ boot' = boot /\ run.at = "uefi" /\ run.part = 0
    BY <1>0, <1>1 DEF HandleCapsules, CapsuleOK
  <2>3. CASE Enter("execute")
    <3>1. FrameOK' /\ run'.at = "execute"
      BY <2>3, EnterMoves DEF Labels
    <3>2. StepsOK' /\ BootOK'
      BY <1>0, <2>2, <3>1 DEF StepsOK, BootOK
    <3>3. QED
      BY <2>1, <2>2, <3>1, <3>2, Untouched DEF Typed, CapsuleLabels
  <2>4. CASE pending # None /\ \E reset \in BOOLEAN :
               run' = [run EXCEPT !.at = "check image", !.status = pending, !.reset = reset]
    <3>1. pending \in Version
      BY <1>0, <2>4 DEF StoredOK
    <3>2. FrameOK' /\ run'.at = "check image" /\ run'.status = pending /\ run'.part = 0
      BY <1>0, <2>2, <2>4, <3>1 DEF FrameOK, Labels
    <3>3. StepsOK' /\ BootOK'
      BY <1>0, <2>2, <3>2 DEF StepsOK, BootOK
    <3>4. CapsuleOK'
      BY <3>1, <3>2 DEF CapsuleOK
    <3>5. WholeChains' /\ SomeChainStarts' /\ RunningStarts'
      BY <2>2 DEF IInv, WholeChains, SomeChainStarts, RunningStarts, Startable
    <3>6. QED
      BY <2>1, <3>2, <3>3, <3>4, <3>5 DEF IInv, Typed
  <2>5. QED
    BY <1>1, <2>3, <2>4 DEF HandleCapsules
<1>2. CASE CheckImage \/ SetImage
  <2>1. StoredOK'
    <3>1. CASE CheckImage
      BY <1>0, <3>1, StoredSame DEF CheckImage
    <3>2. CASE SetImage
      BY <1>0, <3>2 DEF StoredOK, SetImage, SetInactiveBootChainStatus, Other, Chain
    <3>3. QED
      BY <1>2, <3>1, <3>2
  <2>2. image' = image /\ boot' = boot /\ run.at \in {"check image", "set image"}
    BY <1>2 DEF CheckImage, SetImage
  <2>3. \E l \in {"set image", "cancel next", "invalidate mb1"} : Goto(l)
    BY <1>2 DEF CheckImage, SetImage
  <2>4. /\ FrameOK' /\ run'.at \in {"set image", "cancel next", "invalidate mb1"}
        /\ run'.part = run.part /\ run'.status = run.status
    BY <1>0, <2>3, GotoMoves DEF Labels
  <2>5. StepsOK' /\ BootOK'
    BY <1>0, <2>2, <2>4 DEF StepsOK, BootOK
  <2>6. CapsuleOK'
    BY <1>0, <2>2, <2>4 DEF CapsuleOK
  <2>7. WholeChains' /\ SomeChainStarts' /\ RunningStarts'
    BY <2>2 DEF IInv, WholeChains, SomeChainStarts, RunningStarts, Startable
  <2>8. QED
    BY <2>1, <2>4, <2>5, <2>6, <2>7 DEF IInv, Typed
<1>3. CASE CancelNext \/ CancelStatus
  <2>1. StoredOK'
    BY <1>0, <1>3 DEF StoredOK, CancelNext, CancelStatus, Delete, Put, NvFault, Statuses, Reported, OsStatus
  <2>2. CASE CancelNext
    <3>1. FrameOK' /\ run'.at = "cancel status" /\ boot' = boot /\ image' = image
      BY <1>0, <2>2, GotoMoves DEF CancelNext, Labels
    <3>2. StepsOK' /\ BootOK'
      BY <1>0, <2>2, <3>1 DEF StepsOK, BootOK, CancelNext
    <3>3. QED
      BY <2>1, <3>1, <3>2, Untouched DEF Typed, CapsuleLabels
  <2>3. CASE CancelStatus
    <3>1. Rejected /\ image' = image /\ run.at = "cancel status"
      BY <2>3 DEF CancelStatus
    <3>2. QED
      BY <1>0, <2>1, <3>1, RejectedMoves, Untouched DEF Typed, CapsuleLabels
  <2>4. QED
    BY <1>3, <2>2, <2>3
<1>4. CASE InvalidateMb1
  <2>1. boot \in Chain /\ run.at = "invalidate mb1" /\ run.part = 0 /\ run.status \in Version
    BY <1>0, <1>4 DEF InvalidateMb1, BootOK, CapsuleOK
  <2>2. 0 \in Images /\ Regular \in Nat
    BY RegularAssumption DEF Images
  <2>3. UNCHANGED <<fixed, nv, slots, backup, reg, pending>>
    BY <1>4 DEF InvalidateMb1
  <2>4. CASE ImageFails(0)
    BY <2>1, <2>2, <2>3, <2>4, ImageFailsKeeps
  <2>5. CASE /\ PutImage(0, Torn) /\ boot' = boot
             /\ run' = [run EXCEPT !.at = IF Regular = 0 THEN "write mb1" ELSE "write",
                                   !.part = IF Regular = 0 THEN 0 ELSE 1]
    <3>1. /\ image' \in [Chain -> [Images -> Version \cup {Torn}]]
          /\ image'[boot] = image[boot] /\ Other(boot) \in Chain \ {boot}
          /\ image'[Other(boot)] = [image[Other(boot)] EXCEPT ![0] = Torn]
      BY <2>1, <2>2, <2>5, PutImageWrites
    <3>2. StoredOK'
      BY <1>0, <2>3, <3>1 DEF StoredOK
    <3>3. image'[Other(boot)][0] = Torn
      BY <1>0, <2>2, <3>1 DEF StoredOK
    <3>4. (IF Regular = 0 THEN 0 ELSE 1) \in Images
      BY <2>2 DEF Images
    <3>5. FrameOK' /\ run'.status = run.status
          /\ run'.at = (IF Regular = 0 THEN "write mb1" ELSE "write")
          /\ run'.part = (IF Regular = 0 THEN 0 ELSE 1)
      BY <1>0, <2>5, <3>4 DEF FrameOK, Labels
    <3>6. StepsOK' /\ BootOK'
      <4>1. run'.at \in {"write mb1", "write"} /\ boot' = boot
        BY <2>5, <3>5
      <4>2. QED
        BY <1>0, <2>1, <4>1 DEF StepsOK, BootOK
    <3>7. CapsuleOK'
      <4>1. CASE Regular = 0
        <5>1. /\ run'.at = "write mb1" /\ run'.part = 0 /\ run'.status \in Version
              /\ boot' = boot
          BY <2>1, <2>5, <3>5, <4>1
        <5>2. \A i \in 1..Regular : FALSE
          BY <4>1
        <5>3. QED
          BY <3>3, <5>1, <5>2 DEF CapsuleOK
      <4>2. CASE Regular # 0
        <5>1. /\ run'.at = "write" /\ run'.part = 1 /\ run'.status \in Version
              /\ boot' = boot
          BY <2>1, <2>5, <3>5, <4>2
        <5>2. 1 \in 1..Regular /\ 1..(1 - 1) = {}
          BY <2>2, <4>2
        <5>3. QED
          BY <3>3, <5>1, <5>2 DEF CapsuleOK
      <4>3. QED
        BY <4>1, <4>2
    <3>8. QED
      BY <2>1, <2>5, <3>1, <3>2, <3>3, <3>5, <3>6, <3>7, InactiveWritten DEF IInv, Typed
  <2>6. QED
    BY <1>4, <2>4, <2>5 DEF InvalidateMb1
<1>5. CASE WriteRegular
  <2>1. /\ boot \in Chain /\ run.at = "write" /\ run.part \in 1..Regular
        /\ run.status \in Version /\ image[Other(boot)][0] = Torn
        /\ \A i \in 1..(run.part - 1) : image[Other(boot)][i] = run.status
    BY <1>0, <1>5 DEF WriteRegular, BootOK, CapsuleOK
  <2>2. run.part \in Images \ {0} /\ Regular \in Nat /\ 0 \in Images /\ 1..Regular \subseteq Images
    BY <2>1, RegularAssumption DEF Images
  <2>3. UNCHANGED <<fixed, nv, slots, backup, reg, pending>>
    BY <1>5 DEF WriteRegular
  <2>4. CASE ImageFails(run.part)
    BY <2>1, <2>2, <2>3, <2>4, ImageFailsKeeps
  <2>5. CASE /\ PutImage(run.part, run.status) /\ boot' = boot
             /\ run' = [run EXCEPT !.at = IF run.part = Regular THEN "write mb1" ELSE "write",
                                   !.part = IF run.part = Regular THEN 0 ELSE run.part + 1]
    <3>1. /\ image' \in [Chain -> [Images -> Version \cup {Torn}]]
          /\ image'[boot] = image[boot] /\ Other(boot) \in Chain \ {boot}
          /\ image'[Other(boot)] = [image[Other(boot)] EXCEPT ![run.part] = run.status]
      BY <2>1, <2>2, <2>5, PutImageWrites
    <3>2. StoredOK'
      BY <1>0, <2>3, <3>1 DEF StoredOK
    <3>3. image[Other(boot)] \in [Images -> Version \cup {Torn}]
      BY <1>0, <3>1 DEF StoredOK
    <3>4. image'[Other(boot)][0] = Torn
      BY <2>1, <2>2, <3>1, <3>3
    <3>5. \A i \in 1..run.part : image'[Other(boot)][i] = run.status
      <4>1. TAKE i \in 1..run.part
      <4>2. i \in Images
        BY <2>1, <2>2 DEF Images
      <4>3. i = run.part \/ i \in 1..(run.part - 1)
        BY <2>1, <2>2
      <4>4. QED
        BY <2>1, <3>1, <3>3, <4>2, <4>3
    <3>6. (IF run.part = Regular THEN 0 ELSE run.part + 1) \in Images
      BY <2>1, <2>2 DEF Images
    <3>7. FrameOK' /\ run'.status = run.status
          /\ run'.at = (IF run.part = Regular THEN "write mb1" ELSE "write")
          /\ run'.part = (IF run.part = Regular THEN 0 ELSE run.part + 1)
      BY <1>0, <2>5, <3>6 DEF FrameOK, Labels
    <3>8. StepsOK' /\ BootOK'
      BY <1>0, <2>1, <2>5, <3>7 DEF StepsOK, BootOK
    <3>9. CASE run.part = Regular
      <4>1. CapsuleOK'
        BY <2>1, <2>2, <2>5, <3>4, <3>5, <3>7, <3>9 DEF CapsuleOK
      <4>2. QED
        BY <2>1, <2>5, <3>1, <3>2, <3>4, <3>7, <3>8, <4>1, InactiveWritten DEF IInv, Typed
    <3>10. CASE run.part # Regular
      <4>1. run.part + 1 \in 1..Regular /\ (run.part + 1) - 1 = run.part
        BY <2>1, <2>2, <3>10
      <4>2. CapsuleOK'
        BY <2>1, <2>2, <2>5, <3>4, <3>5, <3>7, <3>10, <4>1 DEF CapsuleOK
      <4>3. QED
        BY <2>1, <2>5, <3>1, <3>2, <3>4, <3>7, <3>8, <4>2, InactiveWritten DEF IInv, Typed
    <3>11. QED
      BY <3>9, <3>10
  <2>6. QED
    BY <1>5, <2>4, <2>5 DEF WriteRegular
<1>6. CASE WriteMb1
  <2>1. /\ boot \in Chain /\ run.at = "write mb1" /\ run.part = 0
        /\ run.status \in Version /\ image[Other(boot)][0] = Torn
        /\ \A i \in 1..Regular : image[Other(boot)][i] = run.status
    BY <1>0, <1>6 DEF WriteMb1, BootOK, CapsuleOK
  <2>2. 0 \in Images
    BY RegularAssumption DEF Images
  <2>3. UNCHANGED <<fixed, nv, slots, backup, reg, pending>>
    BY <1>6 DEF WriteMb1
  <2>4. CASE ImageFails(0)
    BY <2>1, <2>2, <2>3, <2>4, ImageFailsKeeps
  <2>5. CASE PutImage(0, run.status) /\ Goto("verify") /\ boot' = boot
    <3>1. /\ image' \in [Chain -> [Images -> Version \cup {Torn}]]
          /\ image'[boot] = image[boot] /\ Other(boot) \in Chain \ {boot}
          /\ image'[Other(boot)] = [image[Other(boot)] EXCEPT ![0] = run.status]
      BY <2>1, <2>2, <2>5, PutImageWrites
    <3>2. StoredOK'
      BY <1>0, <2>3, <3>1 DEF StoredOK
    <3>3. image[Other(boot)] \in [Images -> Version \cup {Torn}]
      BY <1>0, <3>1 DEF StoredOK
    <3>4. \A i \in Images : image'[Other(boot)][i] = run.status
      <4>1. \A i \in Images : i = 0 \/ i \in 1..Regular
        BY RegularAssumption DEF Images
      <4>2. QED
        BY <2>1, <2>2, <3>1, <3>3, <4>1
    <3>5. FrameOK' /\ run'.at = "verify"
      BY <1>0, <2>5, GotoMoves DEF Labels
    <3>6. StepsOK' /\ BootOK' /\ CapsuleOK'
      BY <1>0, <2>1, <2>5, <3>5 DEF StepsOK, BootOK, CapsuleOK
    <3>7. QED
      BY <2>1, <2>2, <2>5, <3>1, <3>2, <3>4, <3>5, <3>6, InactiveWritten DEF IInv, Typed
  <2>6. QED
    BY <1>6, <2>4, <2>5 DEF WriteMb1
<1>7. CASE VerifyImages
  <2>1. StoredOK'
    BY <1>0, <1>7, StoredSame DEF VerifyImages
  <2>2. image' = image /\ run.at = "verify"
    BY <1>7 DEF VerifyImages
  <2>3. CASE Goto("backup") /\ boot' = boot
    <3>1. FrameOK' /\ run'.at = "backup"
      BY <1>0, <2>3, GotoMoves DEF Labels
    <3>2. StepsOK' /\ BootOK'
      BY <1>0, <2>2, <2>3, <3>1 DEF StepsOK, BootOK
    <3>3. QED
      BY <2>1, <2>2, <2>3, <3>1, <3>2, Untouched DEF Typed, CapsuleLabels
  <2>4. CASE Rejected
    BY <1>0, <2>1, <2>2, <2>4, RejectedMoves, Untouched DEF Typed, CapsuleLabels
  <2>5. QED
    BY <1>7, <2>3, <2>4 DEF VerifyImages
<1>8. CASE UpdateBackup
  <2>1. image' = image /\ run.at = "backup" /\ boot \in Chain /\ Other(boot) \in Chain
    BY <1>0, <1>8 DEF UpdateBackup, BootOK, Other, Chain
  <2>2. StoredOK'
    BY <1>0, <1>8, <2>1 DEF StoredOK, UpdateBackup, BackupCutShort
  <2>3. CASE CallUpdateFwChain(Other(boot), "capsule done") /\ boot' = boot
    <3>1. FrameOK' /\ run'.at = "slots" /\ run'.chain = Other(boot) /\ run'.ret = "capsule done"
      BY <1>0, <2>1, <2>3, CallMoves DEF Returns
    <3>2. StepsOK' /\ BootOK'
      BY <1>0, <2>1, <2>3, <3>1, NoneAssumption DEF StepsOK, BootOK, Returns, Chain
    <3>3. QED
      BY <2>1, <2>2, <2>3, <3>1, <3>2, Untouched DEF Typed, CapsuleLabels
  <2>4. CASE Rejected
    BY <1>0, <2>1, <2>2, <2>4, RejectedMoves, Untouched DEF Typed, CapsuleLabels
  <2>5. QED
    BY <1>8, <2>3, <2>4 DEF UpdateBackup
<1>9. CASE CapsuleGivesUp
  <2>1. StoredOK' /\ Rejected /\ image' = image /\ run.at = "slots failed"
    BY <1>0, <1>9, StoredSame DEF CapsuleGivesUp
  <2>2. QED
    BY <1>0, <2>1, RejectedMoves, Untouched DEF Typed, CapsuleLabels
<1>10. CASE CapsuleDone
  <2>1. Restart /\ image' = image /\ Other(boot) \in Chain
    BY <1>10 DEF CapsuleDone, Other, Chain
  <2>2. StoredOK'
    BY <1>0, <1>10, <2>1 DEF StoredOK, CapsuleDone, SetInactiveBootChainStatus
  <2>3. QED
    BY <2>1, <2>2, RestartMoves, Untouched DEF Typed, CapsuleLabels
<1>11. QED
    BY <1>1, <1>2, <1>3, <1>4, <1>5, <1>6, <1>7, <1>8, <1>9, <1>10 DEF CapsuleStep

-----------------------------------------------------------------------------
(* The boot ROM starts a chain that starts, or none.                        *)
LEMMA PowerOnKeeps ==
    ASSUME IInv, PowerOn
    PROVE  IInv'
<1>0. StoredOK /\ BootOK /\ FrameOK /\ StepsOK
    BY DEF IInv, Typed
<1>1. PICK c \in RomChoice :
         \/ Startable(c) /\ boot' = c /\ reg' \in {reg, [reg EXCEPT !.lastFailed = FALSE]}
         \/ /\ ~Startable(c) /\ Startable(Other(c)) /\ boot' = Other(c)
            /\ reg' = [reg EXCEPT !.failed = @ \cup {c}, !.lastFailed = TRUE]
    BY DEF PowerOn
<1>2. c \in Chain
    BY <1>0 DEF RomChoice, FirstValid, StoredOK
<1>3. boot' \in Chain /\ Startable(boot')
    BY <1>1, <1>2 DEF Other, Chain
<1>4. UNCHANGED <<fixed, nv, flash, pending>>
    BY DEF PowerOn
<1>5. StoredOK'
  <2>1. (reg \in [failed : SUBSET Chain, lastFailed : BOOLEAN, next : Chain \cup {None}])'
    <3>1. reg \in [failed : SUBSET Chain, lastFailed : BOOLEAN, next : Chain \cup {None}]
      BY <1>0 DEF StoredOK
    <3>2. CASE reg' \in {reg, [reg EXCEPT !.lastFailed = FALSE]}
      BY <3>1, <3>2
    <3>3. CASE reg' = [reg EXCEPT !.failed = @ \cup {c}, !.lastFailed = TRUE]
      BY <1>2, <3>1, <3>3
    <3>4. QED
      BY <1>1, <3>2, <3>3
  <2>2. QED
    BY <1>0, <1>4, <2>1 DEF StoredOK, fixed, flash, SlotNumbers
<1>6. FrameOK' /\ run'.at = "uefi" /\ run'.part = 0
    BY EnterMoves DEF PowerOn, Labels
<1>7. StepsOK' /\ BootOK' /\ CapsuleOK'
    BY <1>3, <1>6, NoneAssumption DEF StepsOK, BootOK, CapsuleOK, At, Chain
<1>8. WholeChains' /\ SomeChainStarts' /\ RunningStarts'
    BY <1>3, <1>4 DEF IInv, WholeChains, SomeChainStarts, RunningStarts, Startable, flash
<1>9. QED
    BY <1>5, <1>6, <1>7, <1>8 DEF IInv, Typed

(* Power may be lost in the middle of any write.                            *)
LEMMA PowerLossKeeps ==
    ASSUME IInv, PowerLoss
    PROVE  IInv'
<1>0. StoredOK /\ BootOK /\ FrameOK /\ StepsOK /\ CapsuleOK
    BY DEF IInv, Typed
<1>1. boot \in Chain /\ run.part \in Images /\ 0 \in Images
  <2>1. 0 \in Images
    BY RegularAssumption DEF Images
  <2>2. run.part \in Images
    BY <1>0 DEF FrameOK
  <2>3. QED
    BY <1>0, <2>1, <2>2 DEF BootOK, PowerLoss
<1>2. Restart /\ UNCHANGED <<fixed, nv, pending>> /\ reg' = RegAfterPowerLoss
    BY DEF PowerLoss
<1>3. FrameOK' /\ BootOK' /\ StepsOK' /\ run'.at = "off" /\ boot' = None
    BY <1>2, RestartMoves
<1>4. slots' \in [SlotNumbers -> Chain \cup {None}]
  <2>1. slots' = slots \/ \E s \in HighestLeft : slots' = [slots EXCEPT ![s] = None]
    BY DEF PowerLoss
  <2>2. QED
    BY <1>0, <2>1 DEF StoredOK
<1>5. backup' \in [Chain -> BOOLEAN]
    BY <1>0 DEF PowerLoss, BackupCutShort, StoredOK
<1>6. CapsuleOK'
    BY <1>3 DEF CapsuleOK
<1>7. CASE image' = image
  <2>1. StoredOK'
    BY <1>0, <1>2, <1>4, <1>5, <1>7 DEF StoredOK, RegAfterPowerLoss, fixed, SlotNumbers
  <2>2. QED
    BY <1>3, <1>7, <2>1, Untouched DEF Typed, CapsuleLabels
<1>8. CASE /\ PutImage(run.part, Torn)
           /\ run.at \in {"invalidate mb1", "write", "write mb1"}
  <2>1. /\ image' \in [Chain -> [Images -> Version \cup {Torn}]]
        /\ image'[boot] = image[boot]
        /\ image'[Other(boot)] = [image[Other(boot)] EXCEPT ![run.part] = Torn]
        /\ Other(boot) \in Chain
    BY <1>1, <1>8, PutImageWrites
  <2>2. StoredOK'
    BY <1>0, <1>2, <1>4, <1>5, <2>1 DEF StoredOK, RegAfterPowerLoss, fixed, SlotNumbers
  <2>3. image[Other(boot)] \in [Images -> Version \cup {Torn}]
    BY <1>0, <2>1 DEF StoredOK
  <2>4. run.part = 0 \/ image[Other(boot)][0] = Torn
    BY <1>0, <1>8 DEF CapsuleOK
  <2>5. image'[Other(boot)][0] = Torn
    BY <1>1, <2>1, <2>3, <2>4
  <2>6. QED
    BY <1>1, <1>3, <1>6, <2>1, <2>2, <2>5, InactiveWritten DEF IInv, Typed
<1>9. QED
    BY <1>7, <1>8 DEF PowerLoss, PutImage, At

LEMMA InitHolds ==
    ASSUME Init
    PROVE  IInv
<1>1. 0 \in Images /\ FirstVersion \in Version \ Broken /\ platform \in Platforms
    BY VersionAssumption, RegularAssumption DEF Init, Images
<1>2. StoredOK
    BY <1>1, ResetCountAssumption DEF Init, StoredOK, Statuses, Reported, OsStatus, Chain, RegAfterPowerLoss
<1>3. BootOK /\ FrameOK /\ StepsOK /\ CapsuleOK
    BY <1>1 DEF Init, Idle, BootOK, FrameOK, StepsOK, CapsuleOK, Labels, At
<1>4. WholeChains /\ SomeChainStarts /\ RunningStarts
    BY <1>1 DEF Init, WholeChains, SomeChainStarts, RunningStarts, Startable, Chain
<1>5. QED
    BY <1>2, <1>3, <1>4 DEF IInv, Typed

LEMMA StutterKeeps ==
    ASSUME IInv, UNCHANGED vars
    PROVE  IInv'
<1>1. Typed'
    BY StoredSame DEF IInv, vars, fixed, flash, Typed, BootOK, FrameOK, StepsOK, At
<1>2. CapsuleOK'
    BY DEF IInv, vars, CapsuleOK
<1>3. WholeChains' /\ SomeChainStarts' /\ RunningStarts'
    BY DEF IInv, vars, WholeChains, SomeChainStarts, RunningStarts, Startable
<1>4. QED
    BY <1>1, <1>2, <1>3 DEF IInv

THEOREM Invariant == Spec => []IInv
<1>1. Init => IInv
    BY InitHolds
<1>2. IInv /\ [Next]_vars => IInv'
    BY BootChainKeeps, UpdateFwChainKeeps, CapsuleKeeps, OsKeeps, PowerOnKeeps,
       PowerLossKeeps, StutterKeeps DEF Next, Firmware
<1>3. QED
    BY <1>1, <1>2, PTL DEF Spec

(* The variables, slots, images and register always hold what the code may  *)
(* write there (BootChainDxe, BrBctUpdateDeviceLib, TegraFmp).              *)
THEOREM TypeCorrect == Spec => []TypeOK
<1>1. IInv => TypeOK
    BY DEF IInv, Typed, StoredOK, BootOK, FrameOK, TypeOK
<1>2. QED
    BY <1>1, Invariant, PTL

(* Whatever step a power loss or a failed write interrupts, mb1 of a chain  *)
(* is valid only when all its images are of that version (FmpTegraSetImage).*)
THEOREM ChainsWhole == Spec => []WholeChains
    BY Invariant, PTL DEF IInv

(* One chain always starts, and the one that runs is never written by a     *)
(* capsule: first half of CanStart (FmpTegraSetImage).                      *)
THEOREM OneChainStarts == Spec => [](SomeChainStarts /\ RunningStarts)
    BY Invariant, PTL DEF IInv

-----------------------------------------------------------------------------
(* The counters and the history of requests.                                *)
UsedOK ==
    used \in [losses : Nat, faults : Nat, nvFaults : Nat, requests : Nat,
              capsules : Nat, tornCopied : BOOLEAN]
AskedOK == asked \in [from : Chain \cup {None}, disturbed : BOOLEAN, forged : BOOLEAN]
HistoryOK == UsedOK /\ AskedOK

(* No counter goes back.                                                    *)
Grows ==
    /\ used'.losses >= used.losses /\ used'.faults >= used.faults
    /\ used'.nvFaults >= used.nvFaults
    /\ used.tornCopied = TRUE => used'.tornCopied = TRUE

LEMMA CountersGrow ==
    ASSUME HistoryOK, Success \/ Fault \/ NvFault
    PROVE  HistoryOK' /\ Grows
<1>1. UsedOK' /\ Grows
    BY DEF HistoryOK, UsedOK, Grows, Success, Fault, NvFault
<1>2. AskedOK'
    BY DEF HistoryOK, AskedOK, Success, Fault, NvFault, Disturbed
<1>3. QED
    BY <1>1, <1>2 DEF HistoryOK

LEMMA HistoryKeeps ==
    ASSUME IInv, HistoryOK, Next
    PROVE  HistoryOK' /\ Grows
<1>0. UsedOK /\ AskedOK
  BY DEF HistoryOK
<1>1. CASE Firmware
  <2>1. CASE PowerOn
    <3>1. used' = used /\ asked' = asked
      BY <2>1 DEF PowerOn
    <3>2. QED
      BY <3>1, CountersGrow DEF Success
  <2>2. CASE CapsuleStep
    <3>1. Success \/ Fault \/ NvFault
      BY <2>2 DEF CapsuleStep, HandleCapsules, CheckImage, CancelNext, CancelStatus, SetImage,
         InvalidateMb1, WriteRegular, WriteMb1, VerifyImages, UpdateBackup, CapsuleGivesUp,
         CapsuleDone, ImageFails
    <3>2. QED
      BY <3>1, CountersGrow
  <2>3. CASE BootChainStep
    <3>1. CASE ExecuteUpdate
      <4>1. used' = used
        BY <3>1 DEF ExecuteUpdate
      <4>2. asked' = asked \/ asked' = [from |-> boot, disturbed |-> FALSE, forged |-> FALSE]
        BY <3>1 DEF ExecuteUpdate, NoRequest, RequestUnreadable, StatusUnreadable, NewRequest,
           SwitchWorked, SwitchFailed, AlreadyDecided
      <4>3. boot \in Chain \cup {None}
        BY DEF IInv, Typed, BootOK
      <4>4. AskedOK'
        <5>1. CASE asked' = asked
          BY <1>0, <5>1 DEF AskedOK
        <5>2. CASE asked' = [from |-> boot, disturbed |-> FALSE, forged |-> FALSE]
          BY <4>3, <5>2 DEF AskedOK
        <5>3. QED
          BY <4>2, <5>1, <5>2
      <4>5. UsedOK' /\ Grows
        BY <1>0, <4>1 DEF UsedOK, Grows
      <4>6. QED
        BY <4>4, <4>5 DEF HistoryOK
    <3>2. CASE ~ExecuteUpdate
      <4>1. Success \/ NvFault
        BY <2>3, <3>2 DEF BootChainStep, SavePrevious, SetInProgress, CountReset, TooManyResets,
           Switch, SwitchGivesUp, ResetToChain, ReportSuccess, SetStatus, FinishUpdate,
           DeletePrevious, DeleteNext, DeleteResetCount, Restore, RestoreGivesUp, BootOs,
           ClearFlag, ReadyToBoot, Record, Erase
      <4>2. QED
        BY <4>1, CountersGrow
    <3>3. QED
      BY <3>1, <3>2
  <2>4. CASE UpdateFwChain
    <3>1. CASE WriteSlot
      <4>1. PICK torn \in BOOLEAN : used' = [used EXCEPT !.tornCopied = @ \/ torn]
        <5>1. used' = [used EXCEPT !.tornCopied = @ \/ ~backup[run.chain]]
          BY <3>1 DEF WriteSlot
        <5>2. CASE backup[run.chain]
          BY <5>1, <5>2
        <5>3. CASE ~backup[run.chain]
          BY <5>1, <5>3
        <5>4. QED
          BY <5>2, <5>3
      <4>2. UsedOK'
        BY <1>0, <4>1 DEF UsedOK
      <4>3. Grows
        BY <1>0, <4>1 DEF UsedOK, Grows
      <4>4. AskedOK'
        BY <1>0, <3>1 DEF WriteSlot, AskedOK
      <4>5. QED
        BY <4>2, <4>3, <4>4 DEF HistoryOK
    <3>2. CASE WriteSlotFails \/ SlotsWritten
      BY <3>2, CountersGrow DEF WriteSlotFails, SlotsWritten
    <3>3. QED
      BY <2>4, <3>1, <3>2 DEF UpdateFwChain
  <2>5. QED
    BY <1>1, <2>1, <2>2, <2>3, <2>4 DEF Firmware
<1>2. CASE OsStep
  <2>1. UsedOK' /\ Grows
    BY <1>0, <1>2 DEF OsStep, OsSetNext, OsClearStatus, OsSetStatus, OsLeaveCapsule, OsRestart,
       Success, UsedOK, Grows
  <2>2. AskedOK'
    BY <1>0, <1>2 DEF OsStep, OsSetNext, OsClearStatus, OsSetStatus, OsLeaveCapsule, OsRestart,
       Success, AskedOK
  <2>3. QED
    BY <2>1, <2>2 DEF HistoryOK
<1>3. CASE PowerLoss
  <2>1. used' = [used EXCEPT !.losses = @ + 1] /\ asked' = [asked EXCEPT !.disturbed = TRUE]
    BY <1>3 DEF PowerLoss, Disturbed
  <2>2. UsedOK' /\ Grows
    BY <1>0, <2>1 DEF UsedOK, Grows
  <2>3. AskedOK'
    BY <1>0, <2>1 DEF AskedOK
  <2>4. QED
    BY <2>2, <2>3 DEF HistoryOK
<1>4. QED
  BY <1>1, <1>2, <1>3 DEF Next

-----------------------------------------------------------------------------
(* No update is open: none is in progress, unless the OS pretends so, and   *)
(* no way back is recorded.                                                 *)
InProgress == nv.status = IN_PROGRESS /\ ~asked.forged
Closed == ~InProgress /\ nv.previous = None

EndLabels == {"delete previous", "delete next", "delete count", "restore"}
WritingSlots == run.at \in {"slots", "slots failed"}

(* The slots are about to be, or are being, written for a new request.      *)
Switching ==
    \/ run.at \in {"count reset", "switch"}
    \/ WritingSlots /\ run.ret = "reset" /\ run.status = None

ClosedLabels ==
    {"check image", "cancel next", "cancel status", "set image", "invalidate mb1",
     "write", "write mb1", "verify", "backup", "capsule done", "boot os", "clear flag",
     "ready to boot", "os", "delete next", "delete count", "restore"}

(* BCStatus is empty until the update is decided, and then names its end.   *)
StatusMeans ==
    /\ run.at \in {"execute", "save previous", "set in progress", "count reset", "switch"}
         => run.status = None
    /\ run.at \in {"set status", "finish"} \cup EndLabels
         => run.status \in Reported \ {IN_PROGRESS}

(* Where no variable write has failed: an update in progress asks for the   *)
(* other chain than the one that ran; an update is open only between its    *)
(* acceptance and its end, never while a capsule waits or the OS runs.      *)
Books ==
    /\ InProgress => asked.from \in Chain /\ nv.next = Other(asked.from)
    /\ nv.previous # None => nv.next \in Chain
    /\ pending # None => Closed /\ run.at \in {"off", "uefi", "os"}
    /\ run.at \in ClosedLabels => Closed
    /\ WritingSlots /\ ~Switching => Closed
    /\ Switching => nv.status = IN_PROGRESS
    /\ run.at \in {"finish", "delete previous"} => nv.status \notin {None, IN_PROGRESS}
    /\ run.at \in {"save previous", "set in progress"} =>
          nv.status = None /\ asked.from = boot /\ nv.next = Other(boot)
    /\ run.at = "set in progress" => nv.previous = boot
    /\ run.at = "report success" => boot = Other(asked.from) \/ asked.forged
BooksKept == used.nvFaults = 0 => Books

(* What follows an update that is closed without a switch back.             *)
LEMMA AfterUpdateMoves ==
    Goto(AfterUpdate) <=> \/ run.status = MAX_UINT32 /\ Goto("boot os")
                          \/ run.status # MAX_UINT32 /\ Goto("ready to boot")
    BY DEF AfterUpdate

(* Steps of BCStatus: what may be said of it after each way of moving on.   *)
ExecuteLabels == {"execute", "save previous", "set in progress", "count reset", "switch"}
StatusLabels == {"set status", "finish"} \cup EndLabels

LEMMA StatusAfterGoto ==
    ASSUME FrameOK, StatusMeans, NEW l, Goto(l),
           l \in ExecuteLabels => run.at \in ExecuteLabels,
           l \in StatusLabels => run.at \in StatusLabels
    PROVE  StatusMeans'
    BY DEF Goto, FrameOK, StatusMeans, ExecuteLabels, StatusLabels

LEMMA StatusAfterEnter ==
    ASSUME NEW l, Enter(l), l \notin StatusLabels
    PROVE  StatusMeans'
    BY DEF Enter, Idle, StatusMeans, StatusLabels

LEMMA StatusAfterRestart ==
    ASSUME Restart
    PROVE  StatusMeans'
    BY DEF Restart, Idle, StatusMeans, EndLabels

LEMMA StatusAfterFail ==
    ASSUME FrameOK, NEW s \in Reported \ {IN_PROGRESS}, Fail(s) \/ Finish(s)
    PROVE  StatusMeans'
    BY DEF Fail, Finish, FrameOK, StatusMeans, EndLabels

LEMMA StatusAfterCall ==
    ASSUME FrameOK, NEW c, NEW r, CallUpdateFwChain(c, r)
    PROVE  StatusMeans'
    BY DEF CallUpdateFwChain, FrameOK, StatusMeans, EndLabels

LEMMA StatusAfterReject ==
    ASSUME Rejected
    PROVE  StatusMeans'
    BY StatusAfterRestart, StatusAfterEnter DEF Rejected, StatusLabels, EndLabels

LEMMA StatusMeansKeeps ==
    ASSUME IInv, StatusMeans, Next
    PROVE  StatusMeans'
<1>0. FrameOK /\ BootOK /\ StoredOK /\ StepsOK
    BY DEF IInv, Typed
<1> USE DEF At
<1>1. CASE BootChainStep
  <2> USE DEF ExecuteLabels, StatusLabels, EndLabels
  <2>1. CASE ExecuteUpdate
    <3>1. nv.status \notin {None, IN_PROGRESS} => nv.status \in Reported \ {IN_PROGRESS}
      BY <1>0 DEF StoredOK, Statuses
    <3>2. /\ run.at = "execute"
          /\ \/ \E l \in ExecuteLabels \cup {"boot os", "report success"} : Goto(l)
             \/ \E s \in Reported \ {IN_PROGRESS} : Fail(s) \/ Finish(s)
      BY <2>1, <3>1 DEF ExecuteUpdate, NoRequest, RequestUnreadable, StatusUnreadable,
         NewRequest, SwitchWorked, SwitchFailed, AlreadyDecided, Reported, OsStatus, IN_PROGRESS
    <3>3. QED
      BY <1>0, <3>2, StatusAfterGoto, StatusAfterFail
  <2>2. CASE SavePrevious \/ SetInProgress \/ CountReset
    <3>1. /\ run.at \in ExecuteLabels
          /\ \/ \E l \in ExecuteLabels : Goto(l)
             \/ \E s \in Reported \ {IN_PROGRESS} : Fail(s)
      BY <2>2 DEF SavePrevious, SetInProgress, CountReset, Record, Reported, OsStatus, IN_PROGRESS
    <3>2. QED
      BY <1>0, <3>1, StatusAfterGoto, StatusAfterFail
  <2>3. CASE TooManyResets \/ SwitchGivesUp
    BY <1>0, <2>3, StatusAfterFail DEF TooManyResets, SwitchGivesUp, Reported, OsStatus, IN_PROGRESS
  <2>4. CASE Switch
    BY <1>0, <2>4, StatusAfterCall DEF Switch
  <2>5. CASE ResetToChain
    BY <2>5, StatusAfterRestart DEF ResetToChain
  <2>6. CASE ReportSuccess
    BY <1>0, <2>6, StatusAfterFail DEF ReportSuccess, Reported, OsStatus, SUCCESS, IN_PROGRESS
  <2>7. CASE SetStatus
    BY <1>0, <2>7, StatusAfterGoto DEF SetStatus
  <2>8. CASE FinishUpdate
    BY <1>0, <2>8 DEF FinishUpdate, StatusMeans, FrameOK
  <2>9. CASE DeletePrevious \/ DeleteNext \/ DeleteResetCount
    <3>1. run.at \in EndLabels /\ \E l \in EndLabels : Goto(l)
      BY <2>9 DEF DeletePrevious, DeleteNext, DeleteResetCount, Erase
    <3>2. QED
      BY <1>0, <3>1, StatusAfterGoto
  <2>10. CASE Restore \/ BootOs
    BY <1>0, <2>10, StatusAfterGoto, StatusAfterCall, AfterUpdateMoves DEF Restore, BootOs
  <2>11. CASE RestoreGivesUp \/ ClearFlag
    BY <1>0, <2>11, StatusAfterGoto, AfterUpdateMoves DEF RestoreGivesUp, ClearFlag
  <2>12. CASE ReadyToBoot
    BY <2>12, StatusAfterEnter DEF ReadyToBoot
  <2>13. QED
    BY <1>1, <2>1, <2>2, <2>3, <2>4, <2>5, <2>6, <2>7, <2>8, <2>9, <2>10, <2>11, <2>12
    DEF BootChainStep
<1>2. CASE CapsuleStep
  <2>1. CASE HandleCapsules
    <3>1. CASE Enter("execute")
      BY <3>1, StatusAfterEnter DEF StatusLabels, EndLabels
    <3>2. CASE \E reset \in BOOLEAN :
                 run' = [run EXCEPT !.at = "check image", !.status = pending, !.reset = reset]
      BY <1>0, <3>2 DEF StatusMeans, EndLabels, FrameOK
    <3>3. QED
      BY <2>1, <3>1, <3>2 DEF HandleCapsules
  <2>2. CASE CheckImage \/ SetImage \/ CancelNext
    <3>1. \E l \in {"set image", "cancel next", "invalidate mb1", "cancel status"} : Goto(l)
      BY <2>2 DEF CheckImage, SetImage, CancelNext
    <3>2. QED
      BY <1>0, <3>1, StatusAfterGoto DEF ExecuteLabels, StatusLabels, EndLabels
  <2>3. CASE CancelStatus \/ CapsuleGivesUp
    BY <2>3, StatusAfterReject DEF CancelStatus, CapsuleGivesUp
  <2>4. CASE InvalidateMb1 \/ WriteRegular
    <3>1. CASE Rejected
      BY <3>1, StatusAfterReject
    <3>2. ASSUME NEW l \in {"write", "write mb1"}, NEW p,
                 run' = [run EXCEPT !.at = l, !.part = p]
          PROVE  StatusMeans'
      BY <1>0, <3>2 DEF StatusMeans, EndLabels, FrameOK
    <3>3. CASE InvalidateMb1
      <4>1. \/ Rejected
            \/ run' = [run EXCEPT !.at = "write mb1", !.part = 0]
            \/ run' = [run EXCEPT !.at = "write", !.part = 1]
        BY <3>3 DEF InvalidateMb1, ImageFails
      <4>2. QED
        BY <3>1, <3>2, <4>1
    <3>4. CASE WriteRegular
      <4>1. \/ Rejected
            \/ run' = [run EXCEPT !.at = "write mb1", !.part = 0]
            \/ run' = [run EXCEPT !.at = "write", !.part = run.part + 1]
        BY <3>4 DEF WriteRegular, ImageFails
      <4>2. QED
        BY <3>1, <3>2, <4>1
    <3>5. QED
      BY <2>4, <3>3, <3>4
  <2>5. CASE WriteMb1 \/ VerifyImages
    <3>1. Rejected \/ \E l \in {"verify", "backup"} : Goto(l)
      BY <2>5 DEF WriteMb1, VerifyImages, ImageFails
    <3>2. QED
      BY <1>0, <3>1, StatusAfterGoto, StatusAfterReject
      DEF ExecuteLabels, StatusLabels, EndLabels
  <2>6. CASE UpdateBackup
    BY <1>0, <2>6, StatusAfterCall, StatusAfterReject DEF UpdateBackup
  <2>7. CASE CapsuleDone
    BY <2>7, StatusAfterRestart DEF CapsuleDone
  <2>8. QED
    BY <1>2, <2>1, <2>2, <2>3, <2>4, <2>5, <2>6, <2>7 DEF CapsuleStep
<1>3. CASE UpdateFwChain
  <2>1. CASE WriteSlot
    BY <1>0, <2>1 DEF WriteSlot, StatusMeans, FrameOK
  <2>2. CASE WriteSlotFails
    BY <1>0, <2>2, StatusAfterGoto DEF WriteSlotFails, ExecuteLabels, StatusLabels, EndLabels
  <2>3. CASE SlotsWritten
    <3>1. run.ret \in Returns
      BY <1>0, <2>3, SlotsChain DEF SlotsWritten
    <3>2. QED
      BY <1>0, <2>3, <3>1, StatusAfterGoto
      DEF SlotsWritten, Returns, ExecuteLabels, StatusLabels, EndLabels
  <2>4. QED
    BY <1>3, <2>1, <2>2, <2>3 DEF UpdateFwChain
<1>4. CASE PowerOn
  BY <1>4, StatusAfterEnter DEF PowerOn, StatusLabels, EndLabels
<1>5. CASE PowerLoss
  BY <1>5, StatusAfterRestart DEF PowerLoss
<1>6. CASE OsStep
  <2>1. run' = run \/ Restart
    BY <1>6 DEF OsStep, OsSetNext, OsClearStatus, OsSetStatus, OsLeaveCapsule, OsRestart
  <2>2. QED
    BY <2>1, StatusAfterRestart DEF StatusMeans
<1>7. QED
  BY <1>1, <1>2, <1>3, <1>4, <1>5, <1>6 DEF Next, Firmware

-----------------------------------------------------------------------------
LEMMA BooksKeep ==
    ASSUME IInv, HistoryOK, StatusMeans, Books, used.nvFaults = 0, Next, used'.nvFaults = 0
    PROVE  Books'
<1>0. FrameOK /\ BootOK /\ StoredOK /\ StepsOK /\ AskedOK
    BY DEF IInv, Typed, HistoryOK
<1>a. ~NvFault
    BY DEF NvFault, HistoryOK, UsedOK
<1> USE DEF At, Goto, Fail, Finish, Quiet, Books, InProgress, Closed, Switching, WritingSlots, ClosedLabels
<1>1. CASE BootChainStep
  <2>1. CASE ExecuteUpdate
    <3>1. CASE NoRequest
      BY <1>0, <2>1, <3>1, NoneAssumption DEF ExecuteUpdate, NoRequest, FrameOK, Other, Chain
    <3>2. CASE RequestUnreadable
      BY <1>0, <2>1, <3>2, NoneAssumption DEF ExecuteUpdate, RequestUnreadable, FrameOK, Other, Chain
    <3>3. CASE StatusUnreadable
      BY <1>0, <2>1, <3>3, NoneAssumption DEF ExecuteUpdate, StatusUnreadable, FrameOK, Other, Chain
    <3>4. CASE \E bootNext \in BOOLEAN : NewRequest(bootNext)
      <4>1. /\ run.at = "execute" /\ boot \in Chain /\ UNCHANGED <<nv, pending, boot, used>>
            /\ nv.status = None /\ nv.next \in {"A", "B", BadNext}
            /\ asked' = [from |-> boot, disturbed |-> FALSE, forged |-> FALSE]
            /\ \/ \E s : Fail(s)
               \/ Goto("save previous") /\ nv.next \notin {BadNext, boot}
        BY <1>0, <2>1, <3>4 DEF ExecuteUpdate, NewRequest, Pending, BootOK
      <4>2. asked'.from = boot
        BY <1>0, <4>1 DEF AskedOK
      <4>3. nv.status # IN_PROGRESS
        BY <4>1, StatusAssumption DEF Reported, OsStatus
      <4>4. CASE \E s : Fail(s)
        <5>1. run'.at = "set status"
          BY <1>0, <4>4 DEF FrameOK
        <5>2. QED
          BY <4>1, <4>3, <5>1
      <4>5. CASE Goto("save previous") /\ nv.next \notin {BadNext, boot}
        <5>1. run'.at = "save previous"
          BY <1>0, <4>5 DEF FrameOK
        <5>2. nv.next = Other(boot)
          BY <4>1, <4>5 DEF Other, Chain
        <5>3. QED
          BY <4>1, <4>2, <4>3, <5>1, <5>2
      <4>6. QED
        BY <4>1, <4>4, <4>5
    <3>5. CASE SwitchWorked
      BY <1>0, <2>1, <3>5 DEF ExecuteUpdate, SwitchWorked, Pending, FrameOK, Other, Chain
    <3>6. CASE SwitchFailed
      BY <1>0, <2>1, <3>6 DEF ExecuteUpdate, SwitchFailed, Pending, FrameOK, Other, Chain
    <3>7. CASE AlreadyDecided
      BY <1>0, <2>1, <3>7 DEF ExecuteUpdate, AlreadyDecided, Pending, FrameOK, Other, Chain
    <3>8. QED
      BY <2>1, <3>1, <3>2, <3>3, <3>4, <3>5, <3>6, <3>7 DEF ExecuteUpdate
  <2>2. CASE SavePrevious
    <3>1. /\ run.at = "save previous" /\ UNCHANGED <<pending, boot, asked>>
          /\ nv' = [nv EXCEPT !.previous = boot]
          /\ Goto("set in progress")
      BY <1>a, <2>2 DEF SavePrevious, Record, Put, Success
    <3>2. nv'.previous = boot /\ nv'.next = nv.next /\ nv'.status = nv.status
      BY <1>0, <3>1 DEF StoredOK
    <3>3. run'.at = "set in progress" /\ nv.next \in Chain
      BY <1>0, <3>1 DEF FrameOK, StepsOK
    <3>4. nv.status # IN_PROGRESS
      BY <3>1, StatusAssumption DEF Reported, OsStatus
    <3>5. QED
      BY <3>1, <3>2, <3>3, <3>4
  <2>3. CASE SetInProgress
    BY <1>0, <1>a, <2>3, ZenonT(60) DEF SetInProgress, Record, Put, FrameOK, StoredOK, Success, Other, Chain, StepsOK, BootOK
  <2>4. CASE CountReset
    BY <1>0, <1>a, <2>4 DEF CountReset, Record, Put, FrameOK, StoredOK, Success
  <2>5. CASE TooManyResets
    BY <1>0, <2>5 DEF TooManyResets, FrameOK, Success
  <2>6. CASE Switch
    BY <1>0, <2>6 DEF Switch, CallUpdateFwChain, FrameOK, Success, StatusMeans
  <2>7. CASE SwitchGivesUp
    BY <1>0, <2>7 DEF SwitchGivesUp, FrameOK, Success
  <2>8. CASE ResetToChain
    BY <1>0, <2>8 DEF ResetToChain, Restart, Idle, FrameOK, Success
  <2>9. CASE ReportSuccess
    BY <1>0, <1>a, <2>9, StatusAssumption DEF ReportSuccess, Put, SUCCESS, IN_PROGRESS, Reported, OsStatus, FrameOK, StoredOK, Success
  <2>10. CASE SetStatus
    <3>1. /\ run.at = "set status" /\ UNCHANGED <<pending, boot, asked>>
          /\ nv' = [nv EXCEPT !.status = run.status]
          /\ run' = [run EXCEPT !.at = "finish"]
      BY <1>a, <2>10 DEF SetStatus, Put, Success, Goto
    <3>2. run.status \in Reported \ {IN_PROGRESS}
      BY <3>1 DEF StatusMeans
    <3>3. nv'.status \notin {None, IN_PROGRESS}
      BY <1>0, <3>1, <3>2, StatusAssumption DEF StoredOK
    <3>4. nv'.next = nv.next /\ nv'.previous = nv.previous /\ run'.at = "finish"
      BY <1>0, <3>1 DEF StoredOK, FrameOK
    <3>5. QED
      BY <3>1, <3>3, <3>4
  <2>11. CASE FinishUpdate
    BY <1>0, <2>11 DEF FinishUpdate, FrameOK, Success
  <2>12. CASE DeletePrevious
    BY <1>0, <1>a, <2>12 DEF DeletePrevious, Erase, Delete, Put, FrameOK, StoredOK, Success
  <2>13. CASE DeleteNext
    BY <1>0, <1>a, <2>13 DEF DeleteNext, Erase, Delete, Put, FrameOK, StoredOK, Success
  <2>14. CASE DeleteResetCount
    BY <1>0, <1>a, <2>14 DEF DeleteResetCount, Erase, Delete, Put, FrameOK, StoredOK, Success
  <2>15. CASE Restore
    BY <1>0, <2>15, StatusAssumption, ZenonT(60) DEF AfterUpdate, Restore, CallUpdateFwChain, StatusMeans, EndLabels, FrameOK, Success
  <2>16. CASE RestoreGivesUp
    BY <1>0, <2>16 DEF AfterUpdate, RestoreGivesUp, FrameOK, Success
  <2>17. CASE BootOs
    BY <1>0, <2>17 DEF BootOs, CallUpdateFwChain, FrameOK, Success
  <2>18. CASE ClearFlag
    BY <1>0, <2>18 DEF ClearFlag, FrameOK, Success
  <2>19. CASE ReadyToBoot
    BY <1>0, <2>19 DEF ReadyToBoot, Enter, Idle, FrameOK, Success
  <2>20. QED
    BY <1>1, <2>1, <2>2, <2>3, <2>4, <2>5, <2>6, <2>7, <2>8, <2>9, <2>10, <2>11, <2>12,
       <2>13, <2>14, <2>15, <2>16, <2>17, <2>18, <2>19 DEF BootChainStep
<1>2. CASE CapsuleStep
  <2>r. ASSUME Rejected, Closed, run.at \notin {"off", "uefi", "os"},
               nv'.status = nv.status \/ nv'.status # IN_PROGRESS,
               nv'.previous = nv.previous, pending' = pending, asked'.forged = asked.forged
        PROVE  Books'
    <3>1. pending' = None
      BY <2>r
    <3>2. ~InProgress' /\ nv'.previous = None
      BY <2>r
    <3>3. run'.at \in {"off", "execute"}
      BY <1>0, <2>r, RejectedMoves
    <3>4. QED
      BY <3>1, <3>2, <3>3
  <2>1. CASE HandleCapsules
    BY <1>0, <2>1 DEF HandleCapsules, Enter, Idle, FrameOK, Success
  <2>2. CASE CheckImage
    BY <1>0, <2>2 DEF CheckImage, FrameOK, Success
  <2>3. CASE CancelNext
    BY <1>0, <1>a, <2>3 DEF CancelNext, Delete, Put, FrameOK, StoredOK, Success
  <2>4. CASE CancelStatus
    <3>1. Rejected /\ run.at = "cancel status" /\ pending' = pending
          /\ nv' = [nv EXCEPT !.status = "ERROR_CANCELED_FOR_FMP_CONFLICT"]
          /\ asked' = asked
      BY <1>a, <2>4 DEF CancelStatus, Put, Success
    <3>2. nv'.next = nv.next /\ nv'.status # IN_PROGRESS /\ nv'.previous = nv.previous
      BY <1>0, <3>1 DEF StoredOK, IN_PROGRESS
    <3>3. QED
      BY <2>r, <3>1, <3>2
  <2>5. CASE SetImage
    BY <1>0, <2>5 DEF SetImage, FrameOK, Success
  <2>6. CASE InvalidateMb1 \/ WriteRegular \/ WriteMb1 \/ VerifyImages
    <3>1. /\ nv' = nv /\ pending' = pending /\ boot' \in {boot, None}
          /\ asked' = asked \/ asked' = [asked EXCEPT !.disturbed = TRUE]
          /\ run.at \in {"invalidate mb1", "write", "write mb1", "verify"}
      BY <2>6 DEF InvalidateMb1, WriteRegular, WriteMb1, VerifyImages, ImageFails, Fault, Disturbed,
         Success, Rejected, Restart
    <3>2. asked'.from = asked.from /\ asked'.forged = asked.forged
      BY <1>0, <3>1 DEF AskedOK
    <3>3. CASE Rejected
      BY <2>r, <3>1, <3>2, <3>3
    <3>4. CASE run'.at \in {"write", "write mb1", "verify", "backup"}
      BY <3>1, <3>2, <3>4
    <3>5. Rejected \/ run'.at \in {"write", "write mb1", "verify", "backup"}
      BY <1>0, <2>6 DEF InvalidateMb1, WriteRegular, WriteMb1, VerifyImages, ImageFails, FrameOK
    <3>6. QED
      BY <3>3, <3>4, <3>5
  <2>7. CASE UpdateBackup
    <3>1. /\ nv' = nv /\ pending' = pending /\ run.at = "backup"
          /\ asked' = asked \/ asked' = [asked EXCEPT !.disturbed = TRUE]
      BY <2>7 DEF UpdateBackup, Fault, Disturbed, Success
    <3>2. asked'.from = asked.from /\ asked'.forged = asked.forged
      BY <1>0, <3>1 DEF AskedOK
    <3>3. CASE Rejected
      BY <2>r, <3>1, <3>2, <3>3
    <3>4. CASE CallUpdateFwChain(Other(boot), "capsule done")
      <4>1. run'.at = "slots" /\ run'.ret = "capsule done"
        BY <1>0, <3>4 DEF CallUpdateFwChain, FrameOK
      <4>2. QED
        BY <3>1, <3>2, <4>1
    <3>5. QED
      BY <2>7, <3>3, <3>4 DEF UpdateBackup
  <2>8. CASE CapsuleGivesUp
    BY <2>r, <2>8 DEF CapsuleGivesUp, Success
  <2>9. CASE CapsuleDone
    BY <2>9 DEF CapsuleDone, Restart, Idle, Success
  <2>10. QED
    BY <1>2, <2>1, <2>2, <2>3, <2>4, <2>5, <2>6, <2>7, <2>8, <2>9 DEF CapsuleStep
<1>3. CASE UpdateFwChain
  <2>1. CASE WriteSlot
    BY <1>0, <2>1 DEF WriteSlot, FrameOK
  <2>2. CASE WriteSlotFails
    <3>1. asked'.from = asked.from /\ asked'.forged = asked.forged
      BY <1>0, <2>2 DEF WriteSlotFails, Fault, Disturbed, AskedOK
    <3>2. QED
      BY <1>0, <2>2, <3>1 DEF WriteSlotFails, FrameOK
  <2>3. CASE SlotsWritten
    <3>1. run.ret \in Returns
      BY <1>0, <2>3, SlotsChain DEF SlotsWritten
    <3>2. QED
      BY <1>0, <2>3, <3>1 DEF SlotsWritten, Returns, FrameOK, Success
  <2>4. QED
    BY <1>3, <2>1, <2>2, <2>3 DEF UpdateFwChain
<1>4. CASE PowerOn
  BY <1>0, <1>4 DEF PowerOn, Enter, Idle
<1>5. CASE PowerLoss
  <2>1. asked'.from = asked.from /\ asked'.forged = asked.forged
    BY <1>0, <1>5 DEF PowerLoss, Disturbed, AskedOK
  <2>2. /\ run'.at = "off" /\ nv' = nv /\ pending' = pending
    BY <1>5 DEF PowerLoss, Restart, Idle
  <2>3. QED
    BY <2>1, <2>2
<1>6. CASE OsStep
  <2>1. run.at = "os" /\ Closed
    BY <1>6 DEF OsStep, OsSetNext, OsClearStatus, OsSetStatus, OsLeaveCapsule, OsRestart
  <2>2. run'.at \in {"os", "off"}
    BY <1>6, <2>1 DEF OsStep, OsSetNext, OsClearStatus, OsSetStatus, OsLeaveCapsule, OsRestart,
       Restart, Idle
  <2>3. \/ asked' = asked /\ nv' = nv
        \/ asked' = asked /\ \E next : nv' = [nv EXCEPT !.next = next]
        \/ asked' = asked /\ nv' = [nv EXCEPT !.status = None]
        \/ \E status : /\ nv' = [nv EXCEPT !.status = status]
                        /\ asked' = [asked EXCEPT !.forged = @ \/ status = IN_PROGRESS]
    BY <1>6 DEF OsStep, OsSetNext, OsClearStatus, OsSetStatus, OsLeaveCapsule, OsRestart,
       Put, Delete, Success
  <2>4. None # IN_PROGRESS
    BY StatusAssumption DEF Reported, OsStatus
  <2>5. ~InProgress' /\ nv'.previous = None
    <3>1. nv.previous = None /\ (nv.status = IN_PROGRESS => asked.forged)
      BY <2>1
    <3>2. CASE /\ asked' = asked
                /\ \/ nv' = nv
                   \/ \E next : nv' = [nv EXCEPT !.next = next]
                   \/ nv' = [nv EXCEPT !.status = None]
      <4>1. nv'.previous = nv.previous /\ nv'.status \in {nv.status, None}
        BY <1>0, <3>2 DEF StoredOK
      <4>2. QED
        BY <2>4, <3>1, <3>2, <4>1
    <3>3. CASE \E status : /\ nv' = [nv EXCEPT !.status = status]
                          /\ asked' = [asked EXCEPT !.forged = @ \/ status = IN_PROGRESS]
      <4>1. PICK status : /\ nv' = [nv EXCEPT !.status = status]
                          /\ asked' = [asked EXCEPT !.forged = @ \/ status = IN_PROGRESS]
        BY <3>3
      <4>2. nv'.status = status /\ nv'.previous = nv.previous
        BY <1>0, <4>1 DEF StoredOK
      <4>3. status = IN_PROGRESS => asked'.forged
        BY <1>0, <4>1 DEF AskedOK
      <4>4. QED
        BY <3>1, <4>2, <4>3
    <3>4. QED
      BY <2>3, <3>2, <3>3
  <2>6. QED
    BY <2>1, <2>2, <2>5
<1>7. QED
  BY <1>1, <1>2, <1>3, <1>4, <1>5, <1>6 DEF Next, Firmware

-----------------------------------------------------------------------------
(* The slot UpdateFwChain works on is one of the platform.                  *)
SlotInRange ==
    /\ run.at = "slots" => run.slot \in -1..(platform.slots - 1)
    /\ run.at = "slots failed" => used.faults > 0

(* On a marker platform a slot holds the BCT of its own chain.              *)
MarkedSlots ==
    platform.marker =>
      \A s \in SlotNumbers : slots[s] \in {None, IF s % 2 = 0 THEN "A" ELSE "B"}

(* The slots above the one being written hold what UpdateFwChain puts there.*)
WrittenSlots ==
    run.at = "slots" =>
      \A s \in SlotNumbers :
        s > run.slot /\ SlotShouldBeUpdated(s, run.chain) => slots[s] = SlotData(s, run.chain)

(* No slot write has failed: the chain the register names is the one of the *)
(* first valid slot, if any slot names it.                                  *)
FirstIs(c) == \E s \in FirstValid : slots[s] = c
OneChoice ==
    used.faults = 0 /\ run.at # "slots" =>
      \A c \in Chain : c = reg.next /\ (\E s \in SlotNumbers : slots[s] = c) => FirstIs(c)

(* What every step leaves alone.                                            *)
LEMMA Effects ==
    ASSUME IInv, Next
    PROVE  /\ platform' = platform
           /\ slots' = slots \/ WriteSlot \/ WriteSlotFails \/ PowerLoss
           /\ reg'.next = reg.next \/ SlotsWritten \/ PowerLoss
           /\ image' = image \/ run.at \in {"invalidate mb1", "write", "write mb1"}
           /\ boot' = boot \/ boot' = None \/ PowerOn
<1>0. StoredOK
    BY DEF IInv, Typed
<1>1. /\ reg.next = ValidateActiveBootChain(reg).next
      /\ reg' = ValidateActiveBootChain(reg) => reg'.next = reg.next
      /\ SetInactiveBootChainStatus(TRUE) => reg'.next = reg.next
      /\ SetInactiveBootChainStatus(FALSE) => reg'.next = reg.next
      /\ ClearUpdateBrBctFlag => reg'.next = reg.next
    BY <1>0 DEF StoredOK, ValidateActiveBootChain, SetInactiveBootChainStatus, ClearUpdateBrBctFlag
<1> USE DEF At, fixed, flash
<1>2. CASE BootChainStep
  <2>1. platform' = platform /\ slots' = slots /\ image' = image /\ boot' \in {boot, None}
    BY <1>2 DEF BootChainStep, ExecuteUpdate, SavePrevious, SetInProgress, CountReset,
       TooManyResets, Switch, SwitchGivesUp, ResetToChain, ReportSuccess, SetStatus,
       FinishUpdate, DeletePrevious, DeleteNext, DeleteResetCount, Restore, RestoreGivesUp,
       BootOs, ClearFlag, ReadyToBoot, Record, Erase, Quiet, Restart
  <2>2. reg' = reg \/ reg' = ValidateActiveBootChain(reg) \/ ClearUpdateBrBctFlag
    BY <1>2 DEF BootChainStep, ExecuteUpdate, SavePrevious, SetInProgress, CountReset,
       TooManyResets, Switch, SwitchGivesUp, ResetToChain, ReportSuccess, SetStatus,
       FinishUpdate, DeletePrevious, DeleteNext, DeleteResetCount, Restore, RestoreGivesUp,
       BootOs, ClearFlag, ReadyToBoot, Record, Erase
  <2>3. QED
    BY <1>1, <2>1, <2>2
<1>3. CASE CapsuleStep
  <2>1. platform' = platform /\ slots' = slots /\ boot' \in {boot, None}
    BY <1>3 DEF CapsuleStep, HandleCapsules, CheckImage, CancelNext, CancelStatus, SetImage,
       InvalidateMb1, WriteRegular, WriteMb1, VerifyImages, UpdateBackup, CapsuleGivesUp,
       CapsuleDone, ImageFails, Rejected, Restart
  <2>2. image' = image \/ run.at \in {"invalidate mb1", "write", "write mb1"}
    BY <1>3 DEF CapsuleStep, HandleCapsules, CheckImage, CancelNext, CancelStatus, SetImage,
       InvalidateMb1, WriteRegular, WriteMb1, VerifyImages, UpdateBackup, CapsuleGivesUp,
       CapsuleDone
  <2>3. \/ reg' = reg \/ reg' = ValidateActiveBootChain(reg)
        \/ SetInactiveBootChainStatus(TRUE) \/ SetInactiveBootChainStatus(FALSE)
    BY <1>3 DEF CapsuleStep, HandleCapsules, CheckImage, CancelNext, CancelStatus, SetImage,
       InvalidateMb1, WriteRegular, WriteMb1, VerifyImages, UpdateBackup, CapsuleGivesUp,
       CapsuleDone
  <2>4. QED
    BY <1>1, <2>1, <2>2, <2>3
<1>4. CASE UpdateFwChain
    BY <1>4 DEF UpdateFwChain, WriteSlot, WriteSlotFails, SlotsWritten
<1>5. CASE OsStep
    BY <1>5 DEF OsStep, OsSetNext, OsClearStatus, OsSetStatus, OsLeaveCapsule, OsRestart,
       Restart
<1>6. CASE PowerOn
  <2>1. \/ reg' \in {reg, [reg EXCEPT !.lastFailed = FALSE]}
        \/ \E c \in RomChoice : reg' = [reg EXCEPT !.failed = @ \cup {c}, !.lastFailed = TRUE]
    BY <1>6 DEF PowerOn
  <2>2. reg'.next = reg.next
    BY <1>0, <2>1 DEF StoredOK
  <2>3. QED
    BY <1>6, <2>2 DEF PowerOn
<1>7. CASE PowerLoss
  <2>1. platform' = platform /\ boot' = None
    BY <1>7 DEF PowerLoss, Restart
  <2>2. image' = image \/ run.at \in {"invalidate mb1", "write", "write mb1"}
    BY <1>7 DEF PowerLoss
  <2>3. QED
    BY <1>7, <2>1, <2>2
<1>8. QED
    BY <1>2, <1>3, <1>4, <1>5, <1>6, <1>7 DEF Next, Firmware

(* The way into the slots and into their failure.                           *)
LEMMA IntoSlots ==
    ASSUME IInv, Next, run'.at \in {"slots", "slots failed"}
    PROVE  \/ run'.at = "slots" /\ run'.slot = platform.slots - 1
           \/ run'.at = "slots" /\ WriteSlot
           \/ run'.at = "slots failed" /\ WriteSlotFails
<1>0. FrameOK /\ StepsOK
    BY DEF IInv, Typed
<1> DEFINE OnCall == run'.at = "slots" /\ run'.slot = platform.slots - 1
           Away == run'.at \notin {"slots", "slots failed"}
<1>c. ASSUME NEW c, NEW r, CallUpdateFwChain(c, r) PROVE OnCall
    BY <1>0, <1>c DEF CallUpdateFwChain, FrameOK
<1>e. ASSUME NEW l, Enter(l), l \notin {"slots", "slots failed"} PROVE Away
    BY <1>e DEF Enter, Idle
<1>r. ASSUME Restart PROVE Away
    BY <1>r DEF Restart, Idle
<1>j. ASSUME Rejected PROVE Away
    BY <1>e, <1>r, <1>j DEF Rejected
<1> HIDE DEF OnCall, Away
<1>1. CASE BootChainStep
  <2>1. CASE ExecuteUpdate
    <3>1. Away
      BY <1>0, <2>1 DEF ExecuteUpdate, NoRequest, RequestUnreadable, StatusUnreadable,
         NewRequest, SwitchWorked, SwitchFailed, AlreadyDecided, Goto, Fail, Finish, FrameOK, Away
    <3>2. QED
      BY <3>1 DEF Away
  <2>2. CASE SavePrevious \/ SetInProgress \/ CountReset \/ TooManyResets \/ SwitchGivesUp
    <3>1. Away
      BY <1>0, <2>2 DEF SavePrevious, SetInProgress, CountReset, TooManyResets, SwitchGivesUp,
         Record, Goto, Fail, FrameOK, Away
    <3>2. QED
      BY <3>1 DEF Away
  <2>3. CASE Switch \/ Restore \/ BootOs
    <3>1. OnCall \/ Goto("boot os") \/ Goto("ready to boot")
      BY <1>c, <2>3, AfterUpdateMoves DEF Switch, Restore, BootOs
    <3>2. QED
      BY <1>0, <3>1 DEF OnCall, Goto, FrameOK
  <2>4. CASE ResetToChain \/ ReadyToBoot
    BY <1>r, <1>e, <2>4 DEF ResetToChain, ReadyToBoot, Away
  <2>5. CASE \/ ReportSuccess \/ SetStatus \/ FinishUpdate \/ DeletePrevious \/ DeleteNext
             \/ DeleteResetCount \/ RestoreGivesUp \/ ClearFlag
    <3>1. Away
      BY <1>0, <2>5 DEF ReportSuccess, SetStatus, FinishUpdate, DeletePrevious, DeleteNext,
         DeleteResetCount, RestoreGivesUp, AfterUpdate, ClearFlag, Erase, Goto, Finish, FrameOK,
         Away
    <3>2. QED
      BY <3>1 DEF Away
  <2>6. QED
    BY <1>1, <2>1, <2>2, <2>3, <2>4, <2>5 DEF BootChainStep
<1>2. CASE CapsuleStep
  <2>1. CASE \/ HandleCapsules \/ CheckImage \/ CancelNext \/ SetImage
    <3>1. Away
      BY <1>0, <1>e, <2>1 DEF HandleCapsules, CheckImage, CancelNext, SetImage, Goto, FrameOK, Away
    <3>2. QED
      BY <3>1 DEF Away
  <2>2. CASE InvalidateMb1 \/ WriteRegular \/ WriteMb1 \/ VerifyImages
    <3>1. Away
      BY <1>0, <1>j, <2>2 DEF InvalidateMb1, WriteRegular, WriteMb1, VerifyImages, ImageFails,
         Goto, FrameOK, Away
    <3>2. QED
      BY <3>1 DEF Away
  <2>3. CASE CancelStatus \/ CapsuleGivesUp \/ CapsuleDone
    BY <1>j, <1>r, <2>3 DEF CancelStatus, CapsuleGivesUp, CapsuleDone, Away
  <2>4. CASE UpdateBackup
    BY <1>j, <1>c, <2>4 DEF UpdateBackup, Away, OnCall
  <2>5. QED
    BY <1>2, <2>1, <2>2, <2>3, <2>4 DEF CapsuleStep
<1>3. CASE UpdateFwChain
  <2>1. CASE WriteSlot
    BY <1>0, <2>1 DEF WriteSlot, At, FrameOK
  <2>2. CASE WriteSlotFails
    BY <1>0, <2>2 DEF WriteSlotFails, Goto, FrameOK
  <2>3. CASE SlotsWritten
    <3>1. run.ret \in Returns /\ Goto(run.ret)
      BY <1>0, <2>3, SlotsChain DEF SlotsWritten, At
    <3>2. QED
      BY <1>0, <3>1 DEF Goto, Returns, FrameOK
  <2>4. QED
    BY <1>3, <2>1, <2>2, <2>3 DEF UpdateFwChain
<1>4. CASE PowerOn \/ PowerLoss
    BY <1>e, <1>r, <1>4 DEF PowerOn, PowerLoss, Away
<1>5. CASE OsStep
    BY <1>r, <1>5 DEF OsStep, OsSetNext, OsClearStatus, OsSetStatus, OsLeaveCapsule, OsRestart,
       Away, At
<1>6. QED
    BY <1>1, <1>2, <1>3, <1>4, <1>5 DEF Next, Firmware

(* What UpdateFwChain does to a slot, highest first.                        *)
LEMMA Highest ==
    ASSUME IInv, SlotInRange, run.at = "slots", NEW s \in HighestLeft
    PROVE  /\ s \in SlotNumbers /\ s <= run.slot /\ SlotShouldBeUpdated(s, run.chain)
           /\ \A t \in SlotNumbers :
                 t > s /\ SlotShouldBeUpdated(t, run.chain) => t > run.slot
           /\ run.chain \in Chain /\ platform.slots \in Nat \ {0}
<1>1. platform.slots \in Nat \ {0} /\ run.chain \in Chain
    BY PlatformAssumption, SlotsChain DEF IInv, Typed, StoredOK
<1>2. s \in SlotNumbers /\ s <= run.slot /\ SlotShouldBeUpdated(s, run.chain)
    BY <1>1 DEF HighestLeft, SlotsLeft, SlotInRange, SlotNumbers
<1>3. ASSUME NEW t \in SlotNumbers, t > s, SlotShouldBeUpdated(t, run.chain)
      PROVE  t > run.slot
  <2>1. CASE t \in SlotsLeft
    BY <1>1, <1>2, <1>3, <2>1 DEF HighestLeft, SlotNumbers, SlotInRange
  <2>2. CASE t \notin SlotsLeft
    BY <1>1, <1>2, <1>3, <2>2 DEF SlotsLeft, SlotNumbers, SlotInRange
  <2>3. QED
    BY <2>1, <2>2
<1>4. QED
    BY <1>1, <1>2, <1>3

LEMMA RangeKeeps ==
    ASSUME IInv, HistoryOK, SlotInRange, Next, Grows, HistoryOK'
    PROVE  SlotInRange'
<1>1. platform' = platform /\ platform.slots \in Nat \ {0}
    BY Effects, PlatformAssumption DEF IInv, Typed, StoredOK
<1>2. ASSUME run'.at = "slots" PROVE run'.slot \in -1..(platform.slots - 1)
  <2>1. CASE run'.slot = platform.slots - 1
    BY <1>1, <2>1
  <2>2. CASE WriteSlot
    <3>1. PICK s \in HighestLeft : run' = [run EXCEPT !.slot = s - 1]
      BY <2>2 DEF WriteSlot
    <3>2. s \in SlotNumbers
      BY <2>2, <3>1, Highest DEF WriteSlot, At
    <3>3. run'.slot = s - 1
      BY <3>1 DEF IInv, Typed, FrameOK
    <3>4. QED
      BY <1>1, <3>2, <3>3 DEF SlotNumbers
  <2>3. QED
    BY <1>2, <2>1, <2>2, IntoSlots
<1>3. ASSUME run'.at = "slots failed" PROVE used'.faults > 0
  <2>1. WriteSlotFails
    BY <1>3, IntoSlots
  <2>2. used' = [used EXCEPT !.faults = @ + 1]
    BY <2>1 DEF WriteSlotFails, Fault
  <2>3. QED
    BY <2>2 DEF HistoryOK, UsedOK
<1>4. QED
    BY <1>1, <1>2, <1>3 DEF SlotInRange

LEMMA MarkedKeeps ==
    ASSUME IInv, SlotInRange, MarkedSlots, Next
    PROVE  MarkedSlots'
<1>1. platform' = platform /\ SlotNumbers' = SlotNumbers
    BY Effects DEF SlotNumbers
<1>2. CASE slots' = slots
    BY <1>1, <1>2 DEF MarkedSlots
<1>3. ASSUME NEW s \in HighestLeft, slots' \in {slots, [slots EXCEPT ![s] = None]}
      PROVE  MarkedSlots'
    BY <1>1, <1>3 DEF MarkedSlots, IInv, Typed, StoredOK
<1>4. CASE WriteSlot
  <2>1. PICK s \in HighestLeft : slots' = [slots EXCEPT ![s] = SlotData(s, run.chain)]
    BY <1>4 DEF WriteSlot
  <2>2. /\ s \in SlotNumbers /\ SlotShouldBeUpdated(s, run.chain) /\ run.chain \in Chain
        /\ platform.slots \in Nat
    BY <1>4, <2>1, Highest DEF WriteSlot, At
  <2>3. platform.marker => SlotData(s, run.chain) \in {None, IF s % 2 = 0 THEN "A" ELSE "B"}
    BY <2>2 DEF SlotData, SlotShouldBeUpdated, SlotShouldBeInvalidated, Chain, SlotNumbers
  <2>4. QED
    BY <1>1, <2>1, <2>2, <2>3 DEF MarkedSlots, IInv, Typed, StoredOK
<1>5. CASE WriteSlotFails
  <2>1. PICK s \in HighestLeft : slots' \in {slots, [slots EXCEPT ![s] = None]}
    BY <1>5 DEF WriteSlotFails
  <2>2. QED
    BY <1>3, <2>1
<1>6. CASE PowerLoss
  <2>1. slots' = slots \/ \E s \in HighestLeft : slots' = [slots EXCEPT ![s] = None]
    BY <1>6 DEF PowerLoss
  <2>2. QED
    BY <1>2, <1>3, <2>1
<1>7. QED
    BY <1>2, <1>4, <1>5, <1>6, Effects

LEMMA WrittenKeeps ==
    ASSUME IInv, SlotInRange, WrittenSlots, Next
    PROVE  WrittenSlots'
<1>1. platform' = platform /\ SlotNumbers' = SlotNumbers /\ platform.slots \in Nat
    BY Effects, PlatformAssumption DEF SlotNumbers, IInv, Typed, StoredOK
<1>2. SUFFICES ASSUME run'.at = "slots"
               PROVE  WrittenSlots'
    BY DEF WrittenSlots
<1>3. CASE run'.slot = platform.slots - 1
    BY <1>1, <1>3 DEF WrittenSlots, SlotNumbers
<1>4. CASE WriteSlot
  <2>1. PICK s \in HighestLeft : /\ slots' = [slots EXCEPT ![s] = SlotData(s, run.chain)]
                                 /\ run' = [run EXCEPT !.slot = s - 1]
    BY <1>4 DEF WriteSlot
  <2>2. run.at = "slots" /\ backup' = backup
    BY <1>4 DEF WriteSlot, At
  <2>3. /\ s \in SlotNumbers /\ s <= run.slot
        /\ \A t \in SlotNumbers : t > s /\ SlotShouldBeUpdated(t, run.chain) => t > run.slot
    BY <2>2, Highest
  <2>4. run'.slot = s - 1 /\ run'.chain = run.chain
    BY <2>1 DEF IInv, Typed, FrameOK
  <2>5. ASSUME NEW t \in SlotNumbers, t > s - 1, SlotShouldBeUpdated(t, run.chain)
        PROVE  slots'[t] = SlotData(t, run.chain)
    <3>1. t \in Int /\ s \in Int
      BY <1>1, <2>3 DEF SlotNumbers
    <3>2. CASE t = s
      BY <2>1, <2>3, <3>2 DEF IInv, Typed, StoredOK
    <3>3. CASE t > s
      BY <2>1, <2>2, <2>3, <2>5, <3>3 DEF IInv, Typed, StoredOK, WrittenSlots
    <3>4. QED
      BY <2>5, <3>1, <3>2, <3>3
  <2>6. \A t : SlotShouldBeUpdated(t, run.chain)' = SlotShouldBeUpdated(t, run.chain)
    BY <1>1, <2>4 DEF SlotShouldBeUpdated, SlotShouldBeInvalidated
  <2>7. \A t : SlotData(t, run.chain)' = SlotData(t, run.chain)
    BY <1>1, <2>2, <2>4 DEF SlotData, SlotShouldBeInvalidated
  <2>8. QED
    BY <1>1, <2>4, <2>5, <2>6, <2>7 DEF WrittenSlots
<1>5. QED
    BY <1>2, <1>3, <1>4, IntoSlots

(* At the end of UpdateFwChain the first valid slot, if any, holds the      *)
(* chain asked for.                                                         *)
LEMMA EndIsFirst ==
    ASSUME IInv, SlotInRange, MarkedSlots, WrittenSlots, SlotsWritten,
           NEW s \in SlotNumbers, slots[s] = run.chain
    PROVE  FirstIs(run.chain)
<1>1. /\ run.at = "slots" /\ run.chain \in Chain /\ platform.slots \in Nat \ {0}
      /\ platform.marker \in BOOLEAN /\ run.chain # None
    BY SlotsChain, PlatformAssumption, NoneAssumption
    DEF SlotsWritten, At, IInv, Typed, StoredOK, StepsOK
<1>2. \A t \in SlotNumbers : SlotShouldBeUpdated(t, run.chain) => slots[t] = SlotData(t, run.chain)
    BY <1>1 DEF SlotsWritten, SlotsLeft, SlotNumbers, SlotInRange, WrittenSlots
<1>3. CASE ~platform.marker
  <2>1. backup[run.chain]
    BY <1>1, <1>2, <1>3 DEF SlotShouldBeUpdated, SlotData
  <2>2. 0 \in SlotNumbers /\ slots[0] = run.chain
    BY <1>1, <1>2, <1>3, <2>1 DEF SlotShouldBeUpdated, SlotData, SlotNumbers,
       SlotShouldBeInvalidated
  <2>3. 0 \in FirstValid
    BY <1>1, <2>2 DEF FirstValid
  <2>4. QED
    BY <2>2, <2>3 DEF FirstIs
<1>4. CASE platform.marker /\ run.chain = "A"
  <2>1. s % 2 = 0
    BY <1>1, <1>4 DEF MarkedSlots
  <2>2. backup["A"]
    BY <1>1, <1>2, <1>4, <2>1 DEF SlotShouldBeUpdated, SlotData
  <2>3. 0 \in SlotNumbers /\ slots[0] = run.chain
    BY <1>1, <1>2, <1>4, <2>2 DEF SlotShouldBeUpdated, SlotData, SlotNumbers,
       SlotShouldBeInvalidated
  <2>4. 0 \in FirstValid
    BY <1>1, <2>3 DEF FirstValid
  <2>5. QED
    BY <2>3, <2>4 DEF FirstIs
<1>5. CASE platform.marker /\ run.chain = "B"
  <2>1. s % 2 # 0
    BY <1>1, <1>5 DEF MarkedSlots
  <2>2. s % 2 = 1 /\ s >= 1
    BY <1>1, <2>1 DEF SlotNumbers
  <2>3. backup["B"]
    BY <1>1, <1>2, <1>5, <2>2 DEF SlotShouldBeUpdated, SlotData
  <2>4. 1 \in SlotNumbers /\ 0 \in SlotNumbers
    BY <1>1, <2>2 DEF SlotNumbers
  <2>5. slots[1] = run.chain
    BY <1>1, <1>2, <1>5, <2>3, <2>4 DEF SlotShouldBeUpdated, SlotData, SlotShouldBeInvalidated
  <2>6. slots[0] = None
    BY <1>2, <1>5, <2>4 DEF SlotShouldBeUpdated, SlotData, SlotShouldBeInvalidated
  <2>7. 1 \in FirstValid
    <3>1. 0..(1 - 1) = {0}
      OBVIOUS
    <3>2. QED
      BY <1>1, <2>4, <2>5, <2>6, <3>1 DEF FirstValid
  <2>8. QED
    BY <2>5, <2>7 DEF FirstIs
<1>6. QED
    BY <1>1, <1>3, <1>4, <1>5 DEF Chain

LEMMA OneChoiceKeeps ==
    ASSUME IInv, HistoryOK, Grows, SlotInRange, MarkedSlots, WrittenSlots, OneChoice, Next
    PROVE  OneChoice'
<1>1. /\ platform' = platform /\ SlotNumbers' = SlotNumbers
      /\ slots' = slots => FirstValid' = FirstValid
    BY Effects DEF SlotNumbers, FirstValid
<1>2. SUFFICES ASSUME used'.faults = 0, run'.at # "slots",
                      NEW c \in Chain, c = reg'.next, NEW s \in SlotNumbers, slots'[s] = c
               PROVE  FirstIs(c)'
    BY <1>1 DEF OneChoice
<1>3. used.faults = 0
    BY <1>2 DEF Grows, HistoryOK, UsedOK
<1>4. ~PowerLoss
  <2>1. PowerLoss => reg' = RegAfterPowerLoss
    BY DEF PowerLoss
  <2>2. QED
    BY <1>2, <2>1, NoneAssumption DEF Chain, RegAfterPowerLoss
<1>5. ~WriteSlotFails
  <2>1. WriteSlotFails => used'.faults = used.faults + 1
    BY DEF WriteSlotFails, Fault, HistoryOK, UsedOK
  <2>2. QED
    BY <1>2, <1>3, <2>1
<1>6. ~WriteSlot
    BY <1>2 DEF WriteSlot, At, IInv, Typed, FrameOK
<1>7. slots' = slots
    BY <1>4, <1>5, <1>6, Effects
<1>8. CASE SlotsWritten
  <2>1. reg'.next = run.chain
    BY <1>8 DEF SlotsWritten, SetNextBootChain, IInv, Typed, StoredOK
  <2>2. FirstIs(c)
    BY <1>2, <1>7, <1>8, <2>1, EndIsFirst
  <2>3. QED
    BY <1>1, <1>7, <2>2 DEF FirstIs
<1>9. CASE ~SlotsWritten
  <2>1. reg'.next = reg.next
    BY <1>4, <1>9, Effects
  <2>2. run.at # "slots"
    <3>1. CASE run.at = "slots"
      <4>1. UpdateFwChain \/ PowerLoss
        BY <3>1 DEF Next, Firmware, PowerOn, CapsuleStep, HandleCapsules, CheckImage, CancelNext,
           CancelStatus, SetImage, InvalidateMb1, WriteRegular, WriteMb1, VerifyImages,
           UpdateBackup, CapsuleGivesUp, CapsuleDone, BootChainStep, ExecuteUpdate, SavePrevious,
           SetInProgress, CountReset, TooManyResets, Switch, SwitchGivesUp, ResetToChain,
           ReportSuccess, SetStatus, FinishUpdate, DeletePrevious, DeleteNext, DeleteResetCount,
           Restore, RestoreGivesUp, BootOs, ClearFlag, ReadyToBoot, Record, Erase, OsStep,
           OsSetNext, OsClearStatus, OsSetStatus, OsLeaveCapsule, OsRestart, At
      <4>2. QED
        BY <1>4, <1>5, <1>6, <1>9, <4>1 DEF UpdateFwChain
    <3>2. QED
      BY <3>1
  <2>3. FirstIs(c)
    BY <1>2, <1>3, <1>7, <2>1, <2>2 DEF OneChoice
  <2>4. QED
    BY <1>1, <1>7, <2>3 DEF FirstIs
<1>10. QED
    BY <1>8, <1>9

-----------------------------------------------------------------------------
(* The chain that starts when the boot ROM takes chain c.                   *)
Outcome(c) == IF Startable(c) THEN c ELSE Other(c)
RomSays(b) == \A c \in RomChoice : Outcome(c) = b

Before == {"uefi", "check image", "cancel next", "cancel status", "execute",
           "save previous", "set in progress"}

(* No slot write has failed: until an update or a capsule writes, a reset   *)
(* comes up on the chain that runs.                                         *)
SameOutcome == used.faults = 0 /\ run.at \in Before => RomSays(boot)

(* No write has failed: the way back that is recorded is the chain that ran *)
(* when the request was examined, and until the update is in progress a     *)
(* reset comes up on that chain.                                            *)
WayBack ==
    used.faults = 0 /\ used.nvFaults = 0 =>
      /\ nv.previous # None => nv.previous = asked.from
      /\ nv.previous # None /\ nv.status = None =>
           RomSays(nv.previous) /\ (boot # None => boot = nv.previous)
      /\ run.at \in EndLabels /\ run.chain # None => run.chain = asked.from

LEMMA OnlyChoice ==
    ASSUME IInv, OneChoice, used.faults = 0, run.at # "slots",
           NEW c \in RomChoice, NEW d \in RomChoice
    PROVE  c = d /\ c \in Chain
<1>0. platform.slots \in Nat /\ slots \in [SlotNumbers -> Chain \cup {None}]
    BY PlatformAssumption DEF IInv, Typed, StoredOK
<1>1. ASSUME NEW s \in FirstValid, NEW t \in FirstValid
      PROVE  s = t
  <2>1. s \in Nat /\ t \in Nat
    BY <1>0 DEF FirstValid, SlotNumbers
  <2>2. ~(s < t) /\ ~(t < s)
    BY <1>0, <2>1 DEF FirstValid, SlotNumbers
  <2>3. QED
    BY <2>1, <2>2
<1>2. \A e \in RomChoice : FirstIs(e) /\ e \in Chain
  <2>1. TAKE e \in RomChoice
  <2>2. CASE \E s \in FirstValid : e = slots[s]
    BY <1>0, <2>2 DEF FirstIs, FirstValid
  <2>3. CASE e \in Chain /\ e = reg.next /\ \E s \in SlotNumbers : slots[s] = e
    BY <2>3 DEF OneChoice
  <2>4. QED
    BY <2>2, <2>3 DEF RomChoice
<1>3. QED
    BY <1>1, <1>2 DEF FirstIs

(* The boot ROM goes on choosing what it chose.                             *)
LEMMA RomSame ==
    ASSUME platform' = platform, slots' = slots, image' = image,
           reg'.next = reg.next \/ reg'.next = None
    PROVE  /\ RomChoice' \subseteq RomChoice
           /\ \A c : Outcome(c)' = Outcome(c)
           /\ \A b : RomSays(b) => RomSays(b)'
<1>1. FirstValid' = FirstValid /\ SlotNumbers' = SlotNumbers
    BY DEF FirstValid, SlotNumbers
<1>2. RomChoice' \subseteq RomChoice
    BY <1>1, NoneAssumption DEF RomChoice, Chain
<1>3. \A c : Outcome(c)' = Outcome(c)
    BY DEF Outcome, Startable
<1>4. ASSUME NEW b, RomSays(b) PROVE RomSays(b)'
    BY <1>2, <1>3, <1>4 DEF RomSays
<1>5. QED
    BY <1>2, <1>3, <1>4

LEMMA PowerOnOutcome ==
    ASSUME IInv, OneChoice, PowerOn, used.faults = 0
    PROVE  RomSays(boot)' /\ \A b \in Chain : RomSays(b) => boot' = b
<1>1. PICK c \in RomChoice :
         \/ Startable(c) /\ boot' = c
         \/ ~Startable(c) /\ boot' = Other(c)
    BY DEF PowerOn
<1>2. boot' = Outcome(c) /\ run.at # "slots"
    BY <1>1 DEF Outcome, PowerOn, At
<1>3. \A d \in RomChoice : d = c
    BY <1>2, OnlyChoice
<1>4. /\ platform' = platform /\ slots' = slots /\ image' = image
      /\ reg'.next = reg.next \/ reg'.next = None
  <2>1. PowerOn => Next
    BY DEF Next, Firmware
  <2>2. ~SlotsWritten /\ ~PowerLoss
    BY DEF PowerOn, SlotsWritten, PowerLoss, At
  <2>3. QED
    BY <2>1, <2>2, Effects DEF PowerOn, fixed, flash
<1>5. RomChoice' \subseteq RomChoice /\ \A d : Outcome(d)' = Outcome(d)
    BY <1>4, RomSame
<1>6. RomSays(boot)'
    BY <1>2, <1>3, <1>5 DEF RomSays
<1>7. QED
    BY <1>2, <1>6 DEF RomSays

(* How a step comes to a place before the switch.                           *)
LEMMA IntoBefore ==
    ASSUME IInv, Next, run'.at \in Before
    PROVE  \/ PowerOn
           \/ run.at \in Before /\ boot' = boot
           \/ Fault
           \/ run.at = "slots failed"
<1>0. FrameOK /\ StepsOK
    BY DEF IInv, Typed
<1>r. ASSUME Restart PROVE FALSE
    BY <1>r DEF Restart, Idle, Before
<1>e. \A l \in Labels : Enter(l) => l \in Before
    BY DEF Enter, Idle
<1>c. \A c, r : ~CallUpdateFwChain(c, r)
    BY <1>0 DEF CallUpdateFwChain, FrameOK, Before
<1>g. \A l \in Labels : Goto(l) => l \in Before
    BY <1>0 DEF Goto, FrameOK
<1> USE DEF At, Labels
<1>1. CASE BootChainStep
  <2>1. ~ResetToChain /\ ~Switch /\ ~ReadyToBoot
    BY <1>r, <1>c, <1>e DEF ResetToChain, Switch, ReadyToBoot, Before
  <2>2. ~Restore /\ ~BootOs
    BY <1>c, <1>g, AfterUpdateMoves DEF Restore, BootOs, Before, Labels
  <2>3. \A s : ~Fail(s) /\ ~Finish(s)
    BY <1>0 DEF Fail, Finish, FrameOK, Before
  <2>4. ~FinishUpdate
    BY <1>0 DEF FinishUpdate, FrameOK, Before
  <2>5. ~TooManyResets /\ ~SwitchGivesUp /\ ~ReportSuccess
    BY <2>3 DEF TooManyResets, SwitchGivesUp, ReportSuccess
  <2>6. ~SetStatus /\ ~DeletePrevious /\ ~DeleteNext /\ ~DeleteResetCount /\ ~RestoreGivesUp
        /\ ~ClearFlag
    BY <1>g, AfterUpdateMoves DEF SetStatus, DeletePrevious, DeleteNext, DeleteResetCount,
       RestoreGivesUp, ClearFlag, Erase, Before, Labels
  <2>7. ~SetInProgress /\ ~CountReset
    BY <1>g, <2>3 DEF SetInProgress, CountReset, Record, Before
  <2>8. QED
    BY <1>1, <2>1, <2>2, <2>4, <2>5, <2>6, <2>7
    DEF BootChainStep, ExecuteUpdate, SavePrevious, Record, Quiet, Before
<1>2. CASE CapsuleStep
  <2>1. CASE HandleCapsules \/ CheckImage \/ CancelNext
    BY <2>1 DEF HandleCapsules, CheckImage, CancelNext, Before
  <2>2. CASE CancelStatus
    BY <1>r, <2>2 DEF CancelStatus, Rejected, Before
  <2>3. CASE SetImage
    BY <1>g, <2>3 DEF SetImage, Before
  <2>4. CASE InvalidateMb1 \/ WriteRegular \/ WriteMb1 \/ VerifyImages
    <3>1. ASSUME NEW l \in {"write", "write mb1"}, NEW q
          PROVE  run' # [run EXCEPT !.at = l, !.part = q]
      BY <1>0 DEF FrameOK, Before
    <3>2. InvalidateMb1 => Fault
      BY <3>1 DEF InvalidateMb1, ImageFails
    <3>3. WriteRegular => Fault
      BY <3>1 DEF WriteRegular, ImageFails
    <3>4. WriteMb1 \/ VerifyImages => Fault
      BY <1>g DEF WriteMb1, VerifyImages, ImageFails, Before
    <3>5. QED
      BY <2>4, <3>2, <3>3, <3>4
  <2>5. CASE UpdateBackup
    BY <1>c, <2>5 DEF UpdateBackup
  <2>6. CASE CapsuleGivesUp \/ CapsuleDone
    BY <1>r, <2>6 DEF CapsuleGivesUp, CapsuleDone
  <2>7. QED
    BY <1>2, <2>1, <2>2, <2>3, <2>4, <2>5, <2>6 DEF CapsuleStep
<1>3. CASE UpdateFwChain
  <2>1. ~WriteSlot
    BY <1>0 DEF WriteSlot, FrameOK, Before
  <2>2. ~WriteSlotFails
    BY <1>g DEF WriteSlotFails, Before
  <2>3. ~SlotsWritten
    BY <1>0, <1>g, SlotsChain DEF SlotsWritten, Returns, Before
  <2>4. QED
    BY <1>3, <2>1, <2>2, <2>3 DEF UpdateFwChain
<1>4. CASE PowerLoss
    BY <1>r, <1>4 DEF PowerLoss
<1>5. CASE OsStep
    BY <1>r, <1>5 DEF OsStep, OsSetNext, OsClearStatus, OsSetStatus, OsLeaveCapsule, OsRestart,
       Before
<1>6. QED
    BY <1>1, <1>2, <1>3, <1>4, <1>5 DEF Next, Firmware

LEMMA SameOutcomeKeeps ==
    ASSUME IInv, HistoryOK, Grows, SlotInRange, OneChoice, SameOutcome, Next
    PROVE  SameOutcome'
<1>1. SUFFICES ASSUME used'.faults = 0, run'.at \in Before
               PROVE  RomSays(boot)'
    BY DEF SameOutcome
<1>2. used.faults = 0
    BY <1>1 DEF Grows, HistoryOK, UsedOK
<1>3. ~Fault
  <2>1. Fault => used'.faults = used.faults + 1
    BY DEF Fault, HistoryOK, UsedOK
  <2>2. QED
    BY <1>1, <1>2, <2>1
<1>4. run.at # "slots failed"
  <2>1. ~(used.faults > 0)
    BY <1>2
  <2>2. QED
    BY <2>1 DEF SlotInRange
<1>5. CASE PowerOn
    BY <1>2, <1>5, PowerOnOutcome
<1>6. CASE run.at \in Before /\ boot' = boot
  <2>1. RomSays(boot)
    BY <1>2, <1>6 DEF SameOutcome
  <2>2. ~WriteSlot /\ ~WriteSlotFails /\ ~SlotsWritten
    BY <1>6 DEF WriteSlot, WriteSlotFails, SlotsWritten, At, Before
  <2>3. ~PowerLoss
    <3>1. PowerLoss => run' = Idle
      BY DEF PowerLoss, Restart
    <3>2. Idle.at = "off" /\ "off" \notin Before
      BY DEF Idle, Before
    <3>3. QED
      BY <1>1, <3>1, <3>2
  <2>4. platform' = platform /\ slots' = slots /\ reg'.next = reg.next /\ image' = image
    BY <1>6, <2>2, <2>3, Effects DEF Before
  <2>5. RomSays(boot)'
    BY <1>6, <2>1, <2>4, RomSame DEF RomSays
  <2>6. QED
    BY <2>5
<1>7. QED
    BY <1>1, <1>3, <1>4, <1>5, <1>6, IntoBefore

(* Where the way back is recorded and where the request is remembered.      *)
LEMMA BookEffects ==
    ASSUME IInv, HistoryOK, StatusMeans, Next
    PROVE  /\ nv'.previous = nv.previous \/ nv'.previous = None \/ SavePrevious
           /\ nv'.status = None => nv.status = None \/ run.at = "os"
           /\ \/ asked'.from = asked.from
              \/ run.at = "execute" /\ nv' = nv /\ nv.status = None /\ asked'.from = boot
<1>0. StoredOK /\ FrameOK /\ AskedOK
    BY DEF IInv, Typed, HistoryOK
<1>n. None # IN_PROGRESS /\ None # SUCCESS /\ None # Unreadable
      /\ None # "ERROR_CANCELED_FOR_FMP_CONFLICT"
    BY StatusAssumption DEF Reported, OsStatus
<1>q. ASSUME nv' = nv
      PROVE  nv'.previous = nv.previous /\ (nv'.status = None => nv.status = None)
    BY <1>q
<1>h. ASSUME asked' = asked \/ Disturbed
      PROVE  asked'.from = asked.from
    BY <1>0, <1>h DEF Disturbed, AskedOK
<1> USE DEF At
<1>1. CASE BootChainStep
  <2>1. CASE ExecuteUpdate
    <3>1. nv' = nv /\ run.at = "execute"
      BY <2>1 DEF ExecuteUpdate
    <3>2. \/ asked' = asked
          \/ /\ asked' = [from |-> boot, disturbed |-> FALSE, forged |-> FALSE]
             /\ nv.status = None
      BY <2>1 DEF ExecuteUpdate, NoRequest, RequestUnreadable, StatusUnreadable, NewRequest,
         SwitchWorked, SwitchFailed, AlreadyDecided
    <3>3. asked' = [from |-> boot, disturbed |-> FALSE, forged |-> FALSE] => asked'.from = boot
      BY <1>0 DEF AskedOK
    <3>4. QED
      BY <1>q, <1>h, <3>1, <3>2, <3>3
  <2>2. CASE SavePrevious
    <3>1. nv' = nv \/ nv' = [nv EXCEPT !.previous = boot]
      BY <2>2 DEF SavePrevious, Record, Put, NvFault
    <3>2. nv'.status = nv.status
      BY <1>0, <3>1 DEF StoredOK
    <3>3. asked' = asked \/ Disturbed
      BY <2>2 DEF SavePrevious, Record, NvFault, Success
    <3>4. QED
      BY <1>h, <2>2, <3>2, <3>3
  <2>3. CASE SetInProgress \/ CountReset \/ ReportSuccess
    <3>1. \/ nv' = nv \/ nv' = [nv EXCEPT !.status = IN_PROGRESS]
          \/ nv' = [nv EXCEPT !.status = SUCCESS]
          \/ nv' = [nv EXCEPT !.count = ResetCount + 1]
      BY <2>3 DEF SetInProgress, CountReset, ReportSuccess, Record, Put, NvFault
    <3>2. nv'.previous = nv.previous /\ (nv'.status = None => nv.status = None)
      BY <1>0, <1>n, <3>1 DEF StoredOK
    <3>3. asked' = asked \/ Disturbed
      BY <2>3 DEF SetInProgress, CountReset, ReportSuccess, Record, NvFault, Success
    <3>4. QED
      BY <1>h, <3>2, <3>3
  <2>4. CASE SetStatus
    <3>1. nv' = nv \/ nv' = [nv EXCEPT !.status = run.status]
      BY <2>4 DEF SetStatus, Put, NvFault
    <3>2. run.status # None
      BY <2>4, StatusAssumption DEF SetStatus, StatusMeans
    <3>3. nv'.previous = nv.previous /\ (nv'.status = None => nv.status = None)
      BY <1>0, <3>1, <3>2 DEF StoredOK
    <3>4. asked' = asked \/ Disturbed
      BY <2>4 DEF SetStatus, NvFault, Success
    <3>5. QED
      BY <1>h, <3>3, <3>4
  <2>5. CASE DeletePrevious \/ DeleteNext \/ DeleteResetCount
    <3>1. \/ nv' = nv \/ nv' = [nv EXCEPT !.previous = None]
          \/ nv' = [nv EXCEPT !.next = None] \/ nv' = [nv EXCEPT !.count = None]
      BY <2>5 DEF DeletePrevious, DeleteNext, DeleteResetCount, Erase, Delete, Put, NvFault
    <3>2. nv'.previous \in {nv.previous, None} /\ nv'.status = nv.status
      BY <1>0, <3>1 DEF StoredOK
    <3>3. asked' = asked \/ Disturbed
      BY <2>5 DEF DeletePrevious, DeleteNext, DeleteResetCount, Erase, NvFault, Success
    <3>4. QED
      BY <1>h, <3>2, <3>3
  <2>6. CASE \/ TooManyResets \/ Switch \/ SwitchGivesUp \/ ResetToChain \/ FinishUpdate
             \/ Restore \/ RestoreGivesUp \/ BootOs \/ ClearFlag \/ ReadyToBoot
    <3>1. nv' = nv /\ asked' = asked
      BY <2>6 DEF TooManyResets, Switch, SwitchGivesUp, ResetToChain, FinishUpdate, Restore,
         RestoreGivesUp, BootOs, ClearFlag, ReadyToBoot, Success
    <3>2. QED
      BY <1>q, <3>1
  <2>7. QED
    BY <1>1, <2>1, <2>2, <2>3, <2>4, <2>5, <2>6 DEF BootChainStep
<1>2. CASE CapsuleStep
  <2>1. asked' = asked \/ Disturbed
    BY <1>2 DEF CapsuleStep, HandleCapsules, CheckImage, CancelNext, CancelStatus, SetImage,
       InvalidateMb1, WriteRegular, WriteMb1, VerifyImages, UpdateBackup, CapsuleGivesUp,
       CapsuleDone, ImageFails, Success, Fault, NvFault
  <2>2. \/ nv' = nv \/ nv' = [nv EXCEPT !.next = None]
        \/ nv' = [nv EXCEPT !.status = "ERROR_CANCELED_FOR_FMP_CONFLICT"]
    BY <1>2 DEF CapsuleStep, HandleCapsules, CheckImage, CancelNext, CancelStatus, SetImage,
       InvalidateMb1, WriteRegular, WriteMb1, VerifyImages, UpdateBackup, CapsuleGivesUp,
       CapsuleDone, Delete, Put, NvFault
  <2>3. nv'.previous = nv.previous /\ (nv'.status = None => nv.status = None)
    BY <1>0, <1>n, <2>2 DEF StoredOK
  <2>4. QED
    BY <1>h, <2>1, <2>3
<1>3. CASE UpdateFwChain
  <2>1. nv' = nv /\ (asked' = asked \/ Disturbed)
    BY <1>3 DEF UpdateFwChain, WriteSlot, WriteSlotFails, SlotsWritten, Success, Fault
  <2>2. QED
    BY <1>h, <1>q, <2>1
<1>4. CASE PowerOn \/ PowerLoss
  <2>1. nv' = nv /\ (asked' = asked \/ Disturbed)
    BY <1>4 DEF PowerOn, PowerLoss
  <2>2. QED
    BY <1>h, <1>q, <2>1
<1>5. CASE OsStep
  <2>1. run.at = "os" /\ asked'.from = asked.from
    BY <1>0, <1>5 DEF OsStep, OsSetNext, OsClearStatus, OsSetStatus, OsLeaveCapsule, OsRestart,
       Success, AskedOK
  <2>2. \/ nv' = nv
        \/ \E next : nv' = [nv EXCEPT !.next = next]
        \/ nv' = [nv EXCEPT !.status = None]
        \/ \E status : nv' = [nv EXCEPT !.status = status]
    BY <1>5 DEF OsStep, OsSetNext, OsClearStatus, OsSetStatus, OsLeaveCapsule, OsRestart,
       Put, Delete
  <2>3. nv'.previous = nv.previous
    BY <1>0, <2>2 DEF StoredOK
  <2>4. QED
    BY <2>1, <2>3
<1>6. QED
    BY <1>1, <1>2, <1>3, <1>4, <1>5 DEF Next, Firmware

(* How a step comes to the end of an update.                                *)
LEMMA IntoEnd ==
    ASSUME IInv, Next, run'.at \in EndLabels
    PROVE  \/ FinishUpdate
           \/ run.at \in EndLabels \ {"restore"} /\ run'.chain = run.chain
<1>0. FrameOK /\ StepsOK
    BY DEF IInv, Typed
<1>r. ASSUME Restart PROVE FALSE
    BY <1>r DEF Restart, Idle, EndLabels
<1>e. \A l \in Labels : Enter(l) => l \in EndLabels
    BY DEF Enter, Idle
<1>c. \A c, r : ~CallUpdateFwChain(c, r)
    BY <1>0 DEF CallUpdateFwChain, FrameOK, EndLabels
<1>g. \A l \in Labels : Goto(l) => l \in EndLabels /\ run'.chain = run.chain
    BY <1>0 DEF Goto, FrameOK
<1>f. \A s : ~Fail(s) /\ ~Finish(s)
    BY <1>0 DEF Fail, Finish, FrameOK, EndLabels
<1>j. ~Rejected
    BY <1>r, <1>e DEF Rejected, Labels, EndLabels
<1> USE DEF At, Labels
<1>1. CASE BootChainStep
  <2>1. ~ResetToChain /\ ~Switch /\ ~ReadyToBoot
    BY <1>r, <1>c, <1>e DEF ResetToChain, Switch, ReadyToBoot, EndLabels
  <2>2. ~Restore /\ ~BootOs
    BY <1>c, <1>g, AfterUpdateMoves DEF Restore, BootOs, EndLabels, Labels
  <2>3. ~TooManyResets /\ ~SwitchGivesUp /\ ~ReportSuccess
    BY <1>f DEF TooManyResets, SwitchGivesUp, ReportSuccess
  <2>4. ~SetStatus /\ ~RestoreGivesUp /\ ~ClearFlag
    BY <1>g, AfterUpdateMoves DEF SetStatus, RestoreGivesUp, ClearFlag, EndLabels, Labels
  <2>5. ~SavePrevious /\ ~SetInProgress /\ ~CountReset
    BY <1>g, <1>f DEF SavePrevious, SetInProgress, CountReset, Record, EndLabels
  <2>6. ~ExecuteUpdate
    BY <1>g, <1>f DEF ExecuteUpdate, NoRequest, RequestUnreadable, StatusUnreadable, NewRequest,
       SwitchWorked, SwitchFailed, AlreadyDecided, EndLabels
  <2>7. CASE DeletePrevious \/ DeleteNext \/ DeleteResetCount
    BY <1>g, <2>7 DEF DeletePrevious, DeleteNext, DeleteResetCount, Erase, EndLabels
  <2>8. QED
    BY <1>1, <2>1, <2>2, <2>3, <2>4, <2>5, <2>6, <2>7 DEF BootChainStep
<1>2. CASE CapsuleStep
  <2>1. ~HandleCapsules
    <3>1. \A reset : run' # [run EXCEPT !.at = "check image", !.status = pending, !.reset = reset]
      BY <1>0 DEF FrameOK, EndLabels
    <3>2. ~Enter("execute")
      BY <1>e DEF EndLabels
    <3>3. QED
      BY <3>1, <3>2 DEF HandleCapsules
  <2>2. ~CheckImage /\ ~CancelNext /\ ~SetImage
    BY <1>g DEF CheckImage, CancelNext, SetImage, EndLabels
  <2>3. ~InvalidateMb1 /\ ~WriteRegular
    <3>1. ASSUME NEW l \in {"write", "write mb1"}, NEW q
          PROVE  run' # [run EXCEPT !.at = l, !.part = q]
      BY <1>0 DEF FrameOK, EndLabels
    <3>2. ~InvalidateMb1
      BY <1>j, <3>1 DEF InvalidateMb1, ImageFails
    <3>3. ~WriteRegular
      BY <1>j, <3>1 DEF WriteRegular, ImageFails
    <3>4. QED
      BY <3>2, <3>3
  <2>4. ~WriteMb1 /\ ~VerifyImages
    BY <1>g, <1>j DEF WriteMb1, VerifyImages, ImageFails, EndLabels
  <2>5. ~UpdateBackup /\ ~CapsuleGivesUp /\ ~CapsuleDone /\ ~CancelStatus
    BY <1>c, <1>j, <1>r DEF UpdateBackup, CapsuleGivesUp, CapsuleDone, CancelStatus
  <2>6. QED
    BY <1>2, <2>1, <2>2, <2>3, <2>4, <2>5 DEF CapsuleStep
<1>3. CASE UpdateFwChain
  <2>1. ~WriteSlot
    BY <1>0 DEF WriteSlot, FrameOK, EndLabels
  <2>2. ~WriteSlotFails
    BY <1>g DEF WriteSlotFails, EndLabels
  <2>3. ~SlotsWritten
    BY <1>0, <1>g, SlotsChain DEF SlotsWritten, Returns, EndLabels
  <2>4. QED
    BY <1>3, <2>1, <2>2, <2>3 DEF UpdateFwChain
<1>4. CASE PowerLoss \/ PowerOn
    BY <1>r, <1>e, <1>4 DEF PowerLoss, PowerOn, EndLabels
<1>5. CASE OsStep
    BY <1>r, <1>5 DEF OsStep, OsSetNext, OsClearStatus, OsSetStatus, OsLeaveCapsule, OsRestart,
       EndLabels
<1>6. QED
    BY <1>1, <1>2, <1>3, <1>4, <1>5 DEF Next, Firmware

LEMMA WayBackKeeps ==
    ASSUME IInv, HistoryOK, Grows, StatusMeans, BooksKept, SlotInRange, OneChoice, SameOutcome,
           WayBack, Next
    PROVE  WayBack'
<1>1. SUFFICES ASSUME used'.faults = 0, used'.nvFaults = 0
               PROVE  /\ nv'.previous # None => nv'.previous = asked'.from
                      /\ nv'.previous # None /\ nv'.status = None =>
                           /\ RomSays(nv.previous)' /\ (boot' # None => boot' = nv'.previous)
                      /\ run'.at \in EndLabels /\ run'.chain # None => run'.chain = asked'.from
    BY DEF WayBack
<1>2. used.faults = 0 /\ used.nvFaults = 0
    BY <1>1 DEF Grows, HistoryOK, UsedOK
<1>3. Books
    BY <1>2 DEF BooksKept
<1>4. ~Fault /\ ~NvFault
  <2>1. Fault => used'.faults = used.faults + 1
    BY DEF Fault, HistoryOK, UsedOK
  <2>2. NvFault => used'.nvFaults = used.nvFaults + 1
    BY DEF NvFault, HistoryOK, UsedOK
  <2>3. QED
    BY <1>1, <1>2, <2>1, <2>2
<1>5. CASE SavePrevious
  <2>1. /\ run.at = "save previous" /\ boot' = boot /\ asked' = asked
        /\ nv' = [nv EXCEPT !.previous = boot] /\ Goto("set in progress")
        /\ slots' = slots /\ image' = image /\ reg' = reg /\ platform' = platform
    BY <1>4, <1>5 DEF SavePrevious, Record, Put, Success, Quiet, flash, fixed, At
  <2>2. nv'.previous = boot /\ run'.at = "set in progress"
    BY <2>1 DEF IInv, Typed, StoredOK, FrameOK, Goto
  <2>3. asked.from = boot
    BY <1>3, <2>1 DEF Books
  <2>4. RomSays(boot)
    BY <1>2, <2>1 DEF SameOutcome, Before
  <2>5. RomSays(nv.previous)'
    BY <2>1, <2>2, <2>4, RomSame DEF RomSays
  <2>6. QED
    BY <2>1, <2>2, <2>3, <2>5 DEF EndLabels
<1>6. CASE ~SavePrevious
  <2>1. ASSUME nv'.previous # None
        PROVE  nv'.previous = nv.previous
    BY <1>6, <2>1, BookEffects
  <2>2. ASSUME nv'.previous # None, nv'.status = None
        PROVE  nv.previous # None /\ nv.status = None /\ run.at # "os"
    BY <1>3, <2>1, <2>2, BookEffects DEF Books, InProgress, Closed, ClosedLabels
  <2>3. ASSUME nv'.previous # None
        PROVE  nv'.previous = asked'.from
    <3>1. nv.previous = asked.from
      BY <1>2, <2>1, <2>3 DEF WayBack
    <3>2. CASE asked'.from = asked.from
      BY <2>1, <2>3, <3>1, <3>2
    <3>3. CASE /\ run.at = "execute" /\ nv' = nv /\ nv.status = None /\ asked'.from = boot
      <4>1. boot # None
        BY <3>3, NoneAssumption DEF IInv, Typed, BootOK, At
      <4>2. QED
        BY <1>2, <2>1, <2>3, <3>3, <4>1 DEF WayBack
    <3>4. QED
      BY <3>2, <3>3, BookEffects
  <2>4. ASSUME nv'.previous # None, nv'.status = None
        PROVE  RomSays(nv.previous)' /\ (boot' # None => boot' = nv'.previous)
    <3>1. nv.previous # None /\ nv.status = None /\ nv'.previous = nv.previous
      BY <2>1, <2>2, <2>4
    <3>2. RomSays(nv.previous) /\ (boot # None => boot = nv.previous)
      BY <1>2, <3>1 DEF WayBack
    <3>3. run.at \notin {"slots", "invalidate mb1", "write", "write mb1"}
      BY <1>3, <3>1, StatusAssumption
      DEF Books, InProgress, Closed, ClosedLabels, WritingSlots, Reported, OsStatus
    <3>4. CASE PowerOn
      <4>1. nv.previous \in Chain
        BY <3>1 DEF IInv, Typed, StoredOK
      <4>2. RomSays(boot)' /\ boot' = nv.previous
        BY <1>2, <3>2, <3>4, <4>1, PowerOnOutcome
      <4>3. QED
        BY <3>1, <4>2 DEF RomSays
    <3>5. CASE ~PowerOn
      <4>1. slots' = slots /\ image' = image /\ platform' = platform
        <5>1. ~WriteSlot /\ ~WriteSlotFails
          BY <3>3 DEF WriteSlot, WriteSlotFails, At
        <5>2. PowerLoss => slots' = slots
          BY <3>3 DEF PowerLoss, At
        <5>3. QED
          BY <3>3, <5>1, <5>2, Effects
      <4>2. reg'.next = reg.next \/ reg'.next = None
        <5>1. ~SlotsWritten
          BY <3>3 DEF SlotsWritten, At
        <5>2. PowerLoss => reg' = RegAfterPowerLoss
          BY DEF PowerLoss
        <5>3. PowerLoss => reg'.next = None
          BY <5>2 DEF RegAfterPowerLoss
        <5>4. QED
          BY <5>1, <5>3, Effects
      <4>3. RomSays(nv.previous)'
        BY <3>1, <3>2, <4>1, <4>2, RomSame DEF RomSays
      <4>4. boot' \in {boot, None}
        BY <3>5, Effects
      <4>5. QED
        BY <3>1, <3>2, <4>3, <4>4
    <3>6. QED
      BY <3>4, <3>5
  <2>5. ASSUME run'.at \in EndLabels, run'.chain # None
        PROVE  run'.chain = asked'.from
    <3>1. CASE FinishUpdate
      <4>1. run'.chain = nv.previous /\ asked' = asked
        BY <2>5, <3>1 DEF FinishUpdate, Success, IInv, Typed, FrameOK
      <4>2. QED
        BY <1>2, <2>5, <4>1 DEF WayBack
    <3>2. CASE run.at \in EndLabels \ {"restore"} /\ run'.chain = run.chain
      <4>1. asked'.from = asked.from
        BY <3>2, BookEffects DEF EndLabels
      <4>2. QED
        BY <1>2, <2>5, <3>2, <4>1 DEF WayBack
    <3>3. QED
      BY <2>5, <3>1, <3>2, IntoEnd
  <2>6. QED
    BY <2>3, <2>4, <2>5
<1>7. QED
    BY <1>5, <1>6

-----------------------------------------------------------------------------
(* How many slots can be lost.  A slot can be cut short only while it is    *)
(* written, highest first, so that the next loss is of a lower slot or      *)
(* comes after the one above has been written again: after e losses a valid *)
(* slot is left among the lowest e + 1.  Where slots are marked, each       *)
(* chain's slots are counted apart, without slot 0.                         *)
Events == used.losses + used.faults
AllLeft(e) == e >= platform.slots \/ \E s \in SlotNumbers : s <= e /\ slots[s] # None
OddLeft(b) ==
    \/ 2 * b + 1 >= platform.slots
    \/ \E s \in SlotNumbers : s % 2 = 1 /\ s <= 2 * b + 1 /\ slots[s] # None
EvenLeft(a) ==
    \/ 2 * a + 2 >= platform.slots
    \/ \E s \in SlotNumbers : s % 2 = 0 /\ 2 <= s /\ s <= 2 * a + 2 /\ slots[s] # None
SlotsLast ==
    ~used.tornCopied =>
      /\ ~platform.marker => AllLeft(Events)
      /\ platform.marker =>
           \E a, b \in Nat : a + b <= Events /\ OddLeft(b) /\ EvenLeft(a)

(* The slots above the one being written name the chain asked for.          *)
WrittenWhole ==
    run.at = "slots" /\ ~used.tornCopied =>
      \A s \in SlotNumbers :
        /\ s > run.slot
        /\ SlotShouldBeUpdated(s, run.chain)
        /\ ~SlotShouldBeInvalidated(s, run.chain)
        => slots[s] = run.chain

LEMMA WholeKeeps ==
    ASSUME IInv, HistoryOK, SlotInRange, WrittenWhole, Next, Grows, HistoryOK'
    PROVE  WrittenWhole'
<1>1. platform' = platform /\ SlotNumbers' = SlotNumbers /\ platform.slots \in Nat
    BY Effects, PlatformAssumption DEF SlotNumbers, IInv, Typed, StoredOK
<1>2. SUFFICES ASSUME run'.at = "slots", ~used'.tornCopied
               PROVE  WrittenWhole'
    BY DEF WrittenWhole
<1>3. CASE run'.slot = platform.slots - 1
    BY <1>1, <1>3 DEF WrittenWhole, SlotNumbers
<1>4. CASE WriteSlot
  <2>1. PICK s \in HighestLeft : /\ slots' = [slots EXCEPT ![s] = SlotData(s, run.chain)]
                                 /\ run' = [run EXCEPT !.slot = s - 1]
    BY <1>4 DEF WriteSlot
  <2>2. run.at = "slots" /\ ~used.tornCopied
    BY <1>2, <1>4 DEF WriteSlot, At, Grows, HistoryOK, UsedOK
  <2>3. backup[run.chain]
    <3>1. used' = [used EXCEPT !.tornCopied = @ \/ ~backup[run.chain]]
      BY <1>4 DEF WriteSlot
    <3>2. CASE ~backup[run.chain]
      BY <1>2, <3>1, <3>2 DEF HistoryOK, UsedOK
    <3>3. QED
      BY <3>2
  <2>4. /\ s \in SlotNumbers /\ s <= run.slot
        /\ \A t \in SlotNumbers : t > s /\ SlotShouldBeUpdated(t, run.chain) => t > run.slot
    BY <2>2, Highest
  <2>5. run'.slot = s - 1 /\ run'.chain = run.chain
    BY <2>1 DEF IInv, Typed, FrameOK
  <2>6. ASSUME NEW t \in SlotNumbers, t > s - 1, SlotShouldBeUpdated(t, run.chain),
               ~SlotShouldBeInvalidated(t, run.chain)
        PROVE  slots'[t] = run.chain
    <3>1. t \in Int /\ s \in Int
      BY <1>1, <2>4 DEF SlotNumbers
    <3>2. CASE t = s
      <4>1. SlotData(s, run.chain) = run.chain
        BY <2>3, <2>6, <3>2 DEF SlotData
      <4>2. QED
        BY <2>1, <2>4, <3>2, <4>1 DEF IInv, Typed, StoredOK
    <3>3. CASE t > s
      <4>1. t # s /\ t > run.slot
        BY <2>4, <2>6, <3>1, <3>3
      <4>2. slots[t] = run.chain
        BY <2>2, <2>6, <4>1 DEF WrittenWhole
      <4>3. QED
        BY <2>1, <4>1, <4>2 DEF IInv, Typed, StoredOK
    <3>4. QED
      BY <2>6, <3>1, <3>2, <3>3
  <2>7. \A t : /\ SlotShouldBeUpdated(t, run.chain)' = SlotShouldBeUpdated(t, run.chain)
               /\ SlotShouldBeInvalidated(t, run.chain)' = SlotShouldBeInvalidated(t, run.chain)
    BY <1>1, <2>5 DEF SlotShouldBeUpdated, SlotShouldBeInvalidated
  <2>8. QED
    BY <1>1, <2>5, <2>6, <2>7 DEF WrittenWhole
<1>5. QED
    BY <1>2, <1>3, <1>4, IntoSlots

(* A slot that has been written whole is valid again.                       *)
LEMMA WriteLeaves ==
    ASSUME IInv, HistoryOK, SlotInRange, WriteSlot, ~used'.tornCopied,
           NEW t \in SlotNumbers, slots[t] # None, ~platform.marker \/ t # 0
    PROVE  slots'[t] # None
<1>1. PICK s \in HighestLeft : slots' = [slots EXCEPT ![s] = SlotData(s, run.chain)]
    BY DEF WriteSlot
<1>2. run.chain \in Chain /\ run.chain # None /\ s \in SlotNumbers
    BY Highest, NoneAssumption DEF WriteSlot, At, Chain
<1>3. CASE t = s
  <2>1. used' = [used EXCEPT !.tornCopied = @ \/ ~backup[run.chain]]
    BY DEF WriteSlot
  <2>2. backup[run.chain]
    <3>1. CASE ~backup[run.chain]
      BY <2>1, <3>1 DEF HistoryOK, UsedOK
    <3>2. QED
      BY <3>1
  <2>3. SlotData(s, run.chain) = run.chain
    BY <1>3, <2>2 DEF SlotData, SlotShouldBeInvalidated
  <2>4. QED
    BY <1>1, <1>2, <1>3, <2>3 DEF IInv, Typed, StoredOK
<1>4. CASE t # s
    BY <1>1, <1>4 DEF IInv, Typed, StoredOK
<1>5. QED
    BY <1>3, <1>4

(* A slot is lost while it is written: the one above, which the update has  *)
(* written already, is valid.                                               *)
LEMMA LossLeavesAll ==
    ASSUME IInv, HistoryOK, SlotInRange, WrittenWhole, run.at = "slots", ~used.tornCopied,
           ~platform.marker, platform' = platform, NEW e \in Nat, AllLeft(e),
           NEW s \in HighestLeft, slots' = [slots EXCEPT ![s] = None]
    PROVE  AllLeft(e + 1)'
<1>1. /\ s \in SlotNumbers
      /\ \A t \in SlotNumbers : t > s /\ SlotShouldBeUpdated(t, run.chain) => t > run.slot
      /\ run.chain \in Chain /\ run.chain # None /\ platform.slots \in Nat \ {0}
    BY Highest, NoneAssumption DEF Chain
<1>2. SlotNumbers' = SlotNumbers
    BY DEF SlotNumbers
<1>3. CASE e >= platform.slots
    BY <1>1, <1>3 DEF AllLeft
<1>4. CASE \E t \in SlotNumbers : t <= e /\ slots[t] # None
  <2>1. PICK t \in SlotNumbers : t <= e /\ slots[t] # None
    BY <1>4
  <2>2. CASE t # s
    BY <1>1, <1>2, <2>1, <2>2 DEF AllLeft, SlotNumbers, IInv, Typed, StoredOK
  <2>3. CASE t = s /\ s + 1 >= platform.slots
    BY <1>1, <2>1, <2>3 DEF AllLeft, SlotNumbers
  <2>4. CASE t = s /\ s + 1 < platform.slots
    <3>1. s + 1 \in SlotNumbers /\ s + 1 > s /\ s + 1 # s /\ s + 1 <= e + 1
      BY <1>1, <2>1, <2>4 DEF SlotNumbers
    <3>2. SlotShouldBeUpdated(s + 1, run.chain) /\ ~SlotShouldBeInvalidated(s + 1, run.chain)
      BY DEF SlotShouldBeUpdated, SlotShouldBeInvalidated
    <3>3. slots[s + 1] = run.chain
      BY <1>1, <3>1, <3>2 DEF WrittenWhole
    <3>4. slots'[s + 1] # None
      BY <1>1, <3>1, <3>3 DEF IInv, Typed, StoredOK
    <3>5. QED
      BY <1>2, <3>1, <3>4 DEF AllLeft
  <2>5. QED
    BY <1>1, <2>2, <2>3, <2>4 DEF SlotNumbers
<1>5. QED
    BY <1>3, <1>4 DEF AllLeft

LEMMA LossLeavesMarked ==
    ASSUME IInv, HistoryOK, SlotInRange, WrittenWhole, run.at = "slots", ~used.tornCopied,
           platform.marker, platform' = platform, NEW a \in Nat, NEW b \in Nat,
           OddLeft(b), EvenLeft(a),
           NEW s \in HighestLeft, slots' = [slots EXCEPT ![s] = None]
    PROVE  \/ OddLeft(b + 1)' /\ EvenLeft(a)'
           \/ OddLeft(b)' /\ EvenLeft(a + 1)'
<1>1. /\ s \in SlotNumbers /\ SlotShouldBeUpdated(s, run.chain)
      /\ \A t \in SlotNumbers : t > s /\ SlotShouldBeUpdated(t, run.chain) => t > run.slot
      /\ run.chain \in Chain /\ run.chain # None /\ platform.slots \in Nat \ {0}
    BY Highest, NoneAssumption DEF Chain
<1>2. SlotNumbers' = SlotNumbers
    BY DEF SlotNumbers
<1>3. \A t \in SlotNumbers : t # s /\ slots[t] # None => slots'[t] # None
    BY DEF IInv, Typed, StoredOK
<1>4. ASSUME s + 2 \in SlotNumbers, s # 0
      PROVE  slots'[s + 2] # None
  <2>1. s \in Int /\ s + 2 > s /\ s + 2 # s /\ s + 2 # 0
    BY <1>1 DEF SlotNumbers
  <2>2. (s + 2) % 2 = s % 2
    BY <2>1
  <2>3. SlotShouldBeUpdated(s + 2, run.chain) /\ ~SlotShouldBeInvalidated(s + 2, run.chain)
    BY <1>1, <1>4, <2>1, <2>2 DEF SlotShouldBeUpdated, SlotShouldBeInvalidated
  <2>4. slots[s + 2] = run.chain
    BY <1>1, <1>4, <2>1, <2>3 DEF WrittenWhole
  <2>5. QED
    BY <1>1, <1>3, <1>4, <2>1, <2>4
<1>5. CASE s % 2 = 1
  <2>1. EvenLeft(a)'
    BY <1>2, <1>3, <1>5 DEF EvenLeft
  <2>2. OddLeft(b + 1)'
    <3>1. CASE 2 * b + 1 >= platform.slots
      BY <1>1, <3>1 DEF OddLeft
    <3>2. ASSUME NEW t \in SlotNumbers, t % 2 = 1, t <= 2 * b + 1, slots[t] # None
          PROVE  OddLeft(b + 1)'
      <4>1. CASE t # s
        <5>1. slots'[t] # None
          BY <1>3, <3>2, <4>1
        <5>2. t <= 2 * (b + 1) + 1
          BY <3>2 DEF SlotNumbers
        <5>3. QED
          BY <1>2, <3>2, <5>1, <5>2 DEF OddLeft
      <4>2. CASE t = s /\ s + 2 >= platform.slots
        BY <1>1, <3>2, <4>2 DEF OddLeft, SlotNumbers
      <4>3. CASE t = s /\ s + 2 < platform.slots
        <5>1. /\ s + 2 \in SlotNumbers /\ s # 0 /\ (s + 2) % 2 = 1
              /\ s + 2 <= 2 * (b + 1) + 1
          BY <1>1, <1>5, <3>2, <4>3 DEF SlotNumbers
        <5>2. QED
          BY <1>2, <1>4, <5>1 DEF OddLeft
      <4>4. QED
        BY <1>1, <4>1, <4>2, <4>3 DEF SlotNumbers
    <3>3. QED
      BY <3>1, <3>2 DEF OddLeft
  <2>3. QED
    BY <2>1, <2>2
<1>6. CASE s % 2 = 0 /\ s # 0
  <2>1. OddLeft(b)'
    BY <1>2, <1>3, <1>6 DEF OddLeft
  <2>2. EvenLeft(a + 1)'
    <3>1. CASE 2 * a + 2 >= platform.slots
      BY <1>1, <3>1 DEF EvenLeft
    <3>2. ASSUME NEW t \in SlotNumbers, t % 2 = 0, 2 <= t, t <= 2 * a + 2, slots[t] # None
          PROVE  EvenLeft(a + 1)'
      <4>1. CASE t # s
        <5>1. slots'[t] # None
          BY <1>3, <3>2, <4>1
        <5>2. t <= 2 * (a + 1) + 2
          BY <3>2 DEF SlotNumbers
        <5>3. QED
          BY <1>2, <3>2, <5>1, <5>2 DEF EvenLeft
      <4>2. CASE t = s /\ s + 2 >= platform.slots
        BY <1>1, <3>2, <4>2 DEF EvenLeft, SlotNumbers
      <4>3. CASE t = s /\ s + 2 < platform.slots
        <5>1. /\ s + 2 \in SlotNumbers /\ (s + 2) % 2 = 0 /\ 2 <= s + 2
              /\ s + 2 <= 2 * (a + 1) + 2
          BY <1>1, <1>6, <3>2, <4>3 DEF SlotNumbers
        <5>2. QED
          BY <1>2, <1>4, <1>6, <5>1 DEF EvenLeft
      <4>4. QED
        BY <1>1, <4>1, <4>2, <4>3 DEF SlotNumbers
    <3>3. QED
      BY <3>1, <3>2 DEF EvenLeft
  <2>3. QED
    BY <2>1, <2>2
<1>7. CASE s = 0
  <2>1. OddLeft(b)'
    BY <1>2, <1>3, <1>7 DEF OddLeft
  <2>2. EvenLeft(a)'
    BY <1>2, <1>3, <1>7 DEF EvenLeft
  <2>3. EvenLeft(a + 1)'
    <3>1. \A t \in SlotNumbers : t <= 2 * a + 2 => t <= 2 * (a + 1) + 2
      BY DEF SlotNumbers
    <3>2. 2 * a + 2 >= platform'.slots => 2 * (a + 1) + 2 >= platform'.slots
      BY <1>1
    <3>3. QED
      BY <1>2, <2>2, <3>1, <3>2 DEF EvenLeft
  <2>4. QED
    BY <2>1, <2>3
<1>8. s % 2 = 0 \/ s % 2 = 1
    BY <1>1 DEF SlotNumbers
<1>9. QED
    BY <1>5, <1>6, <1>7, <1>8

(* Slots change only where UpdateFwChain writes them, and are lost only in  *)
(* a counted event.                                                         *)
LEMMA SlotEffects ==
    ASSUME IInv, HistoryOK, Next
    PROVE  \/ slots' = slots
           \/ WriteSlot
           \/ /\ run.at = "slots" /\ Events' = Events + 1
              /\ \E s \in HighestLeft : slots' = [slots EXCEPT ![s] = None]
<1>1. CASE WriteSlotFails
  <2>1. run.at = "slots" /\ used' = [used EXCEPT !.faults = @ + 1]
    BY <1>1 DEF WriteSlotFails, At, Fault
  <2>2. Events' = Events + 1
    BY <2>1 DEF Events, HistoryOK, UsedOK
  <2>3. \E s \in HighestLeft : slots' \in {slots, [slots EXCEPT ![s] = None]}
    BY <1>1 DEF WriteSlotFails
  <2>4. QED
    BY <2>1, <2>2, <2>3
<1>2. CASE PowerLoss
  <2>1. used' = [used EXCEPT !.losses = @ + 1]
    BY <1>2 DEF PowerLoss
  <2>2. Events' = Events + 1
    BY <2>1 DEF Events, HistoryOK, UsedOK
  <2>3. \/ slots' = slots
        \/ run.at = "slots" /\ \E s \in HighestLeft : slots' = [slots EXCEPT ![s] = None]
    BY <1>2 DEF PowerLoss, At
  <2>4. QED
    BY <2>2, <2>3
<1>3. QED
    BY <1>1, <1>2, Effects

LEMMA SlotsLastKeep ==
    ASSUME IInv, HistoryOK, SlotInRange, WrittenWhole, SlotsLast, Next, Grows, HistoryOK'
    PROVE  SlotsLast'
<1>1. /\ platform' = platform /\ SlotNumbers' = SlotNumbers
      /\ platform.slots \in Nat \ {0} /\ platform.marker \in BOOLEAN
      /\ Events \in Nat /\ Events' \in Nat /\ Events' >= Events
  <2>1. platform' = platform /\ SlotNumbers' = SlotNumbers
    BY Effects DEF SlotNumbers
  <2>2. platform.slots \in Nat \ {0} /\ platform.marker \in BOOLEAN
    BY PlatformAssumption DEF IInv, Typed, StoredOK
  <2>3. Events \in Nat /\ Events' \in Nat /\ Events' >= Events
    BY DEF Events, Grows, HistoryOK, UsedOK
  <2>4. QED
    BY <2>1, <2>2, <2>3
<1>2. SUFFICES ASSUME ~used'.tornCopied
               PROVE  SlotsLast'
    BY DEF SlotsLast
<1>3. ~used.tornCopied
    BY <1>2 DEF Grows, HistoryOK, UsedOK
<1>4. PICK d \in Nat, e \in Nat : d = Events /\ e = Events' /\ d <= e
    BY <1>1
<1>5. \/ \A t \in SlotNumbers : slots[t] # None /\ (~platform.marker \/ t # 0) => slots'[t] # None
      \/ /\ run.at = "slots" /\ e = d + 1
         /\ \E s \in HighestLeft : slots' = [slots EXCEPT ![s] = None]
    BY <1>2, <1>4, SlotEffects, WriteLeaves
<1>6. ASSUME ~platform.marker
      PROVE  AllLeft(e)'
  <2>1. AllLeft(d)
    BY <1>3, <1>4, <1>6 DEF SlotsLast
  <2>2. CASE \A t \in SlotNumbers : slots[t] # None => slots'[t] # None
    <3>1. \A t \in SlotNumbers : t <= d => t <= e
      BY <1>4 DEF SlotNumbers
    <3>2. d >= platform.slots => e >= platform.slots
      BY <1>1, <1>4
    <3>3. QED
      BY <1>1, <2>1, <2>2, <3>1, <3>2 DEF AllLeft
  <2>3. ASSUME run.at = "slots", e = d + 1,
               NEW s \in HighestLeft, slots' = [slots EXCEPT ![s] = None]
        PROVE  AllLeft(e)'
    <3>1. AllLeft(d + 1)'
      BY <1>1, <1>3, <1>6, <2>1, <2>3, LossLeavesAll
    <3>2. QED
      BY <2>3, <3>1
  <2>4. QED
    BY <1>5, <1>6, <2>2, <2>3
<1>7. ASSUME platform.marker
      PROVE  \E a, b \in Nat : a + b <= e /\ OddLeft(b)' /\ EvenLeft(a)'
  <2>1. PICK a \in Nat, b \in Nat : a + b <= d /\ OddLeft(b) /\ EvenLeft(a)
    BY <1>3, <1>4, <1>7 DEF SlotsLast
  <2>2. CASE \A t \in SlotNumbers : slots[t] # None /\ t # 0 => slots'[t] # None
    <3>1. \A t \in SlotNumbers : t % 2 = 1 => t # 0
      BY DEF SlotNumbers
    <3>2. \A t \in SlotNumbers : 2 <= t => t # 0
      BY DEF SlotNumbers
    <3>3. OddLeft(b)'
      BY <1>1, <2>1, <2>2, <3>1 DEF OddLeft
    <3>4. EvenLeft(a)'
      BY <1>1, <2>1, <2>2, <3>2 DEF EvenLeft
    <3>5. a + b <= e
      BY <1>4, <2>1
    <3>6. QED
      BY <3>3, <3>4, <3>5
  <2>3. ASSUME run.at = "slots", e = d + 1,
               NEW s \in HighestLeft, slots' = [slots EXCEPT ![s] = None]
        PROVE  \E x, y \in Nat : x + y <= e /\ OddLeft(y)' /\ EvenLeft(x)'
    <3>1. \/ OddLeft(b + 1)' /\ EvenLeft(a)'
          \/ OddLeft(b)' /\ EvenLeft(a + 1)'
      BY <1>1, <1>3, <1>7, <2>1, <2>3, LossLeavesMarked
    <3>2. a + (b + 1) <= e /\ (a + 1) + b <= e /\ a + 1 \in Nat /\ b + 1 \in Nat
      BY <1>4, <2>1, <2>3
    <3>3. QED
      BY <3>1, <3>2
  <2>4. QED
    BY <1>5, <1>7, <2>2, <2>3
<1>8. QED
    BY <1>1, <1>4, <1>6, <1>7 DEF SlotsLast

-----------------------------------------------------------------------------
(* Everything the boot chain update keeps.                                  *)
BooksInv == HistoryOK /\ StatusMeans /\ BooksKept
SlotsInv ==
    SlotInRange /\ MarkedSlots /\ WrittenSlots /\ WrittenWhole /\ SlotsLast /\ OneChoice
FullInv == IInv /\ BooksInv /\ SlotsInv /\ SameOutcome /\ WayBack

LEMMA BooksStart ==
    ASSUME Init
    PROVE  BooksInv
<1>1. HistoryOK
    BY DEF Init, HistoryOK, UsedOK, AskedOK
<1>2. run.at = "off" /\ nv.status = None /\ nv.previous = None /\ pending = None
    BY DEF Init, Idle
<1>3. StatusMeans
    BY <1>2 DEF StatusMeans, EndLabels
<1>4. Books
    BY <1>2, StatusAssumption DEF Books, InProgress, Closed, ClosedLabels, WritingSlots, Switching, Reported, OsStatus
<1>5. QED
    BY <1>1, <1>3, <1>4 DEF BooksInv, BooksKept

LEMMA SlotsStart ==
    ASSUME Init
    PROVE  SlotsInv
<1>1. /\ run.at = "off" /\ reg.next = None /\ used.losses = 0 /\ used.faults = 0
      /\ slots = [s \in SlotNumbers |-> IF platform.marker /\ s % 2 = 1 THEN "B" ELSE "A"]
      /\ platform.slots \in Nat \ {0} /\ platform.marker \in BOOLEAN
    BY PlatformAssumption DEF Init, Idle, RegAfterPowerLoss
<1>2. SlotInRange /\ WrittenSlots /\ WrittenWhole
    BY <1>1 DEF SlotInRange, WrittenSlots, WrittenWhole
<1>3. MarkedSlots
    BY <1>1 DEF MarkedSlots, SlotNumbers
<1>4. OneChoice
    BY <1>1, NoneAssumption DEF OneChoice, Chain
<1>5. SlotsLast
  <2>1. Events = 0
    BY <1>1 DEF Events
  <2>2. \A s \in SlotNumbers : slots[s] # None
    BY <1>1, NoneAssumption
  <2>3. AllLeft(0)
    BY <1>1, <2>2, SMTT(60) DEF AllLeft, SlotNumbers
  <2>4. OddLeft(0)
    BY <1>1, <2>2 DEF OddLeft, SlotNumbers
  <2>5. EvenLeft(0)
    <3>1. CASE platform.slots > 2
      <4>1. 2 \in SlotNumbers /\ slots[2] # None
        BY <1>1, <2>2, <3>1 DEF SlotNumbers
      <4>2. 2 % 2 = 0 /\ 2 <= 2 * 0 + 2
        OBVIOUS
      <4>3. QED
        BY <4>1, <4>2 DEF EvenLeft
    <3>2. CASE platform.slots <= 2
      BY <1>1, <3>2 DEF EvenLeft
    <3>3. QED
      BY <1>1, <3>1, <3>2
  <2>6. QED
    BY <2>1, <2>3, <2>4, <2>5 DEF SlotsLast
<1>6. QED
    BY <1>2, <1>3, <1>4, <1>5 DEF SlotsInv

LEMMA FullStart ==
    ASSUME Init
    PROVE  FullInv
<1>1. run.at = "off" /\ nv.previous = None
    BY DEF Init, Idle
<1>2. SameOutcome /\ WayBack
    BY <1>1 DEF SameOutcome, WayBack, Before, EndLabels
<1>3. QED
    BY <1>2, InitHolds, BooksStart, SlotsStart DEF FullInv

LEMMA NextKeeps ==
    ASSUME IInv, Next
    PROVE  IInv'
    BY BootChainKeeps, UpdateFwChainKeeps, OsKeeps, CapsuleKeeps, PowerOnKeeps, PowerLossKeeps
    DEF Next, Firmware

LEMMA FullKeeps ==
    ASSUME FullInv, Next
    PROVE  FullInv'
<1>0. /\ IInv /\ HistoryOK /\ StatusMeans /\ BooksKept /\ SlotInRange /\ MarkedSlots
      /\ WrittenSlots /\ WrittenWhole /\ SlotsLast /\ OneChoice /\ SameOutcome /\ WayBack
    BY DEF FullInv, BooksInv, SlotsInv
<1>1. HistoryOK' /\ Grows
    BY <1>0, HistoryKeeps
<1>2. BooksKept'
  <2>1. SUFFICES ASSUME used'.nvFaults = 0
                 PROVE  Books'
    BY DEF BooksKept
  <2>2. used.nvFaults = 0
    BY <1>0, <1>1, <2>1 DEF HistoryOK, UsedOK, Grows
  <2>3. QED
    BY <1>0, <2>1, <2>2, BooksKeep DEF BooksKept
<1>3. BooksInv'
    BY <1>0, <1>1, <1>2, StatusMeansKeeps DEF BooksInv
<1>4. SlotsInv'
    BY <1>0, <1>1, RangeKeeps, MarkedKeeps, WrittenKeeps, WholeKeeps, SlotsLastKeep, OneChoiceKeeps
    DEF SlotsInv
<1>5. SameOutcome'
    BY <1>0, <1>1, SameOutcomeKeeps
<1>6. WayBack'
    BY <1>0, <1>1, WayBackKeeps
<1>7. QED
    BY <1>0, <1>3, <1>4, <1>5, <1>6, NextKeeps DEF FullInv

LEMMA FullStays ==
    ASSUME FullInv, UNCHANGED vars
    PROVE  FullInv'
<1>0. /\ run' = run /\ nv' = nv /\ used' = used /\ asked' = asked /\ pending' = pending
      /\ boot' = boot /\ slots' = slots /\ platform' = platform /\ reg' = reg
      /\ backup' = backup /\ image' = image /\ SlotNumbers' = SlotNumbers
    BY DEF vars, SlotNumbers
<1>1. IInv'
    BY StutterKeeps DEF FullInv
<1>2. BooksInv'
    BY <1>0, ZenonT(60) DEF FullInv, BooksInv, HistoryOK, UsedOK, AskedOK, StatusMeans, BooksKept, Books,
       InProgress, Closed, WritingSlots, Switching
<1>3. SlotInRange' /\ MarkedSlots' /\ WrittenSlots' /\ WrittenWhole'
    BY <1>0 DEF FullInv, SlotsInv, SlotInRange, MarkedSlots, WrittenSlots, WrittenWhole, SlotData,
       SlotShouldBeUpdated, SlotShouldBeInvalidated
<1>4. SlotsLast'
    BY <1>0 DEF FullInv, SlotsInv, SlotsLast, Events, AllLeft, OddLeft, EvenLeft
<1>5. FirstValid' = FirstValid /\ RomChoice' = RomChoice
    BY <1>0 DEF FirstValid, RomChoice
<1>6. OneChoice'
    BY <1>0, <1>5 DEF FullInv, SlotsInv, OneChoice, FirstIs
<1>7. \A c : RomSays(c)' = RomSays(c)
    BY <1>0, <1>5 DEF RomSays, Outcome, Startable
<1>8. SameOutcome' /\ WayBack'
    BY <1>0, <1>7 DEF FullInv, SameOutcome, WayBack
<1>9. QED
    BY <1>1, <1>2, <1>3, <1>4, <1>6, <1>8 DEF FullInv, SlotsInv

(* The invariant of the whole update: the variables tell the truth about    *)
(* the request, the slots about the chain the boot ROM will take.           *)
THEOREM UpdateInvariant == Spec => []FullInv
<1>1. Init => FullInv
    BY FullStart
<1>2. FullInv /\ [Next]_vars => FullInv'
    BY FullKeeps, FullStays
<1>3. QED
    BY <1>1, <1>2, PTL DEF Spec

(* The machine can always start again: a capsule never takes the last chain *)
(* that starts, and slots are lost one at a time, highest first, each after *)
(* the one above has been written again (UpdateFwChain), for any number of  *)
(* slots.                                                                   *)
THEOREM StartsAgain == Spec => []CanStart
<1>1. FullInv => CanStart
  <2>1. SUFFICES ASSUME FullInv, used.losses + used.faults <= Spare, ~used.tornCopied
                 PROVE  \E s \in SlotNumbers : slots[s] # None
    BY DEF CanStart, FullInv, IInv
  <2>2. platform.slots \in Nat \ {0} /\ platform.marker \in BOOLEAN /\ Events \in Nat
    <3>1. platform.slots \in Nat \ {0} /\ platform.marker \in BOOLEAN
      BY <2>1, PlatformAssumption DEF FullInv, IInv, Typed, StoredOK
    <3>2. Events \in Nat
      BY <2>1 DEF FullInv, BooksInv, HistoryOK, UsedOK, Events
    <3>3. QED
      BY <3>1, <3>2
  <2>3. Events <= platform.slots - (IF platform.marker THEN 2 ELSE 1)
    BY <2>1 DEF Spare, Events
  <2>4. CASE ~platform.marker
    BY <2>1, <2>2, <2>3, <2>4 DEF FullInv, SlotsInv, SlotsLast, AllLeft
  <2>5. CASE platform.marker
    <3>1. PICK a \in Nat, b \in Nat : a + b <= Events /\ OddLeft(b) /\ EvenLeft(a)
      BY <2>1, <2>5 DEF FullInv, SlotsInv, SlotsLast
    <3>2. ~(2 * b + 1 >= platform.slots /\ 2 * a + 2 >= platform.slots)
      BY <2>2, <2>3, <2>5, <3>1
    <3>3. QED
      BY <3>1, <3>2 DEF OddLeft, EvenLeft
  <2>6. QED
    BY <2>2, <2>4, <2>5
<1>2. QED
    BY <1>1, UpdateInvariant, PTL

(* A switch back goes to the chain that ran when the request was examined:  *)
(* BootChainFwPrevious, which Restore takes it from, is never left over     *)
(* from another update (BootChainFinishUpdate deletes it), whatever capsules*)
(* and power losses come between.                                           *)
THEOREM SwitchesBackHome == Spec => []RestoresOriginal
<1>1. FullInv => RestoresOriginal
  <2>1. SUFFICES ASSUME FullInv, At("restore"), run.chain # None,
                        used.faults + used.nvFaults = 0
                 PROVE  run.chain = asked.from
    BY DEF RestoresOriginal
  <2>2. used.faults = 0 /\ used.nvFaults = 0
    BY <2>1 DEF FullInv, BooksInv, HistoryOK, UsedOK
  <2>3. QED
    BY <2>1, <2>2 DEF FullInv, WayBack, EndLabels, At
<1>2. QED
    BY <1>1, UpdateInvariant, PTL

(* Success is reported only after a switch (BootChainExecuteUpdate sees     *)
(* IN_PROGRESS, and the chain that runs is the one BootChainFwNext names),  *)
(* unless a failed variable write has left IN_PROGRESS behind or the OS has *)
(* written it itself.                                                       *)
THEOREM SuccessIsReal == Spec => []SuccessMeansSwitched
<1>1. FullInv => SuccessMeansSwitched
    BY DEF FullInv, BooksInv, BooksKept, Books, SuccessMeansSwitched, At
<1>2. QED
    BY <1>1, UpdateInvariant, PTL

-----------------------------------------------------------------------------
(* What holds on the way to the OS.  While no slot or image is written, and *)
(* neither a slot write has failed nor a torn backup been copied, a reset   *)
(* comes up on the chain that runs.                                         *)
Rewriting ==
    {"off", "slots", "slots failed", "reset", "capsule done", "invalidate mb1", "write",
     "write mb1", "verify", "backup"}

RomAgrees ==
    used.faults = 0 /\ ~used.tornCopied /\ run.at \notin Rewriting => RomSays(boot)

(* Without a request the slots are written only for the chain that runs.    *)
OwnChainWritten == WritingSlots /\ run.ret = "clear flag" => run.chain = boot

(* A capsule waits until the next boot.                                     *)
NoPending == pending # None => run.at \in {"off", "uefi", "os"}

(* No variable write has failed: once the request is deleted, or where none *)
(* was found, there is none.                                                *)
Closing == {"delete count", "restore", "boot os", "clear flag", "ready to boot"}
NextGone ==
    used.nvFaults = 0 =>
      /\ run.at \in Closing => nv.next = None
      /\ WritingSlots /\ (run.ret = "clear flag" \/ (run.ret = "reset" /\ run.status # None))
           => nv.next = None

LEMMA GuardsOff == ASSUME Next, run.at = "off" PROVE PowerOn
  BY DEF Next, Firmware, PowerLoss, CapsuleStep, HandleCapsules, CheckImage, CancelNext,
     CancelStatus, SetImage, InvalidateMb1, WriteRegular, WriteMb1, VerifyImages,
     UpdateBackup, CapsuleGivesUp, CapsuleDone, BootChainStep, ExecuteUpdate, SavePrevious,
     SetInProgress, CountReset, TooManyResets, Switch, SwitchGivesUp, ResetToChain,
     ReportSuccess, SetStatus, FinishUpdate, DeletePrevious, DeleteNext, DeleteResetCount,
     Restore, RestoreGivesUp, BootOs, ClearFlag, ReadyToBoot, Record, Erase, OsStep,
     OsSetNext, OsClearStatus, OsSetStatus, OsLeaveCapsule, OsRestart, At,
     UpdateFwChain, WriteSlot, WriteSlotFails, SlotsWritten

LEMMA GuardsRewriting ==
    ASSUME Next, run.at \in Rewriting \ {"off", "slots failed"}
    PROVE  \/ PowerLoss
           \/ UpdateFwChain
           \/ ResetToChain \/ CapsuleDone
           \/ InvalidateMb1 \/ WriteRegular \/ WriteMb1 \/ VerifyImages \/ UpdateBackup
  BY DEF Next, Firmware, PowerOn, CapsuleStep, HandleCapsules, CheckImage, CancelNext,
     CancelStatus, SetImage, CapsuleGivesUp, BootChainStep, ExecuteUpdate, SavePrevious,
     SetInProgress, CountReset, TooManyResets, Switch, SwitchGivesUp,
     ReportSuccess, SetStatus, FinishUpdate, DeletePrevious, DeleteNext, DeleteResetCount,
     Restore, RestoreGivesUp, BootOs, ClearFlag, ReadyToBoot, Record, Erase, OsStep,
     OsSetNext, OsClearStatus, OsSetStatus, OsLeaveCapsule, OsRestart, At, Rewriting

(* How a step comes out of the writing of slots and images.                 *)
LEMMA OutOfRewriting ==
    ASSUME IInv, Next, run'.at \notin Rewriting
    PROVE  \/ PowerOn
           \/ run.at \notin Rewriting /\ boot' = boot
           \/ Fault
           \/ run.at = "slots failed"
           \/ SlotsWritten /\ run.ret = "clear flag"
<1>0. FrameOK /\ StepsOK
    BY DEF IInv, Typed
<1>r. ASSUME Restart PROVE FALSE
    BY <1>r DEF Restart, Idle, Rewriting
<1>1. CASE run.at \notin Rewriting
  <2>1. IInv'
    BY NextKeeps
  <2>2. boot' # None
    BY <2>1 DEF IInv, Typed, BootOK, At, Rewriting
  <2>3. QED
    BY <1>1, <2>2, Effects
<1>2. CASE run.at = "off"
    BY <1>2, GuardsOff
<1>3. CASE run.at \in Rewriting \ {"off", "slots failed"}
  <2>1. ~PowerLoss /\ ~ResetToChain /\ ~CapsuleDone
    BY <1>r DEF PowerLoss, ResetToChain, CapsuleDone
  <2>2. CASE UpdateFwChain
    <3>1. ~WriteSlot
      BY <1>0 DEF WriteSlot, At, FrameOK, Rewriting
    <3>2. WriteSlotFails => Fault
      BY DEF WriteSlotFails
    <3>3. SlotsWritten => run'.at = run.ret /\ run.ret \in Returns
      BY <1>0 DEF SlotsWritten, At, Goto, FrameOK, StepsOK
    <3>4. SlotsWritten => run.ret = "clear flag"
      BY <3>3 DEF Returns, Rewriting
    <3>5. QED
      BY <2>2, <3>1, <3>2, <3>4 DEF UpdateFwChain
  <2>3. ASSUME NEW l \in {"write", "write mb1"}, NEW q
        PROVE  run' # [run EXCEPT !.at = l, !.part = q]
    BY <1>0 DEF FrameOK, Rewriting
  <2>4. \A l \in Rewriting : ~Goto(l)
    BY <1>0 DEF Goto, FrameOK
  <2>5. InvalidateMb1 => Fault
    BY <2>3 DEF InvalidateMb1, ImageFails
  <2>6. WriteRegular => Fault
    BY <2>3 DEF WriteRegular, ImageFails
  <2>7. WriteMb1 \/ VerifyImages => Fault
    BY <2>4 DEF WriteMb1, VerifyImages, ImageFails, Rewriting
  <2>8. \A c, r : ~CallUpdateFwChain(c, r)
    BY <1>0 DEF CallUpdateFwChain, FrameOK, Rewriting
  <2>9. UpdateBackup => Fault
    BY <2>8 DEF UpdateBackup
  <2>10. QED
    BY <1>3, <2>1, <2>2, <2>5, <2>6, <2>7, <2>9, GuardsRewriting
<1>4. QED
    BY <1>1, <1>2, <1>3 DEF Rewriting

LEMMA FirstUnique ==
    ASSUME IInv, NEW s \in FirstValid, NEW t \in FirstValid
    PROVE  s = t
<1>1. platform.slots \in Nat
    BY PlatformAssumption DEF IInv, Typed, StoredOK
<1>2. s \in Nat /\ t \in Nat
    BY <1>1 DEF FirstValid, SlotNumbers
<1>3. ~(s < t) /\ ~(t < s)
    BY <1>1, <1>2 DEF FirstValid, SlotNumbers
<1>4. QED
    BY <1>2, <1>3

(* The slots have been written for the chain that runs: the boot ROM finds  *)
(* that chain, or none.                                                     *)
LEMMA OwnChainFound ==
    ASSUME IInv, SlotInRange, MarkedSlots, WrittenSlots, WrittenWhole, SlotsWritten,
           run.chain = boot, ~used.tornCopied
    PROVE  RomSays(boot)'
<1>1. /\ run.at = "slots" /\ boot \in Chain /\ boot # None /\ platform.slots \in Nat \ {0}
      /\ platform.marker \in BOOLEAN /\ Startable(boot) /\ slots \in [SlotNumbers -> Chain \cup {None}]
    BY SlotsChain, PlatformAssumption, NoneAssumption
    DEF SlotsWritten, At, IInv, Typed, StoredOK, StepsOK, BootOK, RunningStarts
<1>2. /\ reg'.next = boot /\ slots' = slots /\ image' = image /\ platform' = platform
      /\ boot' = boot
    BY DEF SlotsWritten, SetNextBootChain, IInv, Typed, StoredOK, fixed, flash
<1>3. \A s \in SlotNumbers : SlotShouldBeUpdated(s, boot) => s > run.slot
    BY <1>1 DEF SlotsWritten, SlotsLeft, SlotNumbers, SlotInRange
<1>4. \A s \in FirstValid : slots[s] = boot
  <2>1. CASE \E s \in SlotNumbers : slots[s] = boot
    <3>1. FirstIs(boot)
      BY <2>1, EndIsFirst
    <3>2. QED
      BY <3>1, FirstUnique DEF FirstIs
  <2>2. CASE \A s \in SlotNumbers : slots[s] # boot
    <3>1. 0 \in SlotNumbers
      BY <1>1 DEF SlotNumbers
    <3>2. platform.marker /\ boot = "B"
      BY <1>1, <1>3, <2>2, <3>1
      DEF WrittenWhole, SlotShouldBeUpdated, SlotShouldBeInvalidated, Chain
    <3>3. 1 \notin SlotNumbers
      BY <1>1, <1>3, <2>2, <3>2 DEF WrittenWhole, SlotShouldBeUpdated, SlotShouldBeInvalidated
    <3>4. SlotNumbers = {0}
      BY <1>1, <3>3 DEF SlotNumbers
    <3>5. slots[0] = None
      BY <1>1, <1>3, <3>1, <3>2 DEF WrittenSlots, SlotShouldBeUpdated, SlotShouldBeInvalidated, SlotData
    <3>6. QED
      BY <3>4, <3>5 DEF FirstValid
  <2>3. QED
    BY <2>1, <2>2
<1>5. FirstValid' = FirstValid
    BY <1>2 DEF FirstValid, SlotNumbers
<1>6. \A c \in RomChoice' : c = boot
    BY <1>2, <1>4, <1>5 DEF RomChoice
<1>7. Outcome(boot)' = boot'
    BY <1>1, <1>2 DEF Outcome, Startable
<1>8. QED
    BY <1>2, <1>6, <1>7 DEF RomSays

LEMMA RomAgreesKeeps ==
    ASSUME IInv, HistoryOK, Grows, SlotInRange, MarkedSlots, WrittenSlots, WrittenWhole,
           OneChoice, OwnChainWritten, RomAgrees, Next
    PROVE  RomAgrees'
<1>1. SUFFICES ASSUME used'.faults = 0, ~used'.tornCopied, run'.at \notin Rewriting
               PROVE  RomSays(boot)'
    BY DEF RomAgrees
<1>2. used.faults = 0 /\ ~used.tornCopied
    BY <1>1 DEF Grows, HistoryOK, UsedOK
<1>3. ~Fault
  <2>1. Fault => used'.faults = used.faults + 1
    BY DEF Fault, HistoryOK, UsedOK
  <2>2. QED
    BY <1>1, <1>2, <2>1
<1>4. run.at # "slots failed"
  <2>1. ~(used.faults > 0)
    BY <1>2
  <2>2. QED
    BY <2>1 DEF SlotInRange
<1>5. CASE PowerOn
    BY <1>2, <1>5, PowerOnOutcome
<1>6. CASE run.at \notin Rewriting /\ boot' = boot
  <2>1. RomSays(boot)
    BY <1>2, <1>6 DEF RomAgrees
  <2>2. ~WriteSlot /\ ~WriteSlotFails /\ ~SlotsWritten
    BY <1>6 DEF WriteSlot, WriteSlotFails, SlotsWritten, At, Rewriting
  <2>3. ~PowerLoss
    <3>1. PowerLoss => run' = Idle
      BY DEF PowerLoss, Restart
    <3>2. Idle.at = "off" /\ "off" \in Rewriting
      BY DEF Idle, Rewriting
    <3>3. QED
      BY <1>1, <3>1, <3>2
  <2>4. platform' = platform /\ slots' = slots /\ reg'.next = reg.next /\ image' = image
    BY <1>6, <2>2, <2>3, Effects DEF Rewriting
  <2>5. RomSays(boot)'
    BY <1>6, <2>1, <2>4, RomSame DEF RomSays
  <2>6. QED
    BY <2>5
<1>7. CASE SlotsWritten /\ run.ret = "clear flag"
  <2>1. run.chain = boot
    BY <1>7 DEF OwnChainWritten, WritingSlots, SlotsWritten, At
  <2>2. QED
    BY <1>2, <1>7, <2>1, OwnChainFound
<1>8. QED
    BY <1>1, <1>3, <1>4, <1>5, <1>6, <1>7, OutOfRewriting

(* Who calls UpdateFwChain.                                                 *)
LEMMA SlotsCalled ==
    ASSUME IInv, Next, WritingSlots'
    PROVE  WriteSlot \/ WriteSlotFails \/ Switch \/ Restore \/ BootOs \/ UpdateBackup
<1>0. FrameOK /\ StepsOK
    BY DEF IInv, Typed
<1>e. \A l \in Labels \ {"slots", "slots failed"} : ~Enter(l)
    BY DEF Enter, Idle, WritingSlots
<1>r. ASSUME Restart PROVE FALSE
    BY <1>r DEF Restart, Idle, WritingSlots
<1>j. ~Rejected
    BY <1>e, <1>r DEF Rejected, Labels
<1>g. \A l \in Labels \ {"slots", "slots failed"} : ~Goto(l)
    BY <1>0 DEF Goto, FrameOK, WritingSlots
<1>f. \A s : ~Fail(s) /\ ~Finish(s)
    BY <1>0 DEF Fail, Finish, FrameOK, WritingSlots
<1> USE DEF Labels
<1>1. CASE BootChainStep
  <2>1. ~ExecuteUpdate
    BY <1>g, <1>f DEF ExecuteUpdate, NoRequest, RequestUnreadable, StatusUnreadable,
       NewRequest, SwitchWorked, SwitchFailed, AlreadyDecided
  <2>2. ~SavePrevious /\ ~SetInProgress /\ ~CountReset /\ ~TooManyResets /\ ~SwitchGivesUp
    BY <1>g, <1>f DEF SavePrevious, SetInProgress, CountReset, TooManyResets, SwitchGivesUp, Record
  <2>3. ~ResetToChain /\ ~ReadyToBoot /\ ~ReportSuccess /\ ~SetStatus /\ ~DeletePrevious
        /\ ~DeleteNext /\ ~DeleteResetCount /\ ~RestoreGivesUp /\ ~ClearFlag
    BY <1>g, <1>f, <1>r, <1>e, AfterUpdateMoves DEF ResetToChain, ReadyToBoot, ReportSuccess, SetStatus,
       DeletePrevious, DeleteNext, DeleteResetCount, RestoreGivesUp, ClearFlag, Erase
  <2>4. ~FinishUpdate
    BY <1>0 DEF FinishUpdate, FrameOK, WritingSlots
  <2>5. QED
    BY <1>1, <2>1, <2>2, <2>3, <2>4 DEF BootChainStep
<1>2. CASE CapsuleStep
  <2>1. ~HandleCapsules
    BY <1>0, <1>e DEF HandleCapsules, FrameOK, WritingSlots
  <2>2. ~CheckImage /\ ~CancelNext /\ ~CancelStatus /\ ~SetImage /\ ~CapsuleGivesUp
        /\ ~CapsuleDone
    BY <1>g, <1>j, <1>r DEF CheckImage, CancelNext, CancelStatus, SetImage, CapsuleGivesUp,
       CapsuleDone
  <2>3. \A q : \A l \in {"write", "write mb1"} : run' # [run EXCEPT !.at = l, !.part = q]
    BY <1>0 DEF FrameOK, WritingSlots
  <2>4. ~InvalidateMb1
    BY <1>j, <2>3 DEF InvalidateMb1, ImageFails
  <2>5. ~WriteRegular
    BY <1>j, <2>3 DEF WriteRegular, ImageFails
  <2>6. ~WriteMb1 /\ ~VerifyImages
    BY <1>j, <1>g DEF WriteMb1, VerifyImages, ImageFails
  <2>7. QED
    BY <1>2, <2>1, <2>2, <2>4, <2>5, <2>6 DEF CapsuleStep
<1>3. CASE UpdateFwChain
  <2>1. ~SlotsWritten
    BY <1>0, <1>g DEF SlotsWritten, StepsOK, Returns, At
  <2>2. QED
    BY <1>3, <2>1 DEF UpdateFwChain
<1>4. CASE PowerOn \/ PowerLoss
    BY <1>e, <1>r, <1>4 DEF PowerOn, PowerLoss
<1>5. CASE OsStep
    BY <1>r, <1>5 DEF OsStep, OsSetNext, OsClearStatus, OsSetStatus, OsLeaveCapsule, OsRestart,
       WritingSlots, At
<1>6. QED
    BY <1>1, <1>2, <1>3, <1>4, <1>5 DEF Next, Firmware

(* How a step comes to the places where the request is gone.                *)
LEMMA IntoClosing ==
    ASSUME IInv, Next, run'.at \in Closing
    PROVE  \/ DeleteNext \/ SlotsWritten
           \/ ExecuteUpdate /\ NoRequest
           \/ DeleteResetCount \/ Restore \/ RestoreGivesUp \/ BootOs \/ ClearFlag
<1>0. FrameOK /\ StepsOK
    BY DEF IInv, Typed
<1>e. \A l \in Labels \ Closing : ~Enter(l)
    BY DEF Enter, Idle
<1>r. ASSUME Restart PROVE FALSE
    BY <1>r DEF Restart, Idle, Closing
<1>j. ~Rejected
    BY <1>e, <1>r DEF Rejected, Labels, Closing
<1>g. \A l \in Labels \ Closing : ~Goto(l)
    BY <1>0 DEF Goto, FrameOK
<1>f. \A s : ~Fail(s) /\ ~Finish(s)
    BY <1>0 DEF Fail, Finish, FrameOK, Closing
<1>c. \A c, r : ~CallUpdateFwChain(c, r)
    BY <1>0 DEF CallUpdateFwChain, FrameOK, Closing
<1> USE DEF Labels, Closing
<1>1. CASE BootChainStep
  <2>1. ExecuteUpdate => NoRequest
    BY <1>g, <1>f DEF ExecuteUpdate, RequestUnreadable, StatusUnreadable,
       NewRequest, SwitchWorked, SwitchFailed, AlreadyDecided
  <2>2. ~SavePrevious /\ ~SetInProgress /\ ~CountReset /\ ~TooManyResets /\ ~SwitchGivesUp
    BY <1>g, <1>f DEF SavePrevious, SetInProgress, CountReset, TooManyResets, SwitchGivesUp, Record
  <2>3. ~ResetToChain /\ ~ReadyToBoot /\ ~ReportSuccess /\ ~SetStatus /\ ~DeletePrevious
        /\ ~Switch
    BY <1>g, <1>f, <1>r, <1>e, <1>c DEF ResetToChain, ReadyToBoot, ReportSuccess, SetStatus,
       DeletePrevious, Switch, Erase
  <2>4. ~FinishUpdate
    BY <1>0 DEF FinishUpdate, FrameOK
  <2>5. QED
    BY <1>1, <2>1, <2>2, <2>3, <2>4 DEF BootChainStep
<1>2. CASE CapsuleStep
  <2>1. ~HandleCapsules
    BY <1>0, <1>e DEF HandleCapsules, FrameOK
  <2>2. ~CheckImage /\ ~CancelNext /\ ~CancelStatus /\ ~SetImage /\ ~CapsuleGivesUp
        /\ ~CapsuleDone
    BY <1>g, <1>j, <1>r DEF CheckImage, CancelNext, CancelStatus, SetImage, CapsuleGivesUp,
       CapsuleDone
  <2>3. \A q : \A l \in {"write", "write mb1"} : run' # [run EXCEPT !.at = l, !.part = q]
    BY <1>0 DEF FrameOK
  <2>4. ~InvalidateMb1
    BY <1>j, <2>3 DEF InvalidateMb1, ImageFails
  <2>5. ~WriteRegular
    BY <1>j, <2>3 DEF WriteRegular, ImageFails
  <2>6. ~WriteMb1 /\ ~VerifyImages /\ ~UpdateBackup
    BY <1>j, <1>g, <1>c DEF WriteMb1, VerifyImages, UpdateBackup, ImageFails
  <2>7. QED
    BY <1>2, <2>1, <2>2, <2>4, <2>5, <2>6 DEF CapsuleStep
<1>3. CASE UpdateFwChain
  <2>1. ~WriteSlot /\ ~WriteSlotFails
    BY <1>0, <1>g DEF WriteSlot, WriteSlotFails, At, FrameOK
  <2>2. QED
    BY <1>3, <2>1 DEF UpdateFwChain
<1>4. CASE PowerOn \/ PowerLoss
    BY <1>e, <1>r, <1>4 DEF PowerOn, PowerLoss
<1>5. CASE OsStep
    BY <1>r, <1>5 DEF OsStep, OsSetNext, OsClearStatus, OsSetStatus, OsLeaveCapsule, OsRestart, At
<1>6. QED
    BY <1>1, <1>2, <1>3, <1>4, <1>5 DEF Next, Firmware

(* The slots are not being written after a rejection or a move elsewhere,   *)
(* and a call leaves the frame of UpdateFwChain.                            *)
LEMMA WritingMoves ==
    ASSUME IInv, WritingSlots'
    PROVE  /\ ~Rejected
           /\ \A l \in {"boot os", "ready to boot"} : ~Goto(l)
           /\ \A c, r : CallUpdateFwChain(c, r) =>
                run'.chain = c /\ run'.ret = r /\ run'.status = run.status
<1>0. FrameOK
    BY DEF IInv, Typed
<1>1. run'.at \in {"slots", "slots failed"}
    BY DEF WritingSlots
<1>2. Restart => run'.at = "off"
    BY DEF Restart, Idle
<1>3. Enter("execute") => run'.at = "execute"
    BY DEF Enter, Idle
<1>4. ~Rejected
    BY <1>1, <1>2, <1>3 DEF Rejected
<1>5. ~Goto("boot os") /\ ~Goto("ready to boot")
    BY <1>0, <1>1 DEF Goto, FrameOK
<1>6. ASSUME NEW c, NEW r, CallUpdateFwChain(c, r)
      PROVE  run'.chain = c /\ run'.ret = r /\ run'.status = run.status
    BY <1>0, <1>6 DEF CallUpdateFwChain, FrameOK
<1>7. QED
    BY <1>4, <1>5, <1>6

LEMMA OwnChainKeeps ==
    ASSUME IInv, Next, OwnChainWritten
    PROVE  OwnChainWritten'
<1>0. FrameOK /\ StepsOK
    BY DEF IInv, Typed
<1>1. SUFFICES ASSUME WritingSlots', run'.ret = "clear flag"
               PROVE  run'.chain = boot'
    BY DEF OwnChainWritten
<1>2. CASE WriteSlot \/ WriteSlotFails
  <2>1. run'.ret = run.ret /\ run'.chain = run.chain /\ boot' = boot /\ WritingSlots
    BY <1>0, <1>2 DEF WriteSlot, WriteSlotFails, Goto, FrameOK, At, WritingSlots
  <2>2. QED
    BY <1>1, <2>1 DEF OwnChainWritten
<1>3. /\ ~Rejected /\ ~Goto("boot os") /\ ~Goto("ready to boot")
      /\ \A c, r : CallUpdateFwChain(c, r) => run'.chain = c /\ run'.ret = r
    BY <1>1, WritingMoves
<1>4. "reset" # "clear flag" /\ "capsule done" # "clear flag"
    OBVIOUS
<1>5. CASE Switch \/ UpdateBackup \/ Restore
  <2>1. run'.ret \in {"reset", "capsule done"}
    BY <1>3, <1>5, AfterUpdateMoves DEF Switch, UpdateBackup, Restore
  <2>2. QED
    BY <1>1, <1>4, <2>1
<1>6. CASE BootOs
  <2>1. boot' = boot
    BY <1>6 DEF BootOs, Quiet
  <2>2. QED
    BY <1>3, <1>6, <2>1 DEF BootOs
<1>7. QED
    BY <1>1, <1>2, <1>5, <1>6, SlotsCalled

LEMMA NoPendingKeeps ==
    ASSUME IInv, Next, NoPending
    PROVE  NoPending'
<1>0. FrameOK /\ StepsOK
    BY DEF IInv, Typed
<1>1. SUFFICES ASSUME pending' # None
               PROVE  run'.at \in {"off", "uefi", "os"}
    BY DEF NoPending
<1>r. Restart => run'.at = "off"
    BY DEF Restart, Idle
<1>e. \A l : Enter(l) => run'.at = l
    BY DEF Enter, Idle
<1>2. CASE HandleCapsules
    BY <1>1, <1>2 DEF HandleCapsules
<1>3. CASE OsStep
    BY <1>r, <1>3 DEF OsStep, OsSetNext, OsClearStatus, OsSetStatus, OsLeaveCapsule, OsRestart, At
<1>4. CASE PowerLoss \/ PowerOn
    BY <1>r, <1>e, <1>4 DEF PowerLoss, PowerOn
<1>5. CASE CapsuleStep /\ ~HandleCapsules
  <2>1. pending' = pending /\ run.at \notin {"off", "uefi", "os"}
    BY <1>5 DEF CapsuleStep, CheckImage, CancelNext, CancelStatus, SetImage,
       InvalidateMb1, WriteRegular, WriteMb1, VerifyImages, UpdateBackup, CapsuleGivesUp,
       CapsuleDone, At
  <2>2. QED
    BY <1>1, <2>1 DEF NoPending
<1>6. CASE BootChainStep
  <2>1. pending' = pending /\ run.at \notin {"off", "uefi", "os"}
    BY <1>6 DEF BootChainStep, ExecuteUpdate, SavePrevious, SetInProgress, CountReset,
       TooManyResets, Switch, SwitchGivesUp, ResetToChain, ReportSuccess, SetStatus,
       FinishUpdate, DeletePrevious, DeleteNext, DeleteResetCount, Restore, RestoreGivesUp,
       BootOs, ClearFlag, ReadyToBoot, Record, Erase, Quiet, At
  <2>2. QED
    BY <1>1, <2>1 DEF NoPending
<1>7. CASE UpdateFwChain
  <2>1. pending' = pending /\ run.at \notin {"off", "uefi", "os"}
    BY <1>7 DEF UpdateFwChain, WriteSlot, WriteSlotFails, SlotsWritten, At
  <2>2. QED
    BY <1>1, <2>1 DEF NoPending
<1>8. QED
    BY <1>2, <1>3, <1>4, <1>5, <1>6, <1>7 DEF Next, Firmware

LEMMA NextGoneKeeps ==
    ASSUME IInv, UsedOK, Grows, StatusMeans, NextGone, Next
    PROVE  NextGone'
<1>0. FrameOK /\ StepsOK /\ StoredOK
    BY DEF IInv, Typed
<1>1. SUFFICES ASSUME used'.nvFaults = 0,
                      \/ run'.at \in Closing
                      \/ WritingSlots' /\ (run'.ret = "clear flag" \/ (run'.ret = "reset" /\ run'.status # None))
               PROVE  nv'.next = None
    BY DEF NextGone
<1>a. used'.nvFaults = 0
    BY <1>1
<1>2. used.nvFaults = 0
  <2>1. used.nvFaults \in Nat /\ used'.nvFaults >= used.nvFaults
    BY DEF Grows, UsedOK
  <2>2. QED
    BY <1>a, <2>1
<1>3. ~NvFault
  <2>1. NvFault => used'.nvFaults = used.nvFaults + 1
    BY DEF NvFault, UsedOK
  <2>2. QED
    BY <1>a, <1>2, <2>1
<1>4. CASE run'.at \in Closing
  <2>1. CASE DeleteNext
    BY <1>0, <1>3, <2>1 DEF DeleteNext, Erase, Delete, Put, StoredOK
  <2>2. CASE ExecuteUpdate /\ NoRequest
    BY <2>2 DEF ExecuteUpdate, NoRequest
  <2>3. CASE SlotsWritten
    <3>1. run'.at = run.ret /\ run.ret \in Returns /\ WritingSlots
      BY <1>0, <2>3 DEF SlotsWritten, At, Goto, FrameOK, StepsOK, WritingSlots
    <3>2. nv' = nv
      BY <2>3 DEF SlotsWritten
    <3>3. run.ret = "clear flag"
      BY <1>4, <3>1 DEF Closing, Returns
    <3>4. nv.next = None
      BY <1>2, <3>1, <3>3 DEF NextGone
    <3>5. QED
      BY <3>2, <3>4
  <2>4. CASE DeleteResetCount
    <3>1. run.at \in Closing /\ nv' = [nv EXCEPT !.count = None]
      BY <1>3, <2>4 DEF DeleteResetCount, Erase, Delete, Put, At, Closing
    <3>2. QED
      BY <1>0, <1>2, <3>1 DEF NextGone, StoredOK
  <2>5. CASE Restore \/ BootOs
    BY <1>2, <2>5 DEF Restore, BootOs, At, Closing, NextGone
  <2>6. CASE RestoreGivesUp
    BY <1>2, <2>6 DEF RestoreGivesUp, At, WritingSlots, NextGone
  <2>7. CASE ClearFlag
    <3>1. nv' = nv
      BY <2>7 DEF ClearFlag
    <3>2. run.at \in Closing \/ (WritingSlots /\ run.ret = "clear flag")
      BY <2>7 DEF ClearFlag, At, WritingSlots, Closing
    <3>3. nv.next = None
      BY <1>2, <3>2 DEF NextGone
    <3>4. QED
      BY <3>1, <3>3
  <2>8. QED
    BY <1>4, <2>1, <2>2, <2>3, <2>4, <2>5, <2>6, <2>7, IntoClosing
<1>5. CASE WritingSlots' /\ (run'.ret = "clear flag" \/ (run'.ret = "reset" /\ run'.status # None))
  <2>1. /\ ~Rejected
        /\ \A c, r : CallUpdateFwChain(c, r) => run'.ret = r /\ run'.status = run.status
    BY <1>5, WritingMoves
  <2>2. CASE WriteSlot \/ WriteSlotFails
    <3>1. run'.ret = run.ret /\ run'.status = run.status /\ nv' = nv /\ WritingSlots
      BY <1>0, <2>2 DEF WriteSlot, WriteSlotFails, Goto, FrameOK, At, WritingSlots
    <3>2. QED
      BY <1>2, <1>5, <3>1 DEF NextGone
  <2>3. CASE Switch
    <3>1. run'.ret = "reset" /\ run'.status = run.status /\ run.status = None
      BY <2>1, <2>3 DEF Switch, StatusMeans, At
    <3>2. QED
      BY <1>5, <3>1
  <2>4. CASE UpdateBackup
    <3>1. run'.ret = "capsule done"
      BY <2>1, <2>4 DEF UpdateBackup
    <3>2. QED
      BY <1>5, <3>1
  <2>5. CASE Restore \/ BootOs
    BY <1>2, <2>5 DEF Restore, BootOs, At, Closing, NextGone
  <2>6. QED
    BY <1>5, <2>2, <2>3, <2>4, <2>5, SlotsCalled
<1>6. QED
    BY <1>1, <1>4, <1>5

SteadyInv ==
    /\ HistoryOK /\ StatusMeans
    /\ SlotInRange /\ MarkedSlots /\ WrittenSlots /\ WrittenWhole /\ OneChoice
    /\ RomAgrees /\ OwnChainWritten /\ NoPending /\ NextGone

LEMMA SteadyKeeps ==
    ASSUME IInv, SteadyInv, Next
    PROVE  SteadyInv' /\ Grows
<1>1. HistoryOK' /\ Grows
    BY HistoryKeeps DEF SteadyInv
<1>2. QED
    BY <1>1, RangeKeeps, MarkedKeeps, WrittenKeeps, WholeKeeps, OneChoiceKeeps, StatusMeansKeeps,
       RomAgreesKeeps, OwnChainKeeps, NoPendingKeeps, NextGoneKeeps DEF SteadyInv, HistoryOK

LEMMA SteadyStart ==
    ASSUME Init
    PROVE  SteadyInv
<1>1. run.at = "off" /\ pending = None
    BY DEF Init, Idle
<1>2. RomAgrees /\ OwnChainWritten /\ NoPending /\ NextGone
    BY <1>1 DEF RomAgrees, Rewriting, OwnChainWritten, WritingSlots, NoPending, NextGone, Closing
<1>3. QED
    BY <1>2, BooksStart, SlotsStart DEF SteadyInv, BooksInv, SlotsInv

(* The places of a boot that finds no request and no capsule.               *)
WayToOs ==
    {"off", "uefi", "execute", "boot os", "slots", "clear flag", "ready to boot", "os"}
OnWay == run.at \in WayToOs /\ (run.at = "slots" => run.ret = "clear flag")

LEMMA GuardsOnWay ==
    ASSUME Firmware, run.at \in WayToOs \ {"off"}
    PROVE  HandleCapsules \/ ExecuteUpdate \/ BootOs \/ UpdateFwChain \/ ClearFlag \/ ReadyToBoot
  BY DEF Firmware, PowerOn, CapsuleStep, CheckImage, CancelNext,
     CancelStatus, SetImage, InvalidateMb1, WriteRegular, WriteMb1, VerifyImages,
     UpdateBackup, CapsuleGivesUp, CapsuleDone, BootChainStep, SavePrevious,
     SetInProgress, CountReset, TooManyResets, Switch, SwitchGivesUp, ResetToChain,
     ReportSuccess, SetStatus, FinishUpdate, DeletePrevious, DeleteNext, DeleteResetCount,
     Restore, RestoreGivesUp, Record, Erase, At, WayToOs

(* Without a request, a capsule or a failed slot, the boot goes on to the   *)
(* OS, on the chain that it started with or that the boot ROM finds.        *)
LEMMA GoesOnToOs ==
    ASSUME IInv, HistoryOK, OneChoice, Firmware, OnWay, nv.next = None, pending = None,
           used.faults = 0, used'.faults = 0
    PROVE  /\ OnWay' /\ run'.at # "off" /\ nv' = nv /\ pending' = pending
           /\ run.at # "off" => boot' = boot
           /\ run.at = "off" => \A b \in Chain : RomSays(b) => boot' = b
<1>0. FrameOK /\ StepsOK
    BY DEF IInv, Typed
<1>e. \A l \in Labels : Enter(l) => run'.at = l
    BY DEF Enter, Idle
<1>g. \A l \in Labels : Goto(l) => run'.at = l /\ run'.ret = run.ret
    BY <1>0 DEF Goto, FrameOK
<1>c. \A c, r : CallUpdateFwChain(c, r) => run'.at = "slots" /\ run'.ret = r
    BY <1>0 DEF CallUpdateFwChain, FrameOK
<1>1. CASE run.at = "off"
  <2>1. PowerOn
    BY <1>1, GuardsOff DEF Next
  <2>2. run'.at = "uefi" /\ nv' = nv /\ pending' = pending
    BY <1>e, <2>1 DEF PowerOn, Labels
  <2>3. QED
    BY <1>1, <2>1, <2>2, PowerOnOutcome DEF OnWay, WayToOs
<1>2. CASE HandleCapsules
  <2>1. run'.at = "execute" /\ nv' = nv /\ pending' = pending /\ boot' = boot /\ run.at = "uefi"
    BY <1>e, <1>2 DEF HandleCapsules, At, Labels
  <2>2. QED
    BY <2>1 DEF OnWay, WayToOs
<1>3. CASE ExecuteUpdate
  <2>1. NoRequest
    BY <1>3, StatusAssumption, NoneAssumption
    DEF ExecuteUpdate, RequestUnreadable, StatusUnreadable, NewRequest, SwitchWorked,
        SwitchFailed, AlreadyDecided, Pending, Reported, OsStatus
  <2>2. run'.at = "boot os"
    BY <1>g, <2>1 DEF NoRequest, Labels
  <2>3. nv' = nv /\ pending' = pending /\ boot' = boot /\ run.at = "execute"
    BY <1>3 DEF ExecuteUpdate, Quiet, At
  <2>4. QED
    BY <2>2, <2>3 DEF OnWay, WayToOs
<1>4. CASE BootOs
  <2>1. nv' = nv /\ pending' = pending /\ boot' = boot /\ run.at = "boot os"
    BY <1>4 DEF BootOs, Quiet, At
  <2>2. run'.at = "ready to boot" \/ (run'.at = "slots" /\ run'.ret = "clear flag")
    BY <1>c, <1>g, <1>4 DEF BootOs, Labels
  <2>3. QED
    BY <2>1, <2>2 DEF OnWay, WayToOs
<1>5. CASE UpdateFwChain
  <2>1. ~WriteSlotFails
    <3>1. WriteSlotFails => used'.faults = used.faults + 1
      BY DEF WriteSlotFails, Fault, HistoryOK, UsedOK
    <3>2. QED
      BY <3>1
  <2>2. run.at = "slots" /\ run.ret = "clear flag" /\ nv' = nv /\ pending' = pending /\ boot' = boot
    BY <1>5, <2>1 DEF UpdateFwChain, WriteSlot, SlotsWritten, At, OnWay
  <2>3. CASE WriteSlot
    <3>1. run'.at = "slots" /\ run'.ret = run.ret
      BY <1>0, <2>2, <2>3 DEF WriteSlot, FrameOK
    <3>2. QED
      BY <2>2, <3>1 DEF OnWay, WayToOs
  <2>4. CASE SlotsWritten
    <3>1. run'.at = "clear flag"
      BY <1>g, <2>2, <2>4 DEF SlotsWritten, Labels
    <3>2. QED
      BY <2>2, <3>1 DEF OnWay, WayToOs
  <2>5. QED
    BY <1>5, <2>1, <2>3, <2>4 DEF UpdateFwChain
<1>6. CASE ClearFlag
  <2>1. nv' = nv /\ pending' = pending /\ boot' = boot /\ run'.at = "ready to boot"
    BY <1>6, <1>g DEF ClearFlag, Quiet, Labels
  <2>2. run.at # "off"
    BY <1>6 DEF ClearFlag, At
  <2>3. QED
    BY <2>1, <2>2 DEF OnWay, WayToOs
<1>7. CASE ReadyToBoot
  <2>1. nv' = nv /\ pending' = pending /\ boot' = boot /\ run'.at = "os" /\ run.at # "off"
    BY <1>7, <1>e DEF ReadyToBoot, Quiet, Labels, At
  <2>2. QED
    BY <2>1 DEF OnWay, WayToOs
<1>8. QED
    BY <1>1, <1>2, <1>3, <1>4, <1>5, <1>6, <1>7, GuardsOnWay DEF OnWay

LEMMA IntoOs ==
    ASSUME IInv, Firmware, run'.at = "os"
    PROVE  ReadyToBoot
<1>0. FrameOK /\ StepsOK
    BY DEF IInv, Typed
<1>e. \A l \in Labels \ {"os"} : ~Enter(l)
    BY DEF Enter, Idle
<1>r. ASSUME Restart PROVE FALSE
    BY <1>r DEF Restart, Idle
<1>j. ~Rejected
    BY <1>e, <1>r DEF Rejected, Labels
<1>g. \A l \in Labels \ {"os"} : ~Goto(l)
    BY <1>0 DEF Goto, FrameOK
<1>f. \A s : ~Fail(s) /\ ~Finish(s)
    BY <1>0 DEF Fail, Finish, FrameOK
<1>c. \A c, r : ~CallUpdateFwChain(c, r)
    BY <1>0 DEF CallUpdateFwChain, FrameOK
<1> USE DEF Labels
<1>1. CASE BootChainStep
  <2>1. ~ExecuteUpdate
    BY <1>g, <1>f DEF ExecuteUpdate, NoRequest, RequestUnreadable, StatusUnreadable,
       NewRequest, SwitchWorked, SwitchFailed, AlreadyDecided
  <2>2. ~SavePrevious /\ ~SetInProgress /\ ~CountReset /\ ~TooManyResets /\ ~SwitchGivesUp
    BY <1>g, <1>f DEF SavePrevious, SetInProgress, CountReset, TooManyResets, SwitchGivesUp, Record
  <2>3. ~ResetToChain /\ ~ReportSuccess /\ ~SetStatus /\ ~DeletePrevious
        /\ ~Switch /\ ~DeleteNext /\ ~DeleteResetCount /\ ~RestoreGivesUp /\ ~ClearFlag
        /\ ~Restore /\ ~BootOs
    BY <1>g, <1>f, <1>r, <1>e, <1>c, AfterUpdateMoves DEF ResetToChain, ReportSuccess, SetStatus,
       DeletePrevious, Switch, Erase, DeleteNext, DeleteResetCount, RestoreGivesUp, ClearFlag,
       Restore, BootOs
  <2>4. ~FinishUpdate
    BY <1>0 DEF FinishUpdate, FrameOK
  <2>5. QED
    BY <1>1, <2>1, <2>2, <2>3, <2>4 DEF BootChainStep
<1>2. ~CapsuleStep
  <2>1. ~HandleCapsules
    BY <1>0, <1>e DEF HandleCapsules, FrameOK
  <2>2. ~CheckImage /\ ~CancelNext /\ ~CancelStatus /\ ~SetImage /\ ~CapsuleGivesUp
        /\ ~CapsuleDone
    BY <1>g, <1>j, <1>r DEF CheckImage, CancelNext, CancelStatus, SetImage, CapsuleGivesUp,
       CapsuleDone
  <2>3. \A q : \A l \in {"write", "write mb1"} : run' # [run EXCEPT !.at = l, !.part = q]
    BY <1>0 DEF FrameOK
  <2>4. ~InvalidateMb1
    BY <1>j, <2>3 DEF InvalidateMb1, ImageFails
  <2>5. ~WriteRegular
    BY <1>j, <2>3 DEF WriteRegular, ImageFails
  <2>6. ~WriteMb1 /\ ~VerifyImages /\ ~UpdateBackup
    BY <1>j, <1>g, <1>c DEF WriteMb1, VerifyImages, UpdateBackup, ImageFails
  <2>7. QED
    BY <2>1, <2>2, <2>4, <2>5, <2>6 DEF CapsuleStep
<1>3. ~UpdateFwChain
  <2>1. ~WriteSlot /\ ~WriteSlotFails
    BY <1>0, <1>g DEF WriteSlot, WriteSlotFails, At, FrameOK
  <2>2. ~SlotsWritten
    BY <1>0, <1>g DEF SlotsWritten, StepsOK, Returns, At
  <2>3. QED
    BY <2>1, <2>2 DEF UpdateFwChain
<1>4. ~PowerOn
    BY <1>e DEF PowerOn
<1>5. QED
    BY <1>1, <1>2, <1>3, <1>4 DEF Firmware
=============================================================================
