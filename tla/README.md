# A verification project for edk2-nvidia

edk2-nvidia is the UEFI firmware of NVIDIA's Tegra and Server (TH500) platforms:
drivers and libraries on top of edk2, a StandaloneMM image, and a few boot
applications. This directory holds TLA+ models of the parts of it that keep
state across calls, failures and reboots, the TLC runs that check them, and the
TLAPS proofs about them.

Paths below are relative to `src/Silicon/NVIDIA/`. File and line references in
`PROJECT.json` (`map`) tie every definition of a model to the code it stands for.

1. [Inventory](#1-inventory)
2. [Plan](#2-plan)
3. [The models and the code](#3-the-models-and-the-code)
4. [What the runs check](#4-what-the-runs-check)
5. [What is proved](#5-what-is-proved)
6. [Limits](#6-limits)

## 1. Inventory

### 1.1 Parts that keep state and are hard to test

| Component | State it keeps | Operations | Interacts with | What is hard |
|---|---|---|---|---|
| **Error record store**, `Server/TH500/Drivers/ErrorSerializationMmDxe` | records with a status byte on NOR flash; a copy of the flash in memory; a list of records; used, wasted and valid counts per block; a count of unsynchronized changes | write, dummy write, read, clear for the OS; search for space, reclaim, relocate; initialization and re-initialization | the OS through a mailbox and MMI, the NOR flash protocol | power loss and faults between any two flash writes; recursion write → reclaim → relocate → write; tables that must agree with the flash |
| **Boot chain switch**, `Drivers/BootChainDxe` | variables Current, Next, Status, Previous, ResetCount; the boot configuration in flash | ExecuteUpdate, FinishUpdate, CheckAndCancelUpdate | OS (sets Next), FMP (cancels), `BrBctUpdateDeviceLib.UpdateFwChain`, boot ROM and MB1 (fall back to the other chain), reset | resets in the middle of a sequence of variable writes; an update must end, once, on a chain that boots |
| **Rootfs A/B selection**, `Application/L4TLauncher/L4TRootfsValidation.c` | variables for redundancy and status of each slot; scratch register with current slot and retry counts; Next of the boot chain | ValidateRootfsStatus at every boot | BootChainDxe through Next and Status, OS (confirms a boot), OTA | register and variables live through different kinds of reset; a retry count must end in recovery |
| **Sequential record logs**, `Drivers/SequentialRecordStMm` | records appended to a block of NOR flash, an active or retired flag in the first header of a block | write next, read last, read n-th from the end, erase partition, CMET read/write | RAS firmware and DXE through MM communicate | power loss between the new record and the retiring of the old block, or in the middle of a record |
| **Variable integrity (VarInt)**, `Drivers/FvbNorFlashDxe/VarIntCheck.c` and `FvbNorFlashStandaloneMm.c`, `Library/VarSetCallbacksLib` | measurement records (pending, valid, invalid) on flash and a copy of them in memory; deferred, dirty and pre-written flags | compute, write, invalidate last, mark dirty, flush deferred, validate, ExitBootServices | edk2's variable driver (before and after each SetVariable), OP-TEE, NOR flash | two stores (variables and measurement) that no single write updates; a reboot between any two steps must still validate |
| **BPMP requests**, `Drivers/BpmpIpc` | queue of transactions, the channel in use, read and write counters shared with the BPMP | Communicate (blocking or not), timer callback, channel set-up | every clock, reset, I2C and regulator driver; BPMP firmware | callbacks that run between any two TPL changes; one channel index for all callers; channel handshake with a timeout |
| **Threads**, `Drivers/ThreadingDxe` | state of each processor and thread, a queue with a spin lock | spawn, wait, abort, cleanup, completion callback | MP services, memory test, device discovery | code on several processors and callbacks on the boot processor; objects freed while another party holds them |
| **PLDM update task**, `Library/PldmFwUpdateTaskLib` with `ErotQspiLib`, `MctpBaseLib` | task state, outstanding request and tag, retries, timers | one function per protocol state | firmware device over MCTP | late, lost and repeated messages; several tasks at once |

### 1.2 What makes them correct

* Error record store: a request takes effect at one flash write or not at all,
  an acknowledged record survives any power loss, the tables describe the flash,
  reclaiming always has a free block to work with, every request is answered, and
  the OS can enumerate every record in a stable order.
* Boot chain switch: an update started once finishes once, with a status; the
  number of resets is bounded; the machine ends on the requested chain or on the
  one it came from; Next, Previous and ResetCount do not outlive the update.
* Rootfs selection: a slot whose retries are used up is left within a bounded
  number of boots; recovery is entered only when no slot can be booted; slot and
  firmware chain agree after a switch.
* Sequential logs: a record that was acknowledged is returned until its block is
  reused, and the last record read is the last one acknowledged.
* VarInt: after a reboot at any point a stored measurement matches the stored
  variables, before or after the update, and nothing else; at most two live
  records; a deferred measurement is written in the end.
* BPMP requests: every transaction is answered once, by the answer to it, in the
  order of the queue.
* Threads: every spawned thread runs once, a processor runs one thread at a
  time, a wait ends, and nothing is freed while it is used.

### 1.3 Parts that are not modelled

Firmware volume block drivers, except what they do for VarInt at boot (the variable
driver above them is edk2's), the parts of the FMP capsule that only check or parse, user password handler, Android
boot and AVB, MM communication and StandaloneMM core (buffer copies and calls into
secure firmware; they are the reason why an MM handler runs to completion),
OP-TEE and RPMB access (the state is in OP-TEE), NOR/QSPI and other controllers
(register sequences, seen by the models as a flash that programs, erases, fails
and is cut short), BMC communication, I2C, GPIO and clocks, PCIe, USB, display,
network, ACPI, SMBIOS and device tree tables (computed once), the boot manager,
and L4TLauncher's loading of files. The reasons are with each of them in
`PROJECT.json`.

## 2. Plan

| Step | Modules | Composition, abstraction | Theorems |
|---|---|---|---|
| 1 (done) | `ErstStore`, `ErstRecords`, `ErstLayout`, `ErstTables`, `Erst`, `ErstProperties`, `ErstOrder` | `Erst` implements `ErstRecords`, which implements `ErstStore` | invariant and refinement of `ErstRecords` |
| 2 (done) | `BootMachine`, `BootChain`, `FmpCapsule`, `BootUpdate`, `BootProperties` | boot ROM, capsules, boot chain update and OS on one machine | types, whole chains, a chain that starts; starts again, way back, success |
| 3 (done) | `L4TLauncher`, `RootfsSystem`, `RootfsProperties` | the launcher on top of `BootUpdate` | kernel follows the chain, no slot given up untried nor started too often, recovery last |
| 4 (done) | `SeqFlash`, `SeqStorage`, `CmetStorage`, `SeqRecordComm`, `SeqProperties` | storage, CMET copies and their request handlers | nothing stale, none skipped, a copy survives |
| 5 (done) | `BpmpIpc`, `BpmpProperties` | driver, timer, callers at three levels, BPMPs | the queue's invariant, answers |
| 6 (done) | `VarInt`, `VarIntProperties` | measurement records around an abstract variable store | a kept store is accepted, one valid record between updates |
| 7 | `Threading` | processors, completion callbacks, waiters | – |
| 8 | PLDM update task over MCTP | task against a firmware device that loses and repeats messages | – |
| 9 (done) | `ErstWriteProofs`, `ErstSpaceProofs` | the flash, the tables and the call stack of `Erst` in one invariant | tables agree with the flash, a free block, nothing overwritten, nothing refused that fits, the order of the records |

The modules to be proved about declare no RECURSIVE operator, keep one action
per operation and state their invariants as conjunctions of named parts. The
order is that of what a fault would cost: a record, a machine, a log, a boot.

## 3. The models and the code

### 3.1 The error record store (ERST)

`ErrorSerializationMmDxe` keeps the error records (CPERs) which the OS saves
through ACPI ERST. It is a StandaloneMM driver: an MMI calls
`ErrorSerializationEventHandler`, which reads a request from a mailbox, handles it
to the end and sets a status. Nothing else runs in StandaloneMM meanwhile, so the
interleavings that matter are those with power loss and with flash operations
that fail, at every flash operation.

| Module | Models |
|---|---|
| `ErstStore` | what the OS is promised: a map from record id to content; a request takes effect at one instant or not at all |
| `ErstRecords` | the protocol of status bytes: write sequence, relocation, clear, clean-up, power loss, faults; records live in abstract slots and one slot may be erased with any other dead ones |
| `ErstLayout` | the flash: blocks of cells, a header cell (status, id, length) and body cells, programming as bitwise AND, the driver's walk over a block (`ErstCollectBlock`, `ErstValidateRecord`) |
| `ErstTables` | the tables: record list, block counts, unsynchronized count, and the functions on them (`ErstPrepareNewRecord`, `ErstFreeRecord`, `ErstAllocateNewRecord`, `ErstDeallocateRecord`, `ErstFindFreeSpace`, `ErstGetNextRecordID`) |
| `Erst` | the driver: handler, search for space, reclaim, relocation, write, clear, initialization, over the two modules above |
| `ErstProperties`, `ErstOrder` | the properties of `Erst`; `ErstOrder` adds what an OS was told last |
| `ErstRecordsProofs` | proofs about `ErstRecords` |
| `ErstWriteProofs`, `ErstSpaceProofs` | proofs about `Erst`: the operators, the invariant and the write sequence; space, reclaim, requests, initialization, the order of the records and the theorems |
| `MCErst*` | values and symmetry for TLC |

**State and actions.**

* `flash` is the partition and `shadow` is `mShadowFlash`. `OnFlash` and
  `OnShadow` are the two effects of `ErstWriteSpiNor` and `ErstEraseSpiNor`: the
  copy is changed first and keeps the change when the flash operation fails.
* `tab` holds `CperInfo`, `BlockInfo`, `UnsyncedSpinorChanges`, the INCOMING and
  OUTGOING entries and `MostRecentBlock`.
* `stack` is the call stack, cut down to the three functions that can be in
  progress when power is lost: `ErstWriteRecord` (`put`, with its step in the write
  sequence), `ErstReclaimBlock` (`reclaim`) and `ErstCollectBlockInfo` (`init`,
  with its phase). One action is what happens from one flash operation to the
  next, with the code in between.
* `pending`, `reply` are the mailbox; `done` remembers whether the request has
  taken effect, for the refinement only.
* `mode = "failed"` is an error in `InitStatus`; `Stale` is the condition under
  which the handler re-initializes first.
* Each flash operation has an action for its success and one for its failure
  (`WriteStep`/`WriteFault`, `Clear`/`ClearFault`, ...); `Crash` leaves the
  operation in progress undone, done, or half done (`Torn`).

Cells stand for bytes: a header is `HdrSize` cells long, of which the first one
carries status, id and length; a body cell carries the content as the set of its
one bits, so that programming over it is an intersection and the merge check of
`ErstCopyValidToIncomingCper` can succeed and fail.

**The two refinements.**

`ErstRecords` maps to `ErstStore` by `Contents`: the record of an id is its VALID
copy, or its INCOMING copy once the old one is OUTGOING, which is what the clean-up
would settle on. `Erst` maps to `ErstRecords` by `RecCopies`: a slot is an offset,
and it holds what the walk over the flash finds there. So what the OS sees of the
driver with its blocks, tables and shadow is what the store allows.

### 3.2 Boot chains and capsules

| Module | Models |
|---|---|
| `BootMachine` | the storage that decides which chain starts: the BCT slots and their backup, the images of both chains, the scratch register, the variables; `BrBctUpdateDeviceLib`; power on and power loss. The boot ROM and MB1 are external |
| `BootChain` | `BootChainDxe`: `BootChainExecuteUpdate`, once at every boot, and `BootChainFinishUpdate` |
| `FmpCapsule` | `TegraFmp`: check of a capsule, cancelling an update that is under way, rewriting the inactive chain |
| `BootUpdate` | all of these, with an OS that asks for and withdraws switches, deletes and writes the status, leaves capsules and restarts |
| `BootProperties`, `MCBoot`, `BootProofs` | the properties, values for TLC, proofs |

**State and actions.** `nv` holds the four variables of an update
(`BootChainFwNext`, `Status`, `Previous`, `ResetCount`); `slots`, `backup` and
`image` are the flash, `reg` the scratch register, `boot` the chain that runs and
`brBctFlag` the update flag in memory. `run` is the program counter with the local
variables that live across a write: one action is at most one write to flash or to
one variable, so that `PowerLoss` can come between any two of them, and every write
has an action in which it fails. A slot that is being copied when power is lost is
torn, and so is an image; the backup partition is written whole, so a write that is
cut short may tear both chains' copies (`BackupCutShort`). `platform` is one of the two slot
layouts of the code (T234: four plain slots and no bits for failed chains; T264: three
slots whose number decides which chain they are for, `marker`, and bits for failed
chains) and `autoUpdate` the option to rewrite the BCT for a chain that started
because the other one failed. `used` counts what is bounded; `asked` remembers from which chain
a request was examined, whether anything has failed since (`disturbed`), and whether
the OS has since written IN_PROGRESS itself (`forged`), for the properties;
`used.tornCopied` whether a torn backup has been written to a slot.

Both variables of the OS are open to it (`EFI_VARIABLE_RUNTIME_ACCESS`), so `OsSetNext` and
`OsSetStatus` write any contents the code tells apart, `Unreadable` for a variable of the
wrong size among them. What the OS writes is acted on: with a request for the chain that runs
and an IN_PROGRESS of its own, 340-344 report success without a switch, and with
MAX_UINT32, which is what `BCStatus` also holds where there is no update, the BCT is
looked at once more after the update is closed (`AfterUpdate`).

### 3.3 Rootfs A/B

| Module | Models |
|---|---|
| `L4TLauncher` | `ValidateRootfsStatus` with the register, the status variables and the decision between slots, recovery and switch; the order in which it stores them; starting the kernel |
| `RootfsSystem` | the launcher on top of `BootUpdate`, with kernels that come up or hang, a watchdog, an OS that confirms a boot, rewrites a slot, asks for recovery |
| `RootfsProperties`, `MCRootfs`, `RootfsProofs` | properties, values, proofs |

**State and actions.** `retry` is the register (cleared by power loss and before a
switch), `status` the status variables, `redundancy` and `override` what a machine
is configured with, `launcher` the program counter with `RootfsInfo` as far as it
has not been stored. `ValidateRootfsStatus` has one action per outcome, guarded by
the code's conditions in their order; then `WriteStatus`, `WriteNext`,
`ClearForSwitch`/`Store` and the start or reset, each with its failure, which the
code logs and ignores. `spent` is no state of the program: it counts the retries that
starts of a slot have taken since it last came up. A start while a status variable is
unreadable is not among them: validation then returns before it takes a retry
(`VariableUnreadable`), and the launcher logs the error and starts the slot all the same.

### 3.4 Sequential records

| Module | Models |
|---|---|
| `SeqFlash` | one partition and the scans that find the active block, the last record and the n-th from the end; what a program or an erase that is cut short leaves |
| `SeqStorage` | `WriteNextRecord` (erase the next block, program, retire the old block) and `ErasePartition` |
| `CmetStorage` | the two copies of the CMET record |
| `SeqRecordComm` | the requests of `SequentialRecordComm.c`, one at a time, and power loss |
| `SeqProperties`, `MCSeq`, `SeqProofs` | properties, values, proofs |

**State and actions.** The flash is the only state of the driver; `job` is the
request in progress. A record is its number and the room it takes; a block is its
whole records, what lies behind them (blank, programmed without a flag, or a header
with a wrong checksum) and whether it is retired. `acked`, `pair` and `attempts` are
no state of the program; they say what was acknowledged and how often the CMET copies
were written since both held a record.

### 3.5 The BPMP request queue

| Module | Models |
|---|---|
| `BpmpIpc` | `BpmpIpcCommunicate`, `ProcessTransaction`, `BpmpIpcTimerNotify`; the BPMPs as peers that take and answer one message at a time |
| `BpmpProperties`, `MCBpmp`, `BpmpProofs` | properties, values, proofs |

**State and actions.** Everything on the boot processor runs at a task priority
level, and what is entered at a higher level returns before the lower one goes on,
so `activation` has at most one entry per level: a call with the step it is at, or
the timer's notification. `ActiveChannel`, `TransactionList` and the timer are the
driver's; `signaled` is the timer's event with its notification still to run;
`tx`, `rx` and `work` are the messages of a channel, of which `ChannelFree` lets
there be one; `reply` is the token of a call. One action is what runs between two
changes of the level. A blocking call raises the level to TPL_NOTIFY until it
returns (426), so that it can be interrupted only before that, which is where
`ActiveChannel` has already been set (382).

`AsyncTpl` are the levels from which calls with a token are made. The run and the
theorems take {TPL_NOTIFY}: the only such caller is edk2's I2C host driver, which
queues its requests at that level. Below it a call can be interrupted between its
insertion and `ProcessTransaction`, and the one that interrupts polls for ever.

### 3.6 Variable integrity

| Module | Models |
|---|---|
| `VarInt` | the measurement partition, `VarIntCheck.c` with its callers before and after a variable write, at boot and at ReadyToBoot; recovery from a store that is rejected |
| `VarIntProperties`, `MCVarInt`, `VarIntProofs` | properties, values, proofs |

**State and actions.** `flash` is the partition and `copy` is `PartitionData`, which
the driver searches and which it changes after the flash. A record is its version,
the state of its header and the content its hash was computed from; `store` is the
content of the variable store. `phase` is the place in the code at which power can
be lost: before a record is written, among the header writes of a commit, an abort,
a repair or a migration (with the records still to be rewritten in `todo`), before
and after the variable is written, and the steps of the boot. `upd` is the update in
progress: what the store will hold, what the driver thinks it will hold (`guess`: the
hash is computed before the variable driver has merged or appended), whether the
write succeeded and whether a record was written for it. `match` and `others` are
the local variables of `VarIntValidate` while it settles the records. A power loss in
the write of a record leaves its header, which is written first, and a payload that
matches nothing.

`trust` is no state of the program. It marks the windows in which the code does not
keep its promise, and TLC shows that it breaks in each of them:

* a wrong guess, from the write of the variable until the corrected record is
  written; if the guess equals the old content, no record is written at all;
* the very first record of a blank partition is cut short;
* a partition of the old format with two live records is migrated: the new record is
  the third, and the block erased for it may be that of the record being migrated;
* flash writes that fail. After some of them the code rewrites headers once more
  (`InvalidateLast` with `EFI_ABORTED`), which `WriteRecordFails` leaves out. One header write that fails after an update is repaired by
  the next boot (`strained`), unless another update comes first.

## 4. What the runs check

| Run | Instance | Shows |
|---|---|---|
| `erst_records` | 4 slots, 2 ids, 2 contents; any number of crashes and faults | the format overview's claims (`AtMostOneInFlight`, `OutgoingHasSuccessor`, `OneValidPerId`, `SettledWhenReady`), the inductive invariant `ProtocolInv`, and `StoreSpec` |
| `erst_space` | 3 blocks of 5 cells, lengths 2 and 3, 3 ids, no failures | tables agree with the flash (`RecordsTracked`, `SpaceTracked`), `OneFreeBlock`, `EnumerationComplete`, `OrderKept`; a write is refused only when one erased block is kept in reserve and no other has room beside its live records (`RefusedOnlyWhenFull`) |
| `erst_crash` | 3 blocks of 4 cells, 2 contents, 1 power loss | tables and copy after the clean-up (`RecordsTracked`, `ShadowInSync`) |
| `erst_answered` | 2 blocks, all requests, 1 fault and 1 power loss, fairness | `RecordsTracked`, `NeverOverwrite` when the driver goes on after an error, `RecordsSpec` for all requests, and every request is answered |
| `erst_no_free_block` | 2 blocks, 1 power loss | **violated**: the assertion that a block is free after initialization |
| `erst_merged_space` | 3 blocks, two lengths, 1 power loss | **violated**: a record is never written over another |
| `boot_update` | both layouts, 2 events (power losses, failed writes, capsules), 2 requests, fairness | `WholeChains`, `CanStart`, `RestoresOriginal`, `SuccessMeansSwitched`, `RequestEnds`, `AcceptedSwitchCompletes` |
| `rootfs_ab` | both layouts and redundancy levels, 1 event, 2 acts of the OS, 3 retries, fairness | `RetriesBounded`, `KernelFollowsChain`, `RecoveryIsLast`, `UnbootableMeansTried`, `Settles` |
| `seq_records` | 2 sockets, 2 blocks of 2 units, 2 events, 5 requests | `NothingStale`, `NoneSkipped`, `CmetCopySurvives` |
| `bpmp_queue` | 1 BPMP, 3 calls that are reused, fairness | the inductive invariant `QueueInv`, `AnswersMatch`, `CallsEnd` |
| `bpmp_sockets` | 2 BPMPs, 2 calls | **violated**: a call gets the answer of the BPMP it was made to |
| `varint` | 2 blocks of 2 records, 3 contents, 2 failures of the flash, any number of power losses, fairness | `StoreAccepted`, `OneRecordWhenIdle`, `Recovers` |

### Bounds

**Error records.** Four slots hold a record, its successor, a record of another id
and a left-over, which is every combination the protocol tells apart, as at most
two records are in transition. Three blocks are the least with a free block, a
block being reclaimed and one more that a nested reclaim can want; blocks hold two
records, so that reclaiming one moves records and leaves waste, and with length 3
in blocks of 5 a block ends in a rest smaller than a record. `MaxCrashes` and
`MaxFaults` bound the failures of `Erst` (`ErstRecords` has no such bound); `Word` =
65536 stands for the 2^32 at which `UsedSize - WastedSize` wraps: the wrapped value
is larger than any size either way.

**Boot chains.** One image besides mb1 is enough for a chain to be mixed. Two
events let power be lost during the repair of what an earlier event broke, and two
requests let a request meet the left-overs of another. `MAX_RESET_COUNT` is 1 and
not 3: the counter is only compared with it, and the state space grows with it. The
safety properties were also checked once with three events on both layouts (5.8 million
states).

**Rootfs.** One event (more would repeat those of `boot_update`), two acts of the
OS, three retries as in the code: a slot has to be given up, the other one too. A
larger instance, two events on the layout with a marker, was checked once for the
invariants (7.7 million states).

**Sequential records.** Two blocks are the least the driver accepts
(`MIN_PARTITION_BLOCKS`); the partition wraps within five requests, and records of
one and two units fill a block exactly or not. Three blocks were checked once.

**BPMP.** Three levels are those of the drivers; three calls are one that is
interrupted and two that are queued behind each other. Four were checked once.

**VarInt.** Two records per block make every second record erase the other block,
the least in which the choice of the block matters; three contents are the old one,
the new one and a wrong guess. Two failures let one meet the left-overs of another;
power losses are not bounded. Three records per block, and three blocks with two
contents, were checked once.

### Deadlock

It is checked except where the system may stop. `boot_update` and `rootfs_ab`: a
machine all of whose slots are invalid does not start any more, which `CanStart`
excludes as long as the layout has slots to spare and no torn backup was copied;
`seq_records`: the requests are bounded and nothing else happens. `bpmp_queue`
checks it: a hang of all callers would be found.

### Fairness

* `Erst`: weak fairness of `DriverStep`, as the handler runs to completion in
  StandaloneMM. Nothing is assumed of the OS or of power.
* `BootUpdate`: weak fairness of `Firmware`. One processor runs it and it never
  waits for the OS; the OS need not do anything.
* `RootfsSystem`: weak fairness of `Runs` (firmware, launcher, kernels that come up
  or are reset by the watchdog).
* `VarInt`: weak fairness of `Work`, as the handlers run to completion in
  StandaloneMM and the boot goes on by itself; strong fairness of `ReadyToBoot`: a
  boot writes variables finitely often before it signals the event. `Recovers`
  speaks of behaviours in which the power stays on from some moment.
* `BpmpIpc`: weak fairness of the running activation, of the timer while it is armed
  and of each BPMP; strong fairness of `Dispatch`, because RestoreTPL runs what is
  waiting at a level before anything below it goes on, however often the level is
  raised again.

**Symmetry** on ids (and contents and slots in `ErstRecords`) is used where only
safety is checked; these values are only compared for equality. Runs with a
liveness property have none.

### What the violations mean

* `erst_no_free_block`: a reclaim moves the records of one block into the reserved
  block one after another. When power is lost between two of them, both blocks hold
  a valid record, no block is free, `ErstCollectBlockInfo` fails its assertion
  ("All blocks are used, which shouldn't be possible") and, with assertions off,
  every request is refused at this boot and at every later one.
* `erst_merged_space`: after a merge, `IncomingCperInfo` still points to the list
  entry at which the merged record was before `ErstDeallocateRecord` moved the
  entries up. The used size of the block is taken from another record, and with
  records of different lengths the next record lands inside a valid one.
* `bpmp_sockets`: the channel is one for all callers and is chosen before the level
  is raised. A caller that is interrupted in between by a call to the other BPMP
  sends its request there, and gets that BPMP's answer with success.

More disagreements were seen and have no run. A dummy write of an id that has
a record counts a change, and `ErstDeallocateRecord (NULL)` does not take it back, so
the next request re-initializes and lists the records in the order of the blocks,
while the code says that records are never reordered (`OrderKept` is violated within
seconds when "dummy" is added to `Ops`, under `OrderSpec` without failures).
After a clear whose flash write fails, the copy in memory says DELETED
and the flash VALID while `UnsyncedSpinorChanges` stays 0, so the driver does not
notice and the record is back at the next boot. The overview says that an OUTGOING
record without INCOMING is restored to VALID, while the code marks it INVALID: the
state is unreachable, which `NoOrphanedOutgoing` proves. A call with a token
below TPL_NOTIFY, which the I2C driver of the repository allows for, can leave the
BPMP queue stuck (`bpmp_queue` with `AsyncTpl` = {8}). In the sequential records, the
first record of a fresh block can be cut short after its flag has been programmed:
that block has no valid record, but counts as active and comes first, so
`ReadLastRecord` fails until the next write although the acknowledged records of
the old block are there. The windows of `trust` in 3.6 are gaps of VarInt of the same kind.

## 5. What is proved

The assumptions are those of the modules (constants of the right kind, "no such
thing" values outside the sets) unless said otherwise.

### 5.1 Error records

**The protocol.** For any finite or infinite sets of slots, ids and contents, any
number of power losses and faults (`ErstRecordsProofs`):

* `TypeCorrect`; `InFlightBound`, `NoOrphanedOutgoing`, `UniqueValid`,
  `ReadyIsSettled`: the invariants that `erst_records` checks;
* `Invariance`: `ProtocolInv` is inductive;
* `StoreImplemented`: `Spec => StoreSpec`, the driver's protocol implements the
  store.

None of the claims is inductive alone: that at most one record is OUTGOING depends
on which step of which write is in progress. `ProtocolInv` adds what the flash
holds at each step of a write sequence (`WriteInv`), that a record in force is
complete (`CopiesWellFormed`) and in which modes a request is pending (`ModeInv`).
The flash part is preserved by each single change of the flash (lemmas
`StepIncoming`, `StepData`, `MarkOutgoing`, `MarkValid`, `MarkGone`, `WipeFlash`),
and a step that succeeds, fails or is cut short makes one of these changes or none
(`StepFlash`, `CutFlash`). `StepInv` then has one case per action. For the
refinement, a lemma per change says how `Contents` moves (`InsertContents`,
`ReplaceContents`, `ClearContents`, and `SameContents` for all the others): only the
commit step of a write and the DELETED byte of a clear move it, and only at the
pending id.

**The driver.** For any number and size of blocks, any set of record lengths, ids and
contents (`ErstWriteProofs`, `ErstSpaceProofs`; `LayoutAssumption`: two blocks at
least, and records fit a block; `WordAssumption`: a size fits a UINT32;
`BoundsAssumption`):

* `TypesKept`, `RecordsKept`, `SpaceKept`, `ShadowKept`, `FreeBlockKept`,
  `NothingOverwritten`, `AllEnumerated`: the invariants that `erst_space`,
  `erst_crash` and `erst_answered` check, from power on to the first power loss or flash
  operation that fails (`Untroubled`), for writes, dummy writes, reads, clears and all
  the reclaims, relocations and re-initializations that they cause;
* `RefusedWhenFull`: without failures a write is refused only when one block is erased,
  as the reserve for the next reclaim, and in every other one, erased or not, the live
  records leave no room for the new one. It needs fewer than 256 blocks, because the number of free
  blocks is a UINT8: with 256 free ones initialization itself fails;
* `RecordOrderKept`: without failures `OrderKept` holds for an OS that makes no dummy
  writes; with them it does not (section 4);
* `SpaceInvariant`: `SpaceInv`, the inductive invariant all of them rest on.

The properties speak of a settled driver; most of the invariant is about one that is
not. While the content of a record is not yet written the tables are ahead of the
flash, and while a block is reclaimed its count is negative. `Bare` takes the record
in the making out of the tables, undoes the sign, and says that what is left is
exactly what lies on the flash (`Store`: every block is a sequence of records back to
back with erased space behind them, `Laid`, and its entry counts them, `BlockOK`).
`Shape` says which call stacks there are: a write, a reclaim for it, a relocation for
that, and never a second reclaim inside the first. This is not obvious from the code, where
`ErstFindFreeSpace` may start a reclaim from within a relocation, and rests on
`FreeKept`: while a reclaim is under way either a block is still free, or one block has
room for everything that is left to move (`Room`); so the search for the space of a
relocated record succeeds at once. That the reclaimed block's records fit is in turn
why it was chosen: what it holds that is not wasted plus the record at hand fits one
block. `BehindLast` places the record in the making, `Tracking` ties INCOMING,
OUTGOING and the count of unsynchronized changes to the step of the write, and `Starts`
is the same for an initialization that has scanned some of the blocks.

The order needs more: what the OS was told and the list are compared only at the end of
a request, and a replaced record keeps its place while reclaims move others. `OrderInv`
adds that the list is what was told until the request appends or removes an entry
(`Untouched`), that it does one of these at most once (a replaced record is in force
before its entry changes, so the write is not started a second time), and that nothing is out of sync
between two requests, so that the list is never rebuilt in flash order (`NeverStale`).

The walk over a block is a recursive function. What it finds is proved once, in
`ErstWriteProofs`, by well-founded induction on the length that is left, and how a
block changes when a header, a content or a status byte is written follows from it
without looking at the walk again. The proofs about `Erst` go no further than the
first failure: what the clean-up makes of a flash that was cut short is checked
(`erst_crash`, `erst_answered`), and `erst_no_free_block` and `erst_merged_space` show that
the tables do not survive all of it.

### 5.2 Boot chains

For any versions, number of images, platforms (layouts and numbers of slots) and
bounds (`BootProofs`):

* `TypeCorrect`, `ChainsWhole` (a chain whose mb1 is valid holds one version) and
  `OneChainStarts` (at every moment some chain starts, and the one that runs does);
* `StartsAgain`: the machine can start again (`CanStart`);
* `SwitchesBackHome`: a switch back goes to the chain that ran (`RestoresOriginal`);
* `SuccessIsReal`: success is reported only after a switch (`SuccessMeansSwitched`),
  whatever the OS writes to its variables, unless it writes IN_PROGRESS itself or a
  failed variable write leaves it behind.

All rest on `UpdateInvariant`, the inductive invariant `FullInv`, in four layers:

* `IInv` ties the program counter of a capsule to the flash: from the moment mb1 is
  invalidated until it is written, mb1 of the inactive chain is torn; when it is
  written, the images below it have been; and while a capsule runs, the chain that
  runs is not the one being written. `BootChainKeeps` shows that the boot chain
  update touches no image, `CapsuleKeeps` has one case per step of the capsule.
* `Books` says what the four variables mean together, as long as no write of a
  variable has failed: an update in progress asks for the other chain than the one it
  was examined on; it is open only from its acceptance to its end, never while a
  capsule waits or the OS runs. An IN_PROGRESS that the OS has written (`asked.forged`)
  is no update in progress (`InProgress`), so these lines hold beside it. `SuccessMeansSwitched` is one of its lines, and
  needs the others: IN_PROGRESS has to be excluded wherever a new request or a
  capsule comes in between.
* `SlotsInv` says what the boot ROM will find. While slots are written, those above
  the one at hand hold what `BrBctUpdateFwChain` puts there (`WrittenSlots`,
  `WrittenWhole`), so that afterwards the first valid slot is of the chain that was
  asked for (`EndIsFirst`, `OneChoice`). `SlotsLast` counts: slots are written from
  the highest to the lowest, so a slot is lost only when the one above it has been
  written again, and after e losses one of the lowest e + 1 is valid. Where slots
  are marked the chains' slots are counted apart, and slot 0 is invalidated for
  chain B, so that one slot less can be lost: this is `Spare`.
* `SameOutcome` and `WayBack` speak of the next reset: until the update writes a
  slot it comes up on the chain that runs, and while a way back is recorded without
  a status, that chain is the one the request was examined on.

Two conditions of the properties were found by these proofs. `UpdateFwChain` copies
the backup without looking at it, so that one torn backup can take all slots with
it: `CanStart` therefore says nothing once a torn backup has been copied
(`used.tornCopied`). And a failed slot write in a switch back, whose result
`BootChainFinishUpdate` ignores, leaves slots of both chains, so that the machine may come
up on either before the status is recorded, and take the wrong chain for the one to
go back to: `RestoresOriginal` speaks of histories in which neither a variable nor a
slot write failed. `StatusAssumption` says that the absent status is none of those
the code reports.

### 5.3 Rootfs

* `KernelFollows`: the kernel belongs to the chain the firmware runs from. Through
  `Linked`: whatever the launcher has decided at each of its steps, the slot it will
  start is that of `boot`, or it will reset.
* `DeclaredAfterTries` (for `RetryMax < 4`, what two bits hold): a slot is declared
  unbootable only after `RetryMax` starts. `RetriesInv` says that the retries left
  and the starts counted add up (`Balanced`), with the one that the launcher has
  decided on and not yet stored, and that a slot about to be declared has none
  left (`FlaggedTried`).
* `RecoveryComesLast`: unless it was asked for, the recovery kernel starts only when
  no slot is valid. `RecoveryInv` follows what the launcher has read and decided
  through the two writes that give both slots up: what it holds in memory is what
  the variables say (`ReadAgrees`) but for the slots it has yet to declare, and
  recovery is chosen only with both of them declared or being declared
  (`RecoveryChosen`, `AllDeclared`).
* `RetriesAreSpent` (for every maximum): as long as nothing fails and no torn backup
  has been copied, validation takes retries for no more than `RetryMax` starts of a slot without
  its coming up (`RetriesBounded`); starts while a variable is unreadable take none and
  are not bounded. The register alone does not show it, since every switch clears
  it and the next validation gives each slot all its retries again. `SpentInv` adds
  the way back: starts, retries left and the start that is owed add up to `RetryMax`
  at most (`UsedUp`), and a slot that is half tried (`HalfTried`: started, not given
  up) is the one the next validation takes (`ComesBack`), so that the register is
  cleared only past a slot that has never been started or has been declared. For the
  way back through the firmware, `SteadyInv` of `BootProofs` says that without a
  request and a capsule (`NextGone`, `NoPending`) every step goes on to the OS of the
  chain that ran (`RomAgrees`, `GoesOnToOs`). `NoCountAssumption` says that the
  value for a register not in use is no pair of counts.
* `FirmwareUndisturbed`: in the whole system the chains stay whole and one starts,
  by the theorems of 5.2: no step of the launcher or of a kernel touches them.

### 5.4 BPMP queue

For one BPMP, calls with a token at TPL_NOTIFY and any number of calls
(`OneBpmp`): `QueueKept` and `OwnAnswers`. `QueueInv` is inductive: what is past
its insertion runs at TPL_NOTIFY, so an interrupted activation has queued nothing
(`ActivationsInv`); the channel carries the head of the list, or is empty while the
running activation is about to send it (`FlightInv`); and as long as the list is not
empty there is the timer or a polling caller that is in the list (`ListWatched`),
which is what a blocking call that cancels another one's timer relies on.

### 5.5 Variable integrity

For any number of blocks and records per block, any contents and any number of power
losses (`VarIntProofs`): `TypeCorrect`; and as long as the flash has not failed
(`faults` = 0) and the partition is not of the old format (`NoOldRecords`, of the
initial state), `AcceptedWithoutFaults` and `OneRecordWithoutFaults`. The two
properties are not inductive: whether a power loss is harmless depends on which
records are live at the step where it comes. `IInv` says so for every phase: one
valid record v that measures the store (`Settled`), v and a pending p of the guess
(`Pair`), and the orders in which their headers are rewritten (`Promoting`,
`Demoting`, `Finalizing`). That an erase spares v (`EraseSparesValid`) rests on
`FirstErasedBlank`: an erased first record means an erased block, because records
are written in order; so a block is erased for a record only when none is left,
and then it is another one than that of v.
Each action has a lemma; `MeasuredSomewhere` is the one about power loss.

### 5.6 Sequential records

For partitions of any size, any number of sockets and requests, and any number of
failed flash calls and losses of power (`SeqProofs`): `TypesHold`, `NothingGetsStale`,
`NoneIsSkipped`, `CopySurvives`.

The driver remembers nothing: `GetActiveBlock` takes the first flagged block, and
`ReadNthRecordFromEnd` walks back from there. So the invariant (`LogsStayReadable`)
says which blocks are flagged. Between two writes (`Good`) the first flagged block
holds the newest acknowledged record; or it has no record yet, and exactly one other
block is flagged and holds it (`Hidden`, a block whose first record was cut short
behind its flag). `Placed` says the same step by step while a write goes on, up to
the one step at which two blocks with records are flagged: whichever of them comes
first, the newest acknowledged record or the one being written is at its end, which is
what the order of erase, program and retire is for. `Ordered` dates the records: they get newer within a
block, none is newer than the request at hand, and no acknowledged one lies between
two neighbours. `ActiveBlock` and `Scan` are characterized once (lemmas before
"Types"); the offsets are a sum over the records of a block, which a recursive
function computes, with its existence and its value for one more record proved from
well-founded induction (`EndsExist`, `EndsAgree`).

`CmetInv` says the same of the two copies: the second is touched only when the first
has been written, and `attempts` stays 0 only as long as both hold `pair`.

### 5.7 Model-checked only

* `Erst` after a power loss or a failed flash operation (`RecordsTracked`,
  `ShadowInSync`, `NeverOverwrite` in `erst_crash` and `erst_answered`): the clean-up
  would need an invariant for every state that a torn write or erase can leave, at
  every phase, and the violations that a power loss causes show that it would need
  exceptions. `OrderKept` after a failure is not checked either.
* That `Erst` implements `ErstRecords` (`RecordsSpec`): so `StoreImplemented` covers
  the driver with its blocks as far as this refinement was checked on small ones.
* VarInt with failures of the flash and the migration of the old format.
* Liveness (`RequestAnswered`, `RequestEnds`, `AcceptedSwitchCompletes`, `Settles`,
  `CallsEnd`, `Recovers`) is outside what the prover handles.

## 6. Limits

Error records:

* `ErstRecords` starts a write only in usable space. That the driver finds such
  space is `NeverOverwrite`, checked on `Erst`, and false after a merge with records
  of different lengths; the refinement run therefore uses one length.
* A status byte whose flash write fails outside a write sequence is assumed to be
  as it was. Where a status byte would land inside a record, `StatusAccepted`
  lets it through only over a content with all bits set.
* Unreachable at these sizes or at all, and so not exercised: a full record list
  (`MaxRecords` exceeds what fits), an exhausted buffer pool (`TypeOK` bounds the
  frames), INCOMING and OUTGOING with different ids, the OUTGOING check on entry to
  `ErstWriteRecord`, a relocation that finds no record.
* `RecordsTracked` is checked with failures that the run allows; a reclaim nested in
  another one that fails leaves entries of the block negative until the next
  re-initialization, which needs two failures.
* The free block count wraps at 256 as in the code, but no run has that many
  blocks.
* Left out: checks of the mailbox's bounds and of the CPER header's signature and
  sizes (a header is readable or not), the timing record, allocation failures of
  the shadow (it is always there), a read of `ERST_FIRST_RECORD_ID` as a request of
  its own (its effect is `FirstId`).

Boot chains and rootfs:

* A write to a variable is atomic and a read of one does not fail; the variable
  driver is edk2's.
* Left out of the capsule: header and size checks (they refuse before anything is
  written), the GPT image, writing single images to a chosen chain.
* Left out of the launcher: how the kernel is found and loaded (it starts, returns
  or resets), RCM boot, booting from an ISO, redundancy levels the code does not
  know.
* The status of an update is open to the OS: an IN_PROGRESS it writes itself makes
  `BootChainDxe` report a success (or a failure) of a switch that was never tried.
  The model has these reports; `SuccessMeansSwitched` excepts them.
* While `BootChainFwStatus` is unreadable, the launcher starts
  the current slot at every boot without taking a retry, and nothing deletes
  `BootChainFwStatus` as long as there is no request. The model has these starts;
  `RetriesBounded` does not count them and `Settles` leaves such machines out.
* `Settles` excepts machines on which a chain does not start: the launcher asks for
  a switch that `BootChainDxe` refuses, at every boot.

Sequential records: reads of the flash succeed; partitions are of a valid size. After
a flash call whose failure the driver ignores, the records acknowledged before it
count no longer (`acked`): what is in that log then is not vouched for.

BPMP queue: one activation per level; the payload, the error code of an answer, the
sizes and the memory for a transaction are left out, as are the handshake that
sets up a channel, a doorbell that is disabled later, and a `SetTimer` that fails. A
transaction is freed while `ProcessTransaction` still reads it only below
TPL_NOTIFY (see `AsyncTpl`).

VarInt: an erase of a block is one step, and fails only where it is done for a
record; reads succeed; a write of a variable is one step (it is edk2's driver) and
leaves the old content or the new one. An update that is refused because there are
already too many live records changes nothing and is no action. Left out: variables
that are volatile, excluded from the measurement or not changed by a write; the
hash and its key; records written between the rejection of a store and the reset;
`InitPartition` at the end of `VarIntValidate`, whose condition cannot hold there.
Of an invalid record only its state is kept, as nothing else is read.
