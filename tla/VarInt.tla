------------------------------- MODULE VarInt -------------------------------
(***************************************************************************)
(* Measurements of the UEFI variable store (VarIntCheck.c), called around  *)
(* every variable write (VarSetCallbacksLib.c), at boot and at ReadyToBoot *)
(* (FvbNorFlashStandaloneMm.c).                                            *)
(*                                                                         *)
(* A partition of the NOR flash holds one record per measurement: a header *)
(* that goes from erased to pending, valid and invalid by clearing bits,   *)
(* and the signed hash of all variables.  A hash is reduced to the content *)
(* it was computed from; records in the old format have version 0.  The    *)
(* driver reads its copy of the partition, and changes it after the flash. *)
(*                                                                         *)
(* Every flash operation is a step of its own, so that power can be lost   *)
(* between any two, and in the middle of the write of a record: its header *)
(* is then written and its payload is Garbage.                             *)
(***************************************************************************)
EXTENDS Naturals, FiniteSetsExt

CONSTANTS NumBlocks,    \* blocks of the measurement partition
          PerBlock,     \* records that fit in a block
          Content,      \* what the variable store may hold
          Fresh,        \* the content of a store without variables
          NoStore,      \* the firmware volume header is not valid
          Garbage,      \* the payload of a record that was cut short
          AssertOnFail, \* PcdAssertOnVarStoreIntegrityCheckFail
          MaxFaults     \* bound on failed flash writes and measurements

ASSUME VarIntAssumption ==
    /\ NumBlocks \in Nat /\ NumBlocks >= 2
    /\ PerBlock \in Nat /\ PerBlock >= 2
    /\ Fresh \in Content /\ NoStore \notin Content /\ Garbage \notin Content
    /\ AssertOnFail \in BOOLEAN /\ MaxFaults \in Nat

NumSlots == NumBlocks * PerBlock
Slot == 1 .. NumSlots

BlockOf(s) == (s - 1) \div PerBlock
StartsBlock(s) == (s - 1) % PerBlock = 0

Record(ver, st, m) == [ver |-> ver, st |-> st, m |-> m]
Erased == Record(1, "erased", Garbage)
Empty  == [s \in Slot |-> Erased]

\* Of an invalid record nothing else is ever read.
Invalid == Record(1, "invalid", Garbage)

VARIABLES
    flash,    \* the measurement partition
    copy,     \* PartitionData: what the driver takes it to be
    store,    \* the variable store
    phase,    \* what the driver is doing
    deferred, \* BootstrapDeferred
    upd,      \* the variable write in progress
    match,    \* MatchedRecord, at boot
    others,   \* the rest of LastMeasurements: the other live records
    todo,     \* records whose header is still to be rewritten
    err,      \* one of these writes failed
    faults,   \* failures so far
    trust     \* history: may the records still be relied on at the next boot

vars == <<flash, copy, store, phase, deferred, upd, match, others, todo, err,
          faults, trust>>

(***************************************************************************)
(* Reading the partition.                                                  *)
(***************************************************************************)
IsLive(r)  == r.st \in {"pending", "valid"}
Live(p)    == {s \in Slot : IsLive(p[s])}
Blank(p)   == \A s \in Slot : p[s].st = "erased"

\* More than MAX_VALID_RECORDS, which is 2.
TooMany(p) == \E a, b, c \in Live(p) : a # b /\ b # c /\ a # c

MatchesV1(p, c) == {s \in Live(p) : p[s].ver = 1 /\ p[s].m = c}
MatchesV0(p, c) == {s \in Live(p) : p[s].ver = 0 /\ p[s].m = c}

MatchesValidRecord(p, c) == \E s \in MatchesV1(p, c) : p[s].st = "valid"

ErasedSlots(p) == {s \in Slot : p[s].st = "erased"}
ValidSlots(p)  == {s \in Slot : p[s].st = "valid"}

\* A faulty variant: the block that holds the last valid record is reused.
BlockToEraseSame(p) ==
    IF ErasedSlots(p) # {} THEN BlockOf(Min(ErasedSlots(p)))
    ELSE IF ValidSlots(p) = {} THEN 0
    ELSE BlockOf(Max(ValidSlots(p)))

\* GetWriteOffset: the block it erases, when the record starts one.
BlockToErase(p) ==
    IF ErasedSlots(p) # {} THEN BlockOf(Min(ErasedSlots(p)))
    ELSE IF ValidSlots(p) = {} THEN 0
    ELSE LET last == BlockOf(Max(ValidSlots(p)))
         IN  IF last = NumBlocks - 1 THEN 0 ELSE last + 1

\* Where the next record goes.
NextSlot == Min(ErasedSlots(copy))

\* Without an erased record, or at the start of a block that is not blank.
MustErase ==
    ErasedSlots(copy) # {} =>
        /\ StartsBlock(NextSlot)
        /\ \E s \in Slot : BlockOf(s) = BlockOf(NextSlot) /\ flash[s].st # "erased"

EraseBlock(p, b) == [s \in Slot |-> IF BlockOf(s) = b THEN Erased ELSE p[s]]

(***************************************************************************)
(* Writing it.  A phase is a place in the code where power can be lost:    *)
(* before the write of a record, or among the one-byte header writes.      *)
(***************************************************************************)
RecordPhases == {"pre", "correct", "flush", "migrate"}
HeaderPhases == {"commit", "abort", "finalize", "migrated", "retire", "flushed"}

NoUpdate == [new |-> Fresh, guess |-> Fresh, ok |-> FALSE, dirty |-> FALSE]

\* UpdateLiveMeasurementRecordStates, and FinalizeValidatedRecords: the live
\* records, of which the driver can hold two at a time.
RewriteHeaders(w, p, u) ==
    /\ phase' = IF TooMany(p) THEN "idle" ELSE w
    /\ todo' = IF TooMany(p) THEN {} ELSE Live(p)
    /\ upd' = IF TooMany(p) THEN NoUpdate ELSE u
    /\ err' = FALSE

OneHeader(w, s) == phase' = w /\ todo' = {s} /\ err' = FALSE /\ upd' = upd

GoTo(w) ==
    /\ phase' = w /\ todo' = {} /\ err' = FALSE
    /\ upd' = IF w = "idle" THEN NoUpdate ELSE upd

\* The hash in the record that is to be written.
Measurement == IF phase = "pre" THEN upd.guess ELSE store

WritesRecord ==
    /\ phase \in RecordPhases
    /\ phase = "correct" =>
          ~TooMany(copy) /\ ~MatchesValidRecord(copy, store)

EraseForRecord ==
    /\ WritesRecord /\ MustErase
    /\ flash' = EraseBlock(flash, BlockToErase(copy))
    /\ copy' = EraseBlock(copy, BlockToErase(copy))
    /\ UNCHANGED <<store, phase, deferred, upd, todo, err, faults, trust, match, others>>

\* A record that was cut short is not repaired by writing over it.
Programmed(r, new) ==
    IF r.st = "erased" THEN new ELSE [new EXCEPT !.m = Garbage]

WriteRecord ==
    /\ WritesRecord /\ ~MustErase
    /\ LET new == Record(1, "pending", Measurement)
       IN  /\ flash' = [flash EXCEPT ![NextSlot] = Programmed(@, new)]
           /\ copy' = [copy EXCEPT ![NextSlot] = new]
    /\ \/ phase = "pre" /\ GoTo("store")
       \/ phase = "correct" /\ RewriteHeaders("commit", copy', upd)
       \/ phase = "flush" /\ OneHeader("flushed", NextSlot)
       \/ phase = "migrate" /\ OneHeader("migrated", NextSlot)
    /\ UNCHANGED <<store, deferred, faults, trust, match, others>>

\* A faulty variant: a successful update does not retire the old record.
NewStateKeepsOld(s) ==
    IF phase \in {"retire", "finalize"} THEN IF s = match THEN "valid" ELSE "invalid"
    ELSE IF copy[s].st = "pending" /\ phase = "abort" THEN "invalid" ELSE "valid"

\* What becomes of a record whose header is rewritten.
NewState(s) ==
    CASE phase \in {"migrated", "flushed"} -> "valid"
      [] phase = "retire" -> "invalid"
      [] phase = "finalize" ->
            IF s = match THEN "valid" ELSE "invalid"
      [] phase = "commit" /\ upd.ok ->
            IF copy[s].st = "pending" THEN "valid" ELSE "invalid"
      [] OTHER -> IF copy[s].st = "pending" THEN "invalid" ELSE "valid"

Marked(r, st) == IF st = "invalid" THEN Invalid ELSE [r EXCEPT !.st = st]

WriteHeader ==
    /\ phase \in HeaderPhases /\ todo # {}
    /\ LET s == Min(todo)
       IN  /\ flash' = [flash EXCEPT ![s] = Marked(@, NewState(s))]
           /\ copy' = [copy EXCEPT ![s] = Marked(@, NewState(s))]
           /\ todo' = todo \ {s}
    /\ UNCHANGED <<store, phase, deferred, upd, err, faults, trust, match, others>>

(***************************************************************************)
(* One variable write: the hash of the store as it will be is written as a *)
(* pending record, the variable is written, the store is hashed again.     *)
(***************************************************************************)
\* While no record has been written yet, updates are not measured.
UpdateDeferred ==
    /\ phase = "idle" /\ deferred
    /\ store' \in Content
    /\ UNCHANGED <<flash, copy, phase, deferred, upd, todo, err, faults, trust, match, others>>

\* The hash is worked out before the store is written, and may be wrong
\* (an append, for example, that repeats what the variable holds).
PreSet(new, guess) ==
    /\ phase = "idle" /\ ~deferred /\ ~TooMany(copy)
    /\ LET dirty == ~MatchesValidRecord(copy, guess)
       IN  /\ upd' = [new |-> new, guess |-> guess, ok |-> FALSE, dirty |-> dirty]
           /\ phase' = IF dirty THEN "pre" ELSE "store"
    /\ trust' = IF trust = "strained" THEN "lost" ELSE trust
    /\ UNCHANGED <<flash, copy, store, deferred, todo, err, faults, match, others>>

SetVariable ==
    /\ phase = "store"
    /\ phase' = "post"
    /\ \/ /\ store' = upd.new
          /\ upd' = [upd EXCEPT !.ok = TRUE]
          /\ trust' = IF ~upd.dirty /\ upd.new # upd.guess THEN "lost" ELSE trust
       \/ UNCHANGED <<store, upd, trust>>
    /\ UNCHANGED <<flash, copy, deferred, todo, err, faults, match, others>>

PostSet ==
    /\ phase = "post"
    /\ \/ ~upd.dirty /\ GoTo("idle")
       \/ upd.dirty /\ ~upd.ok /\ RewriteHeaders("commit", copy, upd)
       \/ /\ upd.dirty /\ upd.ok
          /\ RewriteHeaders(IF store = upd.guess THEN "commit" ELSE "abort", copy, upd)
    /\ UNCHANGED <<flash, copy, store, deferred, faults, trust, match, others>>

\* The record of the guess is invalid; does the old one fit after all?
Unchanged ==
    /\ phase = "correct" /\ ~WritesRecord
    /\ GoTo("idle")
    /\ UNCHANGED <<flash, copy, store, deferred, faults, trust, match, others>>

(***************************************************************************)
(* ReadyToBoot: the first record of a blank partition.                     *)
(***************************************************************************)
ReadyToBoot ==
    /\ phase = "idle" /\ deferred
    /\ phase' = "flush"
    /\ UNCHANGED <<flash, copy, store, deferred, upd, todo, err, faults, trust, match, others>>

(***************************************************************************)
(* The end of a series of header writes.                                   *)
(***************************************************************************)
\* A faulty variant: BootstrapDeferred is not cleared.
StillDeferredAfterFlush == deferred

StillDeferred == deferred /\ ~(phase = "flushed" /\ ~err)

HeadersWritten ==
    /\ phase \in HeaderPhases /\ todo = {}
    /\ \/ phase = "commit" /\ GoTo("idle")
       \/ phase = "abort" /\ GoTo(IF err THEN "idle" ELSE "correct")
       \/ phase = "flushed" /\ GoTo(IF err THEN "dead" ELSE "idle")
       \/ phase = "migrated" /\ ~err /\ OneHeader("retire", match)
       \/ /\ phase = "retire" /\ ~err /\ phase' = "finalize" /\ err' = FALSE
          /\ todo' = others /\ upd' = upd
       \/ phase = "finalize" /\ ~err /\ GoTo("idle")
       \/ phase \in {"migrated", "retire", "finalize"} /\ err /\ GoTo("reject")
    /\ deferred' = StillDeferred
    /\ trust' = IF phase = "finalize" /\ ~err THEN "kept" ELSE trust
    /\ match' = IF phase = "finalize" \/ err THEN 1 ELSE match
    /\ others' = IF phase = "finalize" \/ err THEN {} ELSE others
    /\ UNCHANGED <<flash, copy, store, faults>>

(***************************************************************************)
(* Power on: ValidateFvHeader, and VarIntValidate.                         *)
(***************************************************************************)
PowerOn ==
    /\ phase = "off"
    /\ copy' = flash
    /\ phase' = IF store = NoStore \/ Blank(flash) THEN "reinit" ELSE "validate"
    /\ store' = IF Blank(flash) THEN NoStore ELSE store
    /\ deferred' = FALSE
    /\ trust' = IF trust = "strained" THEN "kept" ELSE trust
    /\ UNCHANGED <<flash, upd, todo, err, faults, match, others>>

\* EraseMeasurementPartition, block after block.
EraseNextBlock ==
    /\ phase \in {"reinit", "wipe"} /\ ~Blank(flash)
    /\ LET b == BlockOf(Min(Slot \ ErasedSlots(flash)))
       IN  flash' = EraseBlock(flash, b) /\ copy' = EraseBlock(copy, b)
    /\ UNCHANGED <<store, phase, deferred, upd, todo, err, faults, trust, match, others>>

\* InitializeFvAndVariableStoreHeaders.
InitStore ==
    /\ phase = "reinit" /\ Blank(flash)
    /\ store' = Fresh /\ phase' = "validate" /\ trust' = "kept"
    /\ UNCHANGED <<flash, copy, deferred, upd, todo, err, faults, match, others>>

\* The headers that FinalizeValidatedRecords has to change.
Unsettled(keep) == {s \in Live(copy) : s # keep \/ copy[s].st = "pending"}

Validate ==
    /\ phase = "validate"
    /\ deferred' = Blank(flash)
    /\ \/ Blank(flash) /\ GoTo("idle") /\ UNCHANGED <<match, others>>
       \/ /\ ~Blank(flash) /\ ~TooMany(copy) /\ MatchesV1(copy, store) # {}
          /\ phase' = "finalize" /\ err' = FALSE /\ upd' = upd
          /\ match' = Min(MatchesV1(copy, store)) /\ others' = {}
          /\ todo' = Unsettled(match')
       \/ /\ ~Blank(flash) /\ ~TooMany(copy) /\ MatchesV1(copy, store) = {}
          /\ MatchesV0(copy, store) # {}
          /\ match' = Min(MatchesV0(copy, store))
          /\ others' = Live(copy) \ {match'}
          /\ GoTo("migrate")
       \/ /\ ~Blank(flash)
          /\ \/ TooMany(copy)
             \/ MatchesV1(copy, store) = {} /\ MatchesV0(copy, store) = {}
          /\ GoTo("reject") /\ UNCHANGED <<match, others>>
    /\ UNCHANGED <<flash, copy, store, faults, trust>>

\* HandleVarIntFailure, which first makes the store unusable.
Reject ==
    /\ phase = "reject"
    /\ IF AssertOnFail THEN phase' = "dead" /\ UNCHANGED store
                       ELSE phase' = "wipe" /\ store' = NoStore
    /\ UNCHANGED <<flash, copy, deferred, upd, todo, err, faults, trust, match, others>>

Wiped ==
    /\ phase = "wipe" /\ Blank(flash)
    /\ phase' = "refused"
    /\ UNCHANGED <<flash, copy, store, deferred, upd, todo, err, faults, trust, match, others>>

\* DefaultVariableDxe finds VarIntCheckFailed and resets the machine.
Restart ==
    /\ phase = "refused"
    /\ phase' = "off"
    /\ UNCHANGED <<flash, copy, store, deferred, upd, todo, err, faults, trust, match, others>>

(***************************************************************************)
(* What goes wrong.                                                        *)
(***************************************************************************)
FaultAllowed == faults < MaxFaults

\* The old record measures the store no longer, and none measures it yet.
GuessWasWrong ==
    /\ phase \in {"post", "abort", "correct"}
    /\ upd.ok /\ upd.dirty /\ store # upd.guess

\* A migration of two old records: a third record is one too many, and the
\* block erased for it may hold the record that is migrated.
TwoOldRecords ==
    \/ phase \in {"migrated", "retire"} /\ TooMany(copy)
    \/ phase = "migrate" /\ MatchesV0(copy, store) = {}

Unmeasured == GuessWasWrong \/ TwoOldRecords

CutShort(p) == [p EXCEPT ![NextSlot] = Programmed(@, Record(1, "pending", Garbage))]

\* Power is lost, or the machine is reset, between two writes or in one.
PowerLoss ==
    /\ phase # "off"
    /\ phase' = "off" /\ todo' = {} /\ err' = FALSE /\ upd' = NoUpdate
    /\ match' = 1 /\ others' = {}
    /\ \/ /\ flash' = flash
          /\ trust' = IF Unmeasured THEN "lost" ELSE trust
       \/ /\ WritesRecord /\ ~MustErase
          /\ flash' = CutShort(flash)
          /\ trust' = IF Unmeasured \/ phase = "flush" \/ TooMany(flash')
                      THEN "lost" ELSE trust
    /\ copy' = Empty
    /\ UNCHANGED <<store, deferred, faults>>

Strained == IF trust = "lost" THEN "lost" ELSE "strained"

\* The erase or the write of a record fails, or only its header gets written.
\* After some of these failures the code rewrites headers once more
\* (InvalidateLast with EFI_ABORTED); that is left out.
WriteRecordFails ==
    /\ FaultAllowed /\ faults' = faults + 1
    /\ WritesRecord
    /\ \/ /\ flash' = flash
          /\ trust' = IF phase \in {"correct", "migrate"} THEN "lost" ELSE trust
       \/ /\ ~MustErase /\ flash' = CutShort(flash)
          /\ trust' = IF phase = "pre" THEN Strained ELSE "lost"
    /\ GoTo(CASE phase \in {"pre", "correct"} -> "idle"
              [] phase = "flush" -> "dead"
              [] phase = "migrate" -> "reject")
    /\ UNCHANGED <<copy, store, deferred, match, others>>

\* A header cannot be written; the series goes on, but a migration ends.
WriteHeaderFails ==
    /\ FaultAllowed /\ faults' = faults + 1
    /\ phase \in HeaderPhases /\ todo # {}
    /\ err' = TRUE
    /\ todo' = IF phase \in {"migrated", "retire"} THEN {} ELSE todo \ {Min(todo)}
    /\ trust' = IF phase \in {"commit", "flushed"} THEN Strained ELSE "lost"
    /\ UNCHANGED <<flash, copy, store, phase, deferred, upd, match, others>>

\* The store cannot be hashed again: the pending record is dropped.
PostComputeFails ==
    /\ FaultAllowed /\ faults' = faults + 1
    /\ phase = "post" /\ upd.dirty /\ upd.ok
    /\ RewriteHeaders("commit", copy, [upd EXCEPT !.ok = FALSE])
    /\ trust' = "lost"
    /\ UNCHANGED <<flash, copy, store, deferred, match, others>>

(***************************************************************************)
(* The specification.  An earlier version of the driver may have left its  *)
(* records, one of them in the middle of an update; a blank partition is   *)
(* that of a store that was never measured.                                *)
(***************************************************************************)
\* A valid record at i; an update that was cut short at j, if that is not i.
OldRecords(c, d, i, j) ==
    [s \in Slot |-> IF s = i THEN Record(0, "valid", c)
                    ELSE IF s = j THEN Record(0, "pending", d)
                    ELSE IF s < j THEN Invalid ELSE Erased]

Init ==
    /\ \/ flash = Empty /\ store \in Content \union {NoStore} /\ deferred = TRUE
       \/ /\ \E c, d \in Content, i, j \in Slot :
                /\ i <= j /\ flash = OldRecords(c, d, i, j)
                /\ store \in {c, d} /\ MatchesV0(flash, store) # {}
          /\ deferred = FALSE
    /\ copy = Empty /\ phase = "off" /\ upd = NoUpdate
    /\ match = 1 /\ others = {}
    /\ todo = {} /\ err = FALSE /\ faults = 0 /\ trust = "kept"

Work ==
    \/ EraseForRecord \/ WriteRecord \/ WriteHeader \/ HeadersWritten
    \/ SetVariable \/ PostSet \/ Unchanged
    \/ PowerOn \/ EraseNextBlock \/ InitStore \/ Validate
    \/ Reject \/ Wiped \/ Restart

Fault == WriteRecordFails \/ WriteHeaderFails \/ PostComputeFails

Next ==
    \/ Work \/ ReadyToBoot \/ UpdateDeferred
    \/ \E new, guess \in Content : PreSet(new, guess)
    \/ PowerLoss \/ Fault

Spec == Init /\ [][Next]_vars

\* The driver runs to the end of every call, and the boot writes variables
\* finitely often before it signals ReadyToBoot.
FairSpec == Spec /\ WF_vars(Work) /\ SF_vars(ReadyToBoot)
=============================================================================
