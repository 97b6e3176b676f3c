---------------------------- MODULE VarIntProofs ----------------------------
(***************************************************************************)
(* For every number of blocks and of records per block, and every set of   *)
(* contents: the variables have their types, and as long as the flash      *)
(* works and the partition is not of the old format, a store that only the *)
(* driver wrote is accepted at the next boot, wherever the power was lost, *)
(* and between updates one valid record measures it.                       *)
(*                                                                         *)
(* The invariant says, for every phase, which live records there are.      *)
(* Outside an update it is one valid record v (Settled); the record of the *)
(* guess joins it as a pending record p (Pair); then the headers are       *)
(* rewritten one at a time, so that p replaces v (Promoting) or p goes     *)
(* (Demoting).  Two facts about the layout carry the erasures: an erased   *)
(* first record means an erased block, so a block is erased for a record   *)
(* only when no record is left; and then it is not the block of v.         *)
(***************************************************************************)
EXTENDS VarIntProperties, WellFoundedInduction, TLAPS

\* Min of a set of numbers that is not empty is its smallest element.
LEMMA SmallestIn ==
    ASSUME NEW T, T \subseteq Nat, T # {}
    PROVE  Min(T) \in T /\ \A y \in T : Min(T) <= y
<1> DEFINE Less == {ss \in Nat \X Nat : ss[1] < ss[2]}
<1>1. IsWellFoundedOn(Less, Nat)
  BY NatLessThanWellFounded DEF OpToRel
<1>2. \A a, b \in Nat : a < b => <<a, b>> \in Less
  <2> TAKE a, b \in Nat
  <2> HAVE a < b
  <2>1. <<a, b>> \in Nat \X Nat OBVIOUS
  <2> QED BY <2>1
<1> HIDE DEF Less
<1>3. PICK x \in T : \A y \in T : ~(<<y, x>> \in Less)
  BY <1>1, WFMin, Zenon
<1>4. x \in Nat /\ \A y \in T : y \in Nat /\ ~(y < x)
  BY <1>3, <1>2, Zenon
<1>5. \A y \in T : x <= y
  BY <1>4
<1> QED
  BY <1>5 DEF Min

\* The first record of a block comes before the others.
LEMMA FirstOfBlock ==
    ASSUME NEW s \in Slot, NEW n \in Slot, StartsBlock(s), BlockOf(s) = BlockOf(n)
    PROVE  s <= n
<1>1. PerBlock \in Nat /\ PerBlock >= 2 /\ s - 1 \in Nat /\ n - 1 \in Nat
  BY VarIntAssumption DEF Slot, NumSlots
<1>2. \A a \in Nat, p \in Nat : p >= 2 =>
          a = (p * (a \div p)) + (a % p) /\ (a % p) >= 0 /\ (a % p) \in Int
  OBVIOUS
<1>3. (s - 1) = (PerBlock * ((s - 1) \div PerBlock)) + ((s - 1) % PerBlock)
  BY <1>1, <1>2
<1>4. /\ (n - 1) = (PerBlock * ((n - 1) \div PerBlock)) + ((n - 1) % PerBlock)
      /\ ((n - 1) % PerBlock) >= 0
  BY <1>1, <1>2
<1> QED BY <1>1, <1>3, <1>4 DEF StartsBlock, Slot, BlockOf

\* NextSlot, and the next header to be rewritten, are records.
LEMMA SmallestSlot ==
    ASSUME NEW T, T \subseteq Slot, T # {}
    PROVE  Min(T) \in T /\ Min(T) \in Slot /\ \A y \in T : Min(T) <= y
<1>1. Slot \subseteq Nat
  BY VarIntAssumption DEF Slot, NumSlots
<1> QED
  BY <1>1, SmallestIn

\* Erased and invalid records are records; there is a first one.
LEMMA ConstantTypes ==
    /\ Record(1, "erased", Garbage) \in RecordType
    /\ Empty \in [Slot -> RecordType] /\ Invalid \in RecordType
    /\ NoUpdate \in [new : Content, guess : Content, ok : BOOLEAN, dirty : BOOLEAN]
    /\ 1 \in Slot
<1>1. NumSlots \in Nat /\ NumSlots >= 1
  BY VarIntAssumption DEF NumSlots
<1> QED
  BY <1>1, VarIntAssumption DEF Record, RecordType, Empty, Erased, Invalid, NoUpdate, Slot

\* A store is there except while it is made anew.
StoreThere == phase \notin {"off", "reinit", "wipe", "refused"} => store \in Content

Typed == TypeOK /\ StoreThere

\* A record is written where the copy of the partition is erased.
LEMMA NextSlotErased ==
    ASSUME TypeOK, ~MustErase
    PROVE  NextSlot \in Slot /\ copy[NextSlot].st = "erased"
<1>1. ErasedSlots(copy) # {} /\ ErasedSlots(copy) \subseteq Slot
  BY DEF MustErase, ErasedSlots
<1>2. NextSlot \in ErasedSlots(copy)
  BY <1>1, SmallestSlot DEF NextSlot
<1> QED
  BY <1>2 DEF ErasedSlots

\* An erased block holds records.
LEMMA EraseType ==
    ASSUME NEW p \in [Slot -> RecordType], NEW b
    PROVE  EraseBlock(p, b) \in [Slot -> RecordType]
BY ConstantTypes DEF EraseBlock, Erased

\* The types hold in the initial states.
LEMMA TypeInit == Init => Typed
<1> SUFFICES ASSUME Init PROVE Typed
  OBVIOUS
<1>1. flash \in [Slot -> RecordType]
  <2>1. CASE flash = Empty
    BY <2>1, ConstantTypes
  <2>2. CASE flash # Empty
    <3>1. PICK c \in Content, d \in Content, i \in Slot, j \in Slot : flash = OldRecords(c, d, i, j)
      BY <2>2 DEF Init
    <3> QED
      BY <3>1, ConstantTypes DEF OldRecords, Record, RecordType, Erased
  <2> QED BY <2>1, <2>2
<1>2. store \in Content \union {NoStore} /\ deferred \in BOOLEAN
  BY DEF Init
<1>3. phase = "off" /\ phase \in Phases /\ trust = "kept" /\ faults \in 0 .. MaxFaults
  BY VarIntAssumption DEF Init, Phases
<1>4. copy \in [Slot -> RecordType] /\ match \in Slot /\ todo = {} /\ others = {} /\ err = FALSE
      /\ upd = NoUpdate
  BY ConstantTypes DEF Init
<1> QED
  BY <1>1, <1>2, <1>3, <1>4, ConstantTypes DEF Typed, TypeOK, StoreThere

\* WriteHeader preserves the types.
LEMMA WriteHeaderType ==
    ASSUME Typed, WriteHeader PROVE Typed'
<1> DEFINE s == Min(todo)
<1>1. s \in Slot /\ s \in todo
  BY SmallestSlot DEF Typed, TypeOK, WriteHeader
<1>2. NewState(s) \in {"pending", "valid", "invalid"}
  BY DEF NewState
<1>3. \A r \in RecordType : Marked(r, NewState(s)) \in RecordType
  BY <1>2, ConstantTypes DEF Marked, RecordType
<1> HIDE DEF s
<1>4. /\ flash' = [flash EXCEPT ![s] = Marked(flash[s], NewState(s))]
      /\ copy' = [copy EXCEPT ![s] = Marked(copy[s], NewState(s))]
      /\ todo' = todo \ {s}
  BY DEF WriteHeader, s
<1>5. flash' \in [Slot -> RecordType] /\ copy' \in [Slot -> RecordType]
  BY <1>1, <1>3, <1>4 DEF Typed, TypeOK
<1> QED
  BY <1>4, <1>5 DEF Typed, TypeOK, StoreThere, WriteHeader

\* Writing a record gives a record, also over one that was cut short.
LEMMA ProgrammedType ==
    ASSUME NEW r \in RecordType, NEW n \in RecordType
    PROVE  Programmed(r, n) \in RecordType
BY DEF Programmed, RecordType

\* A partition in which a record is written is a partition.
LEMMA WrittenType ==
    ASSUME NEW p \in [Slot -> RecordType], NEW s, NEW r \in RecordType
    PROVE  [p EXCEPT ![s] = Programmed(p[s], r)] \in [Slot -> RecordType]
<1>1. CASE s \in Slot
  BY <1>1, ProgrammedType
<1>2. CASE s \notin Slot
  BY <1>2
<1> QED BY <1>1, <1>2

\* The start of a series of header writes preserves the types.
LEMMA RewriteType ==
    ASSUME NEW w \in {"commit", "abort"}, NEW p,
           NEW u \in [new : Content, guess : Content, ok : BOOLEAN, dirty : BOOLEAN],
           RewriteHeaders(w, p, u)
    PROVE  /\ phase' \in {"idle", "commit", "abort"} /\ todo' \subseteq Slot /\ err' \in BOOLEAN
           /\ upd' \in [new : Content, guess : Content, ok : BOOLEAN, dirty : BOOLEAN]
BY ConstantTypes DEF RewriteHeaders, Live

\* WriteRecord preserves the types.
LEMMA WriteRecordType ==
    ASSUME Typed, WriteRecord PROVE Typed'
<1> USE DEF Typed
<1>1. NextSlot \in Slot
  BY NextSlotErased DEF WriteRecord
<1> DEFINE new == Record(1, "pending", Measurement)
<1>2. new \in RecordType
  BY DEF Record, RecordType, Measurement, WriteRecord, WritesRecord, TypeOK, StoreThere, RecordPhases
<1>3. flash' = [flash EXCEPT ![NextSlot] = Programmed(flash[NextSlot], new)]
  BY DEF WriteRecord
<1>4. copy' = [copy EXCEPT ![NextSlot] = new]
  BY DEF WriteRecord
<1> HIDE DEF new
<1>5. flash' \in [Slot -> RecordType] /\ copy' \in [Slot -> RecordType]
  BY <1>1, <1>2, <1>3, <1>4, WrittenType DEF TypeOK
<1>6. /\ phase' \in {"store", "idle", "commit", "flushed", "migrated"} /\ todo' \subseteq Slot /\ err' \in BOOLEAN
      /\ upd' \in [new : Content, guess : Content, ok : BOOLEAN, dirty : BOOLEAN]
  <2>1. CASE phase = "correct" /\ RewriteHeaders("commit", copy', upd)
    BY <2>1, ConstantTypes DEF RewriteHeaders, Live, TypeOK
  <2>2. CASE phase = "pre" /\ GoTo("store")
    BY <2>2, ConstantTypes DEF GoTo, TypeOK
  <2>3. CASE \/ phase = "flush" /\ OneHeader("flushed", NextSlot)
             \/ phase = "migrate" /\ OneHeader("migrated", NextSlot)
    BY <2>3, <1>1 DEF OneHeader, TypeOK
  <2> QED BY <2>1, <2>2, <2>3 DEF WriteRecord
<1>7. phase' \in Phases
  BY <1>6 DEF Phases, HeaderPhases
<1>8. store \in Content
  BY DEF WriteRecord, WritesRecord, RecordPhases, StoreThere
<1> QED
  BY <1>5, <1>6, <1>7, <1>8 DEF TypeOK, StoreThere, WriteRecord

\* EraseForRecord preserves the types.
LEMMA EraseForRecordType ==
    ASSUME Typed, EraseForRecord PROVE Typed'
BY EraseType DEF Typed, TypeOK, StoreThere, EraseForRecord

\* EraseNextBlock preserves the types.
LEMMA EraseNextBlockType ==
    ASSUME Typed, EraseNextBlock PROVE Typed'
<1>1. flash' \in [Slot -> RecordType] /\ copy' \in [Slot -> RecordType]
  BY EraseType DEF Typed, TypeOK, EraseNextBlock
<1> QED
  BY <1>1 DEF Typed, TypeOK, StoreThere, EraseNextBlock

\* Validate preserves the types.
LEMMA ValidateType ==
    ASSUME Typed, Validate PROVE Typed'
<1> USE DEF Typed
<1>1. MatchesV1(copy, store) \subseteq Slot /\ MatchesV0(copy, store) \subseteq Slot
      /\ Live(copy) \subseteq Slot
  BY DEF MatchesV1, MatchesV0, Live
<1>2. deferred' \in BOOLEAN
  BY DEF Validate, Blank
<1>3. /\ phase' \in {"idle", "finalize", "migrate", "reject"} /\ err' \in BOOLEAN
      /\ match' \in Slot /\ todo' \subseteq Slot /\ others' \subseteq Slot
      /\ upd' \in [new : Content, guess : Content, ok : BOOLEAN, dirty : BOOLEAN]
  <2>1. CASE Blank(flash) /\ GoTo("idle") /\ UNCHANGED <<match, others>>
    BY <2>1, ConstantTypes DEF GoTo, TypeOK
  <2>2. CASE /\ ~Blank(flash) /\ ~TooMany(copy) /\ MatchesV1(copy, store) # {}
             /\ phase' = "finalize" /\ err' = FALSE /\ upd' = upd
             /\ match' = Min(MatchesV1(copy, store)) /\ others' = {}
             /\ todo' = Unsettled(match')
    <3>1. match' \in Slot BY <1>1, <2>2, SmallestSlot
    <3>2. todo' \subseteq Slot BY <1>1, <2>2 DEF Unsettled
    <3> QED BY <2>2, <3>1, <3>2 DEF TypeOK
  <2>3. CASE /\ ~Blank(flash) /\ ~TooMany(copy) /\ MatchesV1(copy, store) = {}
             /\ MatchesV0(copy, store) # {}
             /\ match' = Min(MatchesV0(copy, store))
             /\ others' = Live(copy) \ {match'}
             /\ GoTo("migrate")
    <3>1. match' \in Slot BY <1>1, <2>3, SmallestSlot
    <3> QED BY <1>1, <2>3, <3>1, ConstantTypes DEF GoTo, TypeOK
  <2>4. CASE GoTo("reject") /\ UNCHANGED <<match, others>>
    BY <2>4, ConstantTypes DEF GoTo, TypeOK
  <2> QED BY <2>1, <2>2, <2>3, <2>4 DEF Validate
<1>4. phase' \in Phases
  BY <1>3 DEF Phases, HeaderPhases, RecordPhases
<1> QED
  BY <1>2, <1>3, <1>4 DEF Validate, TypeOK, StoreThere

\* HeadersWritten preserves the types.
LEMMA HeadersWrittenType ==
    ASSUME Typed, HeadersWritten PROVE Typed'
<1> USE DEF Typed
<1>1. /\ phase' \in {"idle", "correct", "dead", "retire", "finalize", "reject"} /\ todo' \subseteq Slot
      /\ err' \in BOOLEAN
      /\ upd' \in [new : Content, guess : Content, ok : BOOLEAN, dirty : BOOLEAN]
  BY ConstantTypes DEF HeadersWritten, GoTo, OneHeader, TypeOK
<1>2. phase' \in Phases
  BY <1>1 DEF Phases, HeaderPhases, RecordPhases
<1>3. deferred' \in BOOLEAN /\ match' \in Slot /\ others' \subseteq Slot /\ trust' \in {"kept", "strained", "lost"}
  BY ConstantTypes DEF HeadersWritten, StillDeferred, TypeOK
<1>4. phase \notin {"off", "reinit", "wipe", "refused"}
  BY DEF HeadersWritten, HeaderPhases
<1> QED
  BY <1>1, <1>2, <1>3, <1>4 DEF HeadersWritten, TypeOK, StoreThere

\* A partition in which a record was cut short is a partition.
LEMMA CutShortType ==
    ASSUME TypeOK PROVE CutShort(flash) \in [Slot -> RecordType]
<1>1. Record(1, "pending", Garbage) \in RecordType
  BY DEF Record, RecordType
<1> QED
  BY <1>1, WrittenType DEF CutShort, TypeOK

\* A loss of power preserves the types.
LEMMA PowerLossType ==
    ASSUME Typed, PowerLoss PROVE Typed'
<1>1. flash' \in [Slot -> RecordType]
  BY CutShortType DEF PowerLoss, Typed, TypeOK
<1>2. trust' \in {"kept", "strained", "lost"}
  BY DEF PowerLoss, Typed, TypeOK
<1> QED
  BY <1>1, <1>2, ConstantTypes DEF PowerLoss, Typed, TypeOK, StoreThere, Phases

\* The steps of a variable write and of ReadyToBoot preserve the types.
LEMMA UpdateType ==
    ASSUME Typed,
           \/ SetVariable \/ PostSet \/ Unchanged \/ UpdateDeferred \/ ReadyToBoot
           \/ \E new, guess \in Content : PreSet(new, guess)
    PROVE  Typed'
<1> USE DEF Typed
<1>1. CASE \E new, guess \in Content : PreSet(new, guess)
  <2>1. PICK new \in Content, guess \in Content : PreSet(new, guess) BY <1>1
  <2>2. (~MatchesValidRecord(copy, guess)) \in BOOLEAN BY DEF MatchesValidRecord
  <2> QED BY <2>1, <2>2 DEF PreSet, TypeOK, StoreThere, Phases, RecordPhases
<1>2. CASE SetVariable
  BY <1>2 DEF SetVariable, TypeOK, StoreThere, Phases
<1>3. CASE PostSet
  <2>1. /\ phase' \in {"idle", "commit", "abort"} /\ todo' \subseteq Slot /\ err' \in BOOLEAN
        /\ upd' \in [new : Content, guess : Content, ok : BOOLEAN, dirty : BOOLEAN]
    <3>1. CASE GoTo("idle") BY <3>1, ConstantTypes DEF GoTo
    <3>2. CASE ~GoTo("idle")
      BY <1>3, <3>2, RewriteType DEF PostSet, TypeOK
    <3> QED BY <3>1, <3>2
  <2>2. phase' \in Phases BY <2>1 DEF Phases, HeaderPhases
  <2>3. store \in Content BY <1>3 DEF PostSet, StoreThere
  <2> QED BY <1>3, <2>1, <2>2, <2>3 DEF PostSet, TypeOK, StoreThere
<1>4. CASE Unchanged
  BY <1>4, ConstantTypes DEF Unchanged, GoTo, TypeOK, StoreThere, Phases
<1>5. CASE UpdateDeferred
  BY <1>5 DEF UpdateDeferred, TypeOK, StoreThere
<1>6. CASE ReadyToBoot
  BY <1>6 DEF ReadyToBoot, TypeOK, StoreThere, Phases, RecordPhases
<1> QED BY <1>1, <1>2, <1>3, <1>4, <1>5, <1>6

\* The other steps of a boot preserve the types.
LEMMA BootType ==
    ASSUME Typed, PowerOn \/ InitStore \/ Reject \/ Wiped \/ Restart
    PROVE  Typed'
<1> USE DEF Typed
<1>1. CASE PowerOn
  BY <1>1 DEF PowerOn, TypeOK, StoreThere, Phases
<1>2. CASE InitStore
  BY <1>2, VarIntAssumption DEF InitStore, TypeOK, StoreThere, Phases
<1>3. CASE Reject
  BY <1>3 DEF Reject, TypeOK, StoreThere, Phases
<1>4. CASE Wiped
  BY <1>4 DEF Wiped, TypeOK, StoreThere, Phases
<1>5. CASE Restart
  BY <1>5 DEF Restart, TypeOK, StoreThere, Phases
<1> QED BY <1>1, <1>2, <1>3, <1>4, <1>5

\* The faults of the flash preserve the types.
LEMMA FaultType ==
    ASSUME Typed, Fault PROVE Typed'
<1> USE DEF Typed
<1>1. faults' \in 0 .. MaxFaults
  BY VarIntAssumption DEF Fault, WriteRecordFails, WriteHeaderFails, PostComputeFails, FaultAllowed, TypeOK
<1>2. CASE WriteRecordFails
  <2>1. flash' \in [Slot -> RecordType]
    BY <1>2, CutShortType DEF WriteRecordFails, TypeOK
  <2>2. trust' \in {"kept", "strained", "lost"}
    BY <1>2 DEF WriteRecordFails, Strained, TypeOK
  <2>3. phase \in RecordPhases
    BY <1>2 DEF WriteRecordFails, WritesRecord
  <2>4. phase' \in {"idle", "dead", "reject"} /\ todo' = {} /\ err' = FALSE
        /\ upd' \in [new : Content, guess : Content, ok : BOOLEAN, dirty : BOOLEAN]
    BY <1>2, <2>3, ConstantTypes DEF WriteRecordFails, GoTo, RecordPhases, TypeOK
  <2> QED BY <1>1, <1>2, <2>1, <2>2, <2>3, <2>4 DEF WriteRecordFails, TypeOK, StoreThere, Phases, RecordPhases
<1>3. CASE WriteHeaderFails
  <2>1. todo' \subseteq Slot /\ err' \in BOOLEAN /\ trust' \in {"kept", "strained", "lost"}
    BY <1>3 DEF WriteHeaderFails, Strained, TypeOK
  <2> QED BY <1>1, <1>3, <2>1 DEF WriteHeaderFails, TypeOK, StoreThere
<1>4. CASE PostComputeFails
  <2>1. [upd EXCEPT !.ok = FALSE] \in [new : Content, guess : Content, ok : BOOLEAN, dirty : BOOLEAN]
    BY DEF TypeOK
  <2>2. /\ phase' \in {"idle", "commit", "abort"} /\ todo' \subseteq Slot /\ err' \in BOOLEAN
        /\ upd' \in [new : Content, guess : Content, ok : BOOLEAN, dirty : BOOLEAN]
    BY <1>4, <2>1, RewriteType DEF PostComputeFails
  <2> QED BY <1>1, <1>4, <2>2 DEF PostComputeFails, TypeOK, StoreThere, Phases, HeaderPhases
<1> QED BY <1>2, <1>3, <1>4 DEF Fault

\* Every step preserves the types.
LEMMA TypeStep == Typed /\ [Next]_vars => Typed'
<1> SUFFICES ASSUME Typed, [Next]_vars PROVE Typed'
  OBVIOUS
<1>1. CASE UNCHANGED vars
  BY <1>1 DEF vars, Typed, TypeOK, StoreThere
<1>2. CASE Next
  BY <1>2, EraseForRecordType, WriteRecordType, WriteHeaderType, HeadersWrittenType, UpdateType,
     BootType, EraseNextBlockType, ValidateType, PowerLossType, FaultType DEF Next, Work
<1> QED BY <1>1, <1>2

\* The variables always have their types: each handler of VarIntCheck.c
\* leaves records in the partition and in its copy, and an offset in bounds.
THEOREM TypeCorrect == Spec => []TypeOK
<1>1. Typed => TypeOK BY DEF Typed
<1> QED BY <1>1, TypeInit, TypeStep, PTL DEF Spec

(***************************************************************************)
(* The invariant of a machine whose flash works.                           *)
(***************************************************************************)
\* A block whose first record is erased is erased.
FirstErasedBlank(p) ==
    \A s, t \in Slot :
        StartsBlock(s) /\ BlockOf(t) = BlockOf(s) /\ p[s].st = "erased" => p[t].st = "erased"

\* What holds in every phase.
Base ==
    /\ err = FALSE /\ trust # "strained"
    /\ phase # "off" => copy = flash
    /\ \A s \in Slot : flash[s].ver = 1
    /\ phase \notin {"migrate", "migrated", "retire"}
    /\ FirstErasedBlank(flash)

\* FinalizeValidatedRecords: the match is made valid, the others go.
Finalizing ==
    /\ match \in Live(flash) /\ flash[match].m = store
    /\ ~TooMany(flash)
    /\ match \notin todo => flash[match].st = "valid"
    /\ \A s \in Live(flash) : s # match => s \in todo

\* What the boot and the series of header writes rely on.
Boot ==
    /\ phase \notin {"off", "idle", "flush", "flushed", "dead"} => ~deferred
    /\ phase \in {"idle", "flush"} /\ deferred => Blank(flash)
    /\ phase = "flush" => deferred
    /\ phase \in {"reject", "wipe", "refused", "dead"} => trust = "lost"
    /\ phase \notin HeaderPhases => todo = {}
    /\ \A s \in todo : flash[s].st # "erased"
    /\ phase = "reinit" => store = NoStore
    /\ phase = "validate" /\ Blank(flash) => store = Fresh
    /\ phase = "finalize" => Finalizing

\* One record is live, is valid and measures c.
Settled(v, c) ==
    Live(flash) = {v} /\ flash[v].st = "valid" /\ flash[v].m = c

\* A pending record p of the guess has joined it.
Pair(v, p, c) ==
    /\ v # p /\ Live(flash) = {v, p}
    /\ flash[v].st = "valid" /\ flash[v].m = c
    /\ flash[p].st = "pending" /\ flash[p].m = upd.guess

\* The update succeeded: p becomes valid and v invalid, in any order.
Promoting(v, p) ==
    /\ v # p /\ p \in Live(flash) /\ Live(flash) \subseteq {v, p}
    /\ flash[p].m = store
    /\ flash[p].st = IF p \in todo THEN "pending" ELSE "valid"
    /\ v \in Live(flash) => v \in todo /\ flash[v].st = "valid"
    /\ todo \subseteq Live(flash)

\* The update failed, or the guess was wrong: p becomes invalid.
Demoting(v, p, c) ==
    /\ v # p /\ v \in Live(flash) /\ Live(flash) \subseteq {v, p}
    /\ flash[v].st = "valid" /\ flash[v].m = c
    /\ p \in Live(flash) => p \in todo /\ flash[p].st = "pending"
    /\ todo \subseteq Live(flash)

\* VarIntValidate will accept the store, or ValidateFvHeader makes it anew.
Acceptable ==
    \/ store = NoStore
    \/ Blank(flash) /\ (deferred \/ store = Fresh)
    \/ ~TooMany(flash) /\ MatchesV1(flash, store) # {}

\* The live records of each phase.
Kept ==
    /\ phase = "off" => Acceptable
    /\ phase = "validate" => Blank(flash) \/ (~TooMany(flash) /\ MatchesV1(flash, store) # {})
    /\ phase = "idle" /\ ~deferred => \E v \in Slot : Settled(v, store)
    /\ phase = "pre" => upd.dirty /\ ~upd.ok /\ \E v \in Slot : Settled(v, store)
    /\ phase = "store" =>
          /\ ~upd.ok
          /\ upd.dirty => \E v, p \in Slot : Pair(v, p, store)
          /\ ~upd.dirty => store = upd.guess /\ \E v \in Slot : Settled(v, store)
    /\ phase = "post" =>
          /\ upd.dirty /\ ~upd.ok => \E v, p \in Slot : Pair(v, p, store)
          /\ upd.dirty /\ upd.ok => \E v, p \in Slot, c \in Content \union {Garbage} : Pair(v, p, c)
          /\ ~upd.dirty => \E v \in Slot : Settled(v, store)
    /\ phase = "commit" =>
          /\ upd.ok => \E v, p \in Slot : Promoting(v, p)
          /\ ~upd.ok => \E v, p \in Slot : Demoting(v, p, store)
    /\ phase = "abort" =>
          /\ upd.ok /\ upd.dirty /\ store # upd.guess
          /\ \E v, p \in Slot, c \in Content \union {Garbage} : Demoting(v, p, c)
    /\ phase = "correct" =>
          /\ upd.ok /\ upd.dirty /\ store # upd.guess
          /\ \E v \in Slot, c \in Content \union {Garbage} : Settled(v, c)
    /\ phase = "flushed" => \E s \in Slot :
          /\ Live(flash) = {s} /\ flash[s].m = store
          /\ todo \subseteq {s} /\ (s \notin todo => flash[s].st = "valid")

\* While the flash works.
Sound == Base /\ Boot /\ (trust = "kept" => Kept)

\* The inductive invariant.
IInv == Typed /\ (faults = 0 => Sound)

\* Two live records are not too many.
LEMMA TwoNotTooMany ==
    ASSUME NEW p, NEW a, NEW b, Live(p) \subseteq {a, b}
    PROVE  ~TooMany(p)
BY DEF TooMany

\* A live record that is written is one more.
LEMMA LiveOfWritten ==
    ASSUME NEW p \in [Slot -> RecordType], NEW n \in Slot, NEW r \in RecordType, IsLive(r)
    PROVE  Live([p EXCEPT ![n] = r]) = Live(p) \union {n}
BY DEF Live

\* The last valid record, when there is only one.
LEMMA OnlyIsLargest == ASSUME NEW n \in Slot PROVE Max({n}) = n
<1>1. n \in Int /\ n <= n
  BY VarIntAssumption DEF Slot, NumSlots
<1> QED BY <1>1 DEF Max

\* An erase for a record comes only when no record is erased, and then it
\* spares the block of the only valid record.
LEMMA EraseSparesValid ==
    ASSUME Typed, Base, phase # "off", MustErase,
           NEW v \in Slot, flash[v].st = "valid", \A s \in Slot : flash[s].st = "valid" => s = v
    PROVE  BlockOf(v) # BlockToErase(copy)
<1>0. copy = flash
  BY DEF Base
<1>1. ErasedSlots(copy) = {}
  <2> SUFFICES ASSUME ErasedSlots(copy) # {} PROVE FALSE
    OBVIOUS
  <2>1. NextSlot \in ErasedSlots(copy)
    BY SmallestSlot DEF NextSlot, ErasedSlots
  <2>2. PICK s \in Slot : BlockOf(s) = BlockOf(NextSlot) /\ flash[s].st # "erased"
    BY DEF MustErase
  <2>3. StartsBlock(NextSlot) BY DEF MustErase
  <2> QED BY <1>0, <2>1, <2>2, <2>3 DEF ErasedSlots, Base, FirstErasedBlank
<1>2. ValidSlots(copy) = {v}
  BY <1>0 DEF ValidSlots
<1>3. Max(ValidSlots(copy)) = v
  BY <1>2, OnlyIsLargest
<1>4. BlockToErase(copy) = IF BlockOf(v) = NumBlocks - 1 THEN 0 ELSE BlockOf(v) + 1
  BY <1>1, <1>2, <1>3 DEF BlockToErase
<1>5. BlockOf(v) \in Int
  BY VarIntAssumption DEF BlockOf, Slot, NumSlots
<1> QED BY <1>4, <1>5, VarIntAssumption

\* An erase leaves an erased first record only in an erased block.
LEMMA FirstErasedAfterErase ==
    ASSUME NEW p \in [Slot -> RecordType], FirstErasedBlank(p), NEW b
    PROVE  FirstErasedBlank(EraseBlock(p, b))
BY DEF FirstErasedBlank, EraseBlock, Erased, Record

\* So does a write to the first erased record.
LEMMA FirstErasedAfterWrite ==
    ASSUME NEW p \in [Slot -> RecordType], FirstErasedBlank(p),
           NEW n \in Slot, NEW r, r.st # "erased",
           \A s \in Slot : p[s].st = "erased" => n <= s
    PROVE  FirstErasedBlank([p EXCEPT ![n] = r])
<1> SUFFICES ASSUME NEW s \in Slot, NEW t \in Slot, StartsBlock(s), BlockOf(t) = BlockOf(s),
                    [p EXCEPT ![n] = r][s].st = "erased"
             PROVE  [p EXCEPT ![n] = r][t].st = "erased"
  BY DEF FirstErasedBlank
<1>1. s # n /\ p[s].st = "erased"
  OBVIOUS
<1>2. n <= s BY <1>1
<1>3. t = n => s <= n
  BY FirstOfBlock
<1>4. s \in Int /\ n \in Int BY VarIntAssumption DEF Slot, NumSlots
<1>5. t # n BY <1>1, <1>2, <1>3, <1>4
<1> QED BY <1>1, <1>5 DEF FirstErasedBlank

\* A header that is rewritten is not erased.
LEMMA FirstErasedAfterMark ==
    ASSUME NEW p \in [Slot -> RecordType], FirstErasedBlank(p),
           NEW n \in Slot, p[n].st # "erased", NEW r, r.st # "erased"
    PROVE  FirstErasedBlank([p EXCEPT ![n] = r])
BY DEF FirstErasedBlank

\* The block that is erased for a record is not that of the valid record.
LEMMA EraseForRecordSound ==
    ASSUME Typed, Sound, EraseForRecord PROVE Sound'
<1> DEFINE b == BlockToErase(copy)
<1>1. /\ flash' = EraseBlock(flash, b) /\ copy' = flash' /\ copy = flash
      /\ flash \in [Slot -> RecordType]
      /\ phase \in {"pre", "correct", "flush"} /\ phase' = phase /\ MustErase
      /\ todo = {}
  BY DEF EraseForRecord, WritesRecord, RecordPhases, HeaderPhases, Sound, Base, Boot, Typed, TypeOK
<1> HIDE DEF b
<1>2. Base'
  <2>1. FirstErasedBlank(flash')
    BY <1>1, FirstErasedAfterErase DEF Sound, Base
  <2>2. \A s \in Slot : flash'[s].ver = 1
    BY <1>1 DEF Sound, Base, EraseBlock, Erased, Record
  <2> QED BY <1>1, <2>1, <2>2 DEF EraseForRecord, Sound, Base
<1>3. Boot'
  <2>1. Blank(flash) => Blank(flash')
    BY <1>1 DEF Blank, EraseBlock, Erased, Record
  <2> QED BY <1>1, <2>1 DEF EraseForRecord, Sound, Boot, HeaderPhases
<1>4. ASSUME NEW v \in Slot, NEW c, Settled(v, c) PROVE Settled(v, c)'
  <2>1. \A s \in Slot : flash[s].st = "valid" => s = v
    BY <1>4 DEF Settled, Live, IsLive
  <2>2. BlockOf(v) # b
    BY <1>1, <1>4, <2>1, EraseSparesValid DEF b, Sound, Settled
  <2>3. flash'[v] = flash[v]
    BY <1>1, <2>2 DEF EraseBlock
  <2>4. Live(flash') = {v}
    BY <1>1, <1>4, <2>3 DEF Settled, Live, IsLive, EraseBlock, Erased, Record
  <2> QED BY <1>4, <2>3, <2>4 DEF Settled
<1>5. trust' = "kept" => Kept'
  <2> SUFFICES ASSUME trust = "kept" PROVE Kept'
    BY DEF EraseForRecord
  <2>1. CASE phase = "pre"
    <3>1. PICK v \in Slot : Settled(v, store) BY <2>1 DEF Sound, Kept
    <3>2. Settled(v, store)' BY <3>1, <1>4 DEF EraseForRecord, Settled
    <3> QED BY <1>1, <2>1, <3>2 DEF Sound, Kept, EraseForRecord
  <2>2. CASE phase = "correct"
    <3>1. PICK v \in Slot, c \in Content \union {Garbage} : Settled(v, c) BY <2>2 DEF Sound, Kept
    <3>2. Settled(v, c)' BY <3>1, <1>4
    <3> QED BY <1>1, <2>2, <3>2 DEF Sound, Kept, EraseForRecord
  <2>3. CASE phase = "flush"
    BY <1>1, <2>3 DEF Kept
  <2> QED BY <1>1, <2>1, <2>2, <2>3
<1> QED BY <1>2, <1>3, <1>5 DEF Sound

\* The new record is live, pending and measures the guess or the store.
LEMMA WriteRecordSound ==
    ASSUME Typed, Sound, WriteRecord PROVE Sound'
<1> DEFINE new == Record(1, "pending", Measurement)
<1>0. copy = flash /\ phase \in {"pre", "correct", "flush"} /\ todo = {} /\ flash \in [Slot -> RecordType]
  BY DEF WriteRecord, WritesRecord, RecordPhases, HeaderPhases, Sound, Base, Boot, Typed, TypeOK
<1>1. PICK n \in Slot : n = NextSlot /\ flash[n].st = "erased"
  BY <1>0, NextSlotErased DEF WriteRecord, Typed
<1>2. \A s \in Slot : flash[s].st = "erased" => n <= s
  BY <1>0, <1>1, SmallestSlot DEF ErasedSlots, NextSlot
<1>3. new \in RecordType /\ IsLive(new) /\ new.ver = 1 /\ new.st = "pending" /\ new.m = Measurement
  BY <1>0 DEF Record, RecordType, Measurement, WriteRecord, WritesRecord, Typed, TypeOK, StoreThere, IsLive
<1>4. flash' = [flash EXCEPT ![n] = new] /\ copy' = flash'
  BY <1>0, <1>1 DEF WriteRecord, Programmed
<1> HIDE DEF new
<1>5. Live(flash') = Live(flash) \union {n} /\ n \notin Live(flash)
      /\ flash'[n] = new /\ \A s \in Live(flash) : flash'[s] = flash[s]
  BY <1>0, <1>1, <1>3, <1>4, LiveOfWritten DEF Live, IsLive
<1>6. FirstErasedBlank(flash') /\ \A s \in Slot : flash'[s].ver = 1
  BY <1>0, <1>1, <1>2, <1>3, <1>4, FirstErasedAfterWrite DEF Sound, Base
<1>7. CASE phase = "pre" /\ GoTo("store")
  <2>1. Base' BY <1>4, <1>6, <1>7 DEF WriteRecord, GoTo, Sound, Base
  <2>2. Boot' BY <1>7 DEF WriteRecord, GoTo, Sound, Boot, HeaderPhases
  <2>3. ASSUME trust = "kept" PROVE Kept'
    <3>1. PICK v \in Slot : Settled(v, store) BY <1>7, <2>3 DEF Sound, Kept
    <3>2. upd.dirty /\ ~upd.ok /\ upd' = upd /\ store' = store /\ phase' = "store"
      BY <1>7, <2>3 DEF Sound, Kept, GoTo, WriteRecord
    <3>3. new.m = upd.guess BY <1>3, <1>7 DEF Measurement
    <3>4. Pair(v, n, store)'
      BY <1>3, <1>5, <3>1, <3>2, <3>3 DEF Settled, Pair
    <3> QED BY <1>1, <3>1, <3>2, <3>4 DEF Kept
  <2> QED BY <2>1, <2>2, <2>3 DEF Sound, WriteRecord
<1>8. CASE phase = "correct" /\ RewriteHeaders("commit", copy', upd)
  <2>1. Base' BY <1>4, <1>6, <1>8 DEF WriteRecord, RewriteHeaders, Sound, Base
  <2>2. Boot'
    <3>1. \A s \in todo' : flash'[s].st # "erased"
      BY <1>4, <1>8 DEF RewriteHeaders, Live, IsLive
    <3>2. ~deferred' BY <1>8 DEF Sound, Boot, WriteRecord
    <3>3. phase' \in {"idle", "commit"} /\ (phase' = "idle" => todo' = {})
      BY <1>8 DEF RewriteHeaders
    <3> QED BY <3>1, <3>2, <3>3 DEF Boot, HeaderPhases
  <2>3. ASSUME trust = "kept" PROVE Kept'
    <3>1. PICK v \in Slot, c \in Content \union {Garbage} : Settled(v, c) BY <1>8, <2>3 DEF Sound, Kept
    <3>2. Live(copy') = {v, n} BY <1>4, <1>5, <3>1 DEF Settled
    <3>3. phase' = "commit" /\ todo' = {v, n} /\ upd' = upd /\ upd.ok /\ store' = store
      BY <1>8, <2>3, <3>2, TwoNotTooMany DEF RewriteHeaders, Sound, Kept, WriteRecord
    <3>4. new.m = store BY <1>3, <1>8 DEF Measurement
    <3>5. Promoting(v, n)'
      BY <1>3, <1>4, <1>5, <3>1, <3>2, <3>3, <3>4 DEF Settled, Promoting
    <3> QED BY <1>1, <3>1, <3>3, <3>5 DEF Kept
  <2> QED BY <2>1, <2>2, <2>3 DEF Sound, WriteRecord
<1>9. CASE phase = "flush" /\ OneHeader("flushed", NextSlot)
  <2>1. Base' BY <1>4, <1>6, <1>9 DEF WriteRecord, OneHeader, Sound, Base
  <2>2. Boot' BY <1>1, <1>3, <1>5, <1>9 DEF WriteRecord, OneHeader, Sound, Boot, HeaderPhases
  <2>3. Live(flash) = {} BY <1>9 DEF Sound, Boot, Blank, Live, IsLive
  <2>4. new.m = store BY <1>3, <1>9 DEF Measurement
  <2>5. Kept'
    BY <1>1, <1>5, <1>9, <2>3, <2>4 DEF Kept, OneHeader, WriteRecord
  <2> QED BY <2>1, <2>2, <2>5 DEF Sound, WriteRecord
<1> QED BY <1>0, <1>7, <1>8, <1>9 DEF WriteRecord

\* One header of a commit, an abort, a repair or of the first record.
LEMMA WriteHeaderSound ==
    ASSUME Typed, Sound, WriteHeader PROVE Sound'
<1>1. PICK s \in Slot : s \in todo /\ s = Min(todo)
  BY SmallestSlot DEF WriteHeader, Typed, TypeOK
<1>2. PICK st \in {"pending", "valid", "invalid"} : st = NewState(s)
  BY DEF NewState
<1>3. /\ copy = flash /\ flash \in [Slot -> RecordType] /\ phase \in {"commit", "abort", "finalize", "flushed"}
      /\ flash[s].st # "erased"
  BY <1>1 DEF WriteHeader, HeaderPhases, Sound, Base, Boot, Typed, TypeOK
<1>4. /\ flash' = [flash EXCEPT ![s] = Marked(flash[s], st)] /\ copy' = flash' /\ todo' = todo \ {s}
      /\ UNCHANGED <<store, phase, deferred, upd, err, trust, match>>
  BY <1>1, <1>2, <1>3 DEF WriteHeader
<1>5. Marked(flash[s], st).st = st /\ (st # "invalid" => Marked(flash[s], st).m = flash[s].m)
      /\ Marked(flash[s], st).ver = 1 /\ st # "pending"
  BY <1>2, <1>3 DEF Marked, Invalid, Record, RecordType, Sound, Base, NewState
<1>6. /\ flash'[s].st = st /\ (st # "invalid" => flash'[s].m = flash[s].m)
      /\ \A t \in Slot : t # s => flash'[t] = flash[t]
  BY <1>3, <1>4, <1>5
<1>7. Live(flash') = IF st = "valid" THEN Live(flash) \union {s} ELSE Live(flash) \ {s}
  BY <1>2, <1>5, <1>6 DEF Live, IsLive
<1>8. Base'
  <2>1. FirstErasedBlank(flash')
    BY <1>2, <1>3, <1>4, <1>5, FirstErasedAfterMark DEF Sound, Base
  <2>2. \A t \in Slot : flash'[t].ver = 1
    BY <1>3, <1>4, <1>5 DEF Sound, Base
  <2> QED BY <1>4, <2>1, <2>2 DEF Sound, Base
<1>9. Boot'
  <2>1. \A t \in todo' : flash'[t].st # "erased"
    BY <1>4, <1>6 DEF Sound, Boot, Typed, TypeOK
  <2>2. phase = "finalize" => Finalizing'
    <3> SUFFICES ASSUME phase = "finalize" PROVE Finalizing'
      OBVIOUS
    <3>1. Finalizing BY DEF Sound, Boot
    <3>2. st = IF s = match THEN "valid" ELSE "invalid"
      BY <1>2 DEF NewState
    <3>3. Live(flash') \subseteq Live(flash) /\ match \in Live(flash') /\ flash'[match].m = store
      BY <1>6, <1>7, <3>1, <3>2 DEF Finalizing, Live
    <3>4. ~TooMany(flash')
      BY <3>1, <3>3 DEF Finalizing, TooMany
    <3>5. match \notin todo' => flash'[match].st = "valid"
      BY <1>4, <1>6, <3>1, <3>2 DEF Finalizing, Live
    <3>6. \A t \in Live(flash') : t # match => t \in todo'
      BY <1>4, <1>7, <3>1, <3>2, <3>3 DEF Finalizing
    <3> QED BY <1>4, <3>3, <3>4, <3>5, <3>6 DEF Finalizing
  <2> QED BY <1>3, <1>4, <2>1, <2>2 DEF Sound, Boot, HeaderPhases
<1>10. ASSUME trust = "kept" PROVE Kept'
  <2>1. CASE phase = "commit" /\ upd.ok
    <3>1. PICK v \in Slot, p \in Slot : Promoting(v, p) BY <1>10, <2>1 DEF Sound, Kept
    <3>2. s \in {v, p} /\ st = IF s = p THEN "valid" ELSE "invalid"
      BY <1>1, <1>2, <1>3, <2>1, <3>1 DEF Promoting, NewState
    <3>3. Live(flash) \subseteq Slot BY DEF Live
    <3>4. ASSUME s = p PROVE Promoting(v, p)'
      <4>1. Live(flash') = Live(flash) BY <1>7, <3>1, <3>2, <3>4 DEF Promoting
      <4>2. \A t \in Slot : t # p => flash'[t] = flash[t] BY <1>6, <3>4
      <4> QED BY <1>4, <1>6, <3>1, <3>2, <3>3, <3>4, <4>1, <4>2 DEF Promoting
    <3>5. ASSUME s = v PROVE Promoting(v, p)'
      <4>1. Live(flash') = Live(flash) \ {v} BY <1>7, <3>1, <3>2, <3>5 DEF Promoting
      <4>2. flash'[p] = flash[p] BY <1>6, <3>1, <3>5 DEF Promoting
      <4> QED BY <1>4, <1>6, <3>1, <3>2, <3>3, <3>5, <4>1, <4>2 DEF Promoting
    <3>6. Promoting(v, p)'
      BY <3>2, <3>4, <3>5
    <3> QED BY <1>4, <2>1, <3>6 DEF Kept
  <2>2. CASE phase = "commit" /\ ~upd.ok
    <3>1. PICK v \in Slot, p \in Slot : Demoting(v, p, store) BY <1>10, <2>2 DEF Sound, Kept
    <3>2. s = v => st = "valid"
      BY <1>2, <1>3, <2>2, <3>1 DEF Demoting, NewState
    <3>3. s = p /\ p \in Live(flash) => st = "invalid"
      BY <1>2, <1>3, <2>2, <3>1 DEF Demoting, NewState
    <3>5. Demoting(v, p, store)'
      BY <1>1, <1>4, <1>6, <1>7, <3>1, <3>2, <3>3, ZenonT(60) DEF Demoting
    <3> QED BY <1>4, <2>2, <3>5 DEF Kept
  <2>3. CASE phase = "abort"
    <3>1. PICK v \in Slot, p \in Slot, c \in Content \union {Garbage} : Demoting(v, p, c)
      BY <1>10, <2>3 DEF Sound, Kept
    <3>2. s = v => st = "valid"
      BY <1>2, <1>3, <2>3, <3>1 DEF Demoting, NewState
    <3>3. s = p /\ p \in Live(flash) => st = "invalid"
      BY <1>2, <1>3, <2>3, <3>1 DEF Demoting, NewState
    <3>5. Demoting(v, p, c)'
      BY <1>1, <1>4, <1>6, <1>7, <3>1, <3>2, <3>3, ZenonT(60) DEF Demoting
    <3> QED BY <1>4, <1>10, <2>3, <3>5 DEF Kept, Sound
  <2>4. CASE phase = "finalize"
    BY <1>4, <2>4 DEF Kept
  <2>5. CASE phase = "flushed"
    <3>1. PICK t \in Slot : Live(flash) = {t} /\ flash[t].m = store /\ todo \subseteq {t}
      BY <1>10, <2>5 DEF Sound, Kept
    <3>2. s = t /\ st = "valid" BY <1>1, <1>2, <2>5, <3>1 DEF NewState
    <3> QED BY <1>4, <1>6, <1>7, <2>5, <3>1, <3>2 DEF Kept
  <2> QED BY <1>3, <2>1, <2>2, <2>3, <2>4, <2>5
<1> QED BY <1>4, <1>8, <1>9, <1>10 DEF Sound

\* After the last header one valid record is left.
LEMMA HeadersWrittenSound ==
    ASSUME Typed, Sound, HeadersWritten PROVE Sound'
<1>1. /\ phase \in {"commit", "abort", "finalize", "flushed"} /\ err = FALSE /\ todo = {}
      /\ UNCHANGED <<flash, copy, store>> /\ copy = flash
  BY DEF HeadersWritten, HeaderPhases, Sound, Base
<1>2. /\ phase' = IF phase = "abort" THEN "correct" ELSE "idle"
      /\ err' = FALSE /\ todo' = {} /\ upd' = IF phase = "abort" THEN upd ELSE NoUpdate
  BY <1>1 DEF HeadersWritten, GoTo
<1>3. ~deferred' /\ trust' = IF phase = "finalize" THEN "kept" ELSE trust
  BY <1>1 DEF HeadersWritten, StillDeferred, Sound, Boot
<1>4. Base'
  BY <1>1, <1>2, <1>3 DEF Sound, Base
<1>5. Boot'
  BY <1>1, <1>2, <1>3 DEF Boot, HeaderPhases
<1>6. ASSUME trust' = "kept" PROVE Kept'
  <2>1. CASE phase = "commit" /\ upd.ok
    <3>1. PICK v \in Slot, p \in Slot : Promoting(v, p) BY <1>3, <1>6, <2>1 DEF Sound, Kept
    <3>2. Settled(p, store)' BY <1>1, <3>1 DEF Promoting, Settled
    <3> QED BY <1>2, <2>1, <3>2 DEF Kept
  <2>2. CASE phase = "commit" /\ ~upd.ok
    <3>1. PICK v \in Slot, p \in Slot : Demoting(v, p, store) BY <1>3, <1>6, <2>2 DEF Sound, Kept
    <3>2. Settled(v, store)' BY <1>1, <3>1 DEF Demoting, Settled
    <3> QED BY <1>2, <2>2, <3>2 DEF Kept
  <2>3. CASE phase = "abort"
    <3>1. PICK v \in Slot, p \in Slot, c \in Content \union {Garbage} : Demoting(v, p, c)
      BY <1>3, <1>6, <2>3 DEF Sound, Kept
    <3>2. Settled(v, c)' BY <1>1, <3>1 DEF Demoting, Settled
    <3>3. upd.ok /\ upd.dirty /\ store # upd.guess BY <1>3, <1>6, <2>3 DEF Sound, Kept
    <3> QED BY <1>1, <1>2, <2>3, <3>2, <3>3 DEF Kept
  <2>4. CASE phase = "finalize"
    <3>1. Finalizing BY <2>4 DEF Sound, Boot
    <3>2. PICK v \in Slot : v = match BY DEF Typed, TypeOK
    <3>3. Settled(v, store)' BY <1>1, <3>1, <3>2 DEF Finalizing, Settled
    <3> QED BY <1>2, <2>4, <3>3 DEF Kept
  <2>5. CASE phase = "flushed"
    <3>1. PICK t \in Slot : Live(flash) = {t} /\ flash[t].m = store /\ flash[t].st = "valid"
      BY <1>1, <1>3, <1>6, <2>5 DEF Sound, Kept
    <3>2. Settled(t, store)' BY <1>1, <3>1 DEF Settled
    <3> QED BY <1>2, <2>5, <3>2 DEF Kept
  <2> QED BY <1>1, <2>1, <2>2, <2>3, <2>4, <2>5
<1> QED BY <1>4, <1>5, <1>6 DEF Sound

\* A guess that a valid record measures is the content of the store.
LEMMA PreSetSound ==
    ASSUME Typed, Sound, NEW new \in Content, NEW guess \in Content, PreSet(new, guess)
    PROVE  Sound'
<1>1. Base' BY DEF PreSet, Sound, Base
<1>2. Boot' BY DEF PreSet, Sound, Boot, HeaderPhases
<1>3. ASSUME trust' = "kept" PROVE Kept'
  <2>1. trust = "kept" BY <1>3 DEF PreSet
  <2>2. PICK v \in Slot : Settled(v, store) BY <2>1 DEF PreSet, Sound, Kept
  <2>3. MatchesValidRecord(copy, guess) => guess = store
    BY <2>2 DEF PreSet, Sound, Base, MatchesValidRecord, MatchesV1, Settled
  <2>4. Settled(v, store)' BY <2>2 DEF PreSet, Settled
  <2>5. ~upd'.ok /\ upd'.guess = guess /\ store' = store
    BY DEF PreSet
  <2>6. CASE MatchesValidRecord(copy, guess)
    BY <2>3, <2>4, <2>5, <2>6 DEF PreSet, Kept
  <2>7. CASE ~MatchesValidRecord(copy, guess)
    <3>1. upd'.dirty = TRUE /\ phase' = "pre" BY <2>7 DEF PreSet
    <3> QED BY <2>4, <2>5, <3>1 DEF Kept
  <2> QED BY <2>6, <2>7
<1> QED BY <1>1, <1>2, <1>3 DEF Sound

\* The write of the store; the old record measures what it held before.
LEMMA SetVariableSound ==
    ASSUME Typed, Sound, SetVariable PROVE Sound'
<1>1. Base' BY DEF SetVariable, Sound, Base, Typed, TypeOK
<1>2. Boot' BY DEF SetVariable, Sound, Boot, HeaderPhases
<1>3. ASSUME trust' = "kept" PROVE Kept'
  <2>1. trust = "kept" BY <1>3 DEF SetVariable
  <2>2. phase' = "post" /\ UNCHANGED flash /\ upd'.guess = upd.guess /\ upd'.dirty = upd.dirty
    BY DEF SetVariable, Typed, TypeOK
  <2>3. CASE upd.dirty
    <3>1. PICK v \in Slot, p \in Slot : Pair(v, p, store)
      BY <2>1, <2>3 DEF SetVariable, Sound, Kept
    <3>3. flash[v].m = store /\ store \in Content
      BY <3>1 DEF Pair, SetVariable, Typed, StoreThere
    <3>4. CASE UNCHANGED <<store, upd, trust>>
      <4>1. Pair(v, p, store)' BY <2>2, <3>1, <3>4 DEF Pair
      <4>2. ~upd'.ok BY <2>1, <3>4 DEF SetVariable, Sound, Kept
      <4> QED BY <2>2, <2>3, <4>1, <4>2 DEF Kept
    <3>5. CASE upd'.ok
      <4>1. PICK c \in Content : c = store BY <3>3
      <4>2. Pair(v, p, c)' BY <2>2, <3>1, <4>1 DEF Pair
      <4> QED BY <2>2, <2>3, <3>5, <4>2 DEF Kept
    <3> QED BY <3>4, <3>5 DEF SetVariable, Typed, TypeOK
  <2>4. CASE ~upd.dirty
    <3>1. PICK v \in Slot : Settled(v, store) BY <2>1, <2>4 DEF SetVariable, Sound, Kept
    <3>2. store' = store BY <1>3, <2>1, <2>4 DEF SetVariable, Sound, Kept
    <3>3. Settled(v, store)' BY <2>2, <3>1, <3>2 DEF Settled
    <3> QED BY <2>2, <2>4, <3>3 DEF Kept
  <2> QED BY <2>3, <2>4
<1> QED BY <1>1, <1>2, <1>3 DEF Sound

\* The headers that are to be rewritten are those of the pair.
LEMMA PostSetSound ==
    ASSUME Typed, Sound, PostSet PROVE Sound'
<1>1. /\ phase' \in {"idle", "commit", "abort"} /\ err' = FALSE /\ copy = flash
      /\ UNCHANGED <<flash, copy, store, deferred, faults, trust, match>> /\ ~deferred
      /\ todo' \subseteq Live(flash) /\ (phase' = "idle" => todo' = {})
  BY DEF PostSet, GoTo, RewriteHeaders, Sound, Base, Boot
<1>2. Base' BY <1>1 DEF Sound, Base
<1>3. Boot'
  <2>1. \A s \in todo' : flash'[s].st # "erased" BY <1>1 DEF Live, IsLive
  <2> QED BY <1>1, <2>1 DEF Boot, HeaderPhases
<1>4. ASSUME trust = "kept" PROVE Kept'
  <2>1. CASE ~upd.dirty
    <3>1. PICK v \in Slot : Settled(v, store) BY <1>4, <2>1 DEF PostSet, Sound, Kept
    <3>2. Settled(v, store)' BY <1>1, <3>1 DEF Settled
    <3>3. phase' = "idle" BY <2>1 DEF PostSet, GoTo
    <3> QED BY <3>2, <3>3 DEF Kept
  <2>2. CASE upd.dirty /\ ~upd.ok
    <3>1. PICK v \in Slot, p \in Slot : Pair(v, p, store) BY <1>4, <2>2 DEF PostSet, Sound, Kept
    <3>2. phase' = "commit" /\ todo' = Live(flash) /\ upd' = upd
      BY <1>1, <2>2, <3>1, TwoNotTooMany DEF PostSet, RewriteHeaders, Pair
    <3>3. Demoting(v, p, store)' BY <1>1, <3>1, <3>2 DEF Pair, Demoting
    <3> QED BY <2>2, <3>2, <3>3 DEF Kept
  <2>3. CASE upd.dirty /\ upd.ok
    <3>1. PICK v \in Slot, p \in Slot, c \in Content \union {Garbage} : Pair(v, p, c)
      BY <1>4, <2>3 DEF PostSet, Sound, Kept
    <3>2. phase' = (IF store = upd.guess THEN "commit" ELSE "abort") /\ todo' = Live(flash) /\ upd' = upd
      BY <1>1, <2>3, <3>1, TwoNotTooMany DEF PostSet, RewriteHeaders, Pair
    <3>3. CASE store = upd.guess
      <4>1. Promoting(v, p)' BY <1>1, <3>1, <3>2, <3>3 DEF Pair, Promoting
      <4> QED BY <2>3, <3>2, <3>3, <4>1 DEF Kept
    <3>4. CASE store # upd.guess
      <4>1. Demoting(v, p, c)' BY <1>1, <3>1, <3>2, <3>4 DEF Pair, Demoting
      <4> QED BY <1>1, <2>3, <3>2, <3>4, <4>1 DEF Kept
    <3> QED BY <3>3, <3>4
  <2> QED BY <2>1, <2>2, <2>3
<1> QED BY <1>1, <1>2, <1>3, <1>4 DEF Sound

\* No corrected record is written only when the old one fits the store.
LEMMA UnchangedSound ==
    ASSUME Typed, Sound, Unchanged PROVE Sound'
<1>1. /\ phase = "correct" /\ phase' = "idle" /\ todo' = {} /\ err' = FALSE /\ copy = flash
      /\ UNCHANGED <<flash, copy, store, deferred, trust>> /\ ~deferred
  BY DEF Unchanged, GoTo, Sound, Base, Boot
<1>2. Base' BY <1>1 DEF Sound, Base
<1>3. Boot' BY <1>1 DEF Boot, HeaderPhases
<1>4. ASSUME trust = "kept" PROVE Kept'
  <2>1. PICK v \in Slot, c \in Content \union {Garbage} : Settled(v, c)
    BY <1>1, <1>4 DEF Sound, Kept
  <2>2. MatchesValidRecord(copy, store)
    BY <1>1, <2>1, TwoNotTooMany DEF Unchanged, WritesRecord, RecordPhases, Settled
  <2>3. c = store
    BY <1>1, <2>1, <2>2 DEF MatchesValidRecord, MatchesV1, Settled
  <2>4. Settled(v, store)' BY <1>1, <2>1, <2>3 DEF Settled
  <2> QED BY <1>1, <2>4 DEF Kept
<1> QED BY <1>1, <1>2, <1>3, <1>4 DEF Sound

\* Updates before the first record, and ReadyToBoot.
LEMMA IdleSound ==
    ASSUME Typed, Sound, UpdateDeferred \/ ReadyToBoot PROVE Sound'
<1>1. /\ phase = "idle" /\ deferred /\ phase' \in {"idle", "flush"} /\ Blank(flash)
      /\ UNCHANGED <<flash, copy, deferred, todo, err, trust>>
  BY DEF UpdateDeferred, ReadyToBoot, Sound, Boot
<1>2. Base' BY <1>1 DEF Sound, Base
<1>3. Boot' BY <1>1 DEF Sound, Boot, HeaderPhases
<1>4. Kept' BY <1>1 DEF Kept
<1> QED BY <1>2, <1>3, <1>4 DEF Sound

\* Power on: the copy is the flash.
LEMMA PowerOnSound ==
    ASSUME Typed, Sound, PowerOn PROVE Sound'
<1>1. /\ phase = "off" /\ todo = {} /\ UNCHANGED <<flash, todo, err, upd, match>> /\ copy' = flash'
      /\ phase' = (IF store = NoStore \/ Blank(flash) THEN "reinit" ELSE "validate")
      /\ store' = (IF Blank(flash) THEN NoStore ELSE store)
      /\ deferred' = FALSE /\ trust' = trust
  BY DEF PowerOn, Sound, Base, Boot, HeaderPhases
<1>2. Base' BY <1>1 DEF Sound, Base
<1>3. Boot'
  <2>1. Blank(flash') = Blank(flash) BY <1>1
  <2> QED BY <1>1, <2>1 DEF Boot, HeaderPhases
<1>4. ASSUME trust = "kept" PROVE Kept'
  <2>1. Acceptable BY <1>1, <1>4 DEF Sound, Kept
  <2>2. CASE store = NoStore \/ Blank(flash)
    BY <1>1, <2>2 DEF Kept
  <2>3. CASE ~(store = NoStore \/ Blank(flash))
    <3>1. ~TooMany(flash) /\ MatchesV1(flash, store) # {}
      BY <2>1, <2>3 DEF Acceptable
    <3>2. (~TooMany(flash) /\ MatchesV1(flash, store) # {})'
      BY <1>1, <2>3, <3>1 DEF TooMany, MatchesV1, Live, IsLive
    <3> QED BY <1>1, <2>3, <3>2 DEF Kept
  <2> QED BY <2>2, <2>3
<1> QED BY <1>1, <1>2, <1>3, <1>4 DEF Sound

\* A store that is made anew starts with a blank partition.
LEMMA MakeAnewSound ==
    ASSUME Typed, Sound, EraseNextBlock \/ InitStore PROVE Sound'
<1>1. /\ phase \in {"reinit", "wipe"} /\ todo = {} /\ err = FALSE /\ copy = flash /\ ~deferred
      /\ UNCHANGED <<deferred, todo, err>>
  BY DEF EraseNextBlock, InitStore, HeaderPhases, Sound, Base, Boot
<1>2. CASE EraseNextBlock
  <2>1. PICK b : flash' = EraseBlock(flash, b) /\ copy' = EraseBlock(copy, b)
    BY <1>2 DEF EraseNextBlock
  <2>2. FirstErasedBlank(flash')
    BY <2>1, FirstErasedAfterErase DEF Sound, Base, Typed, TypeOK
  <2>3. \A s \in Slot : flash'[s].ver = 1
    BY <2>1 DEF Sound, Base, EraseBlock, Erased, Record
  <2>4. Base' BY <1>1, <1>2, <2>1, <2>2, <2>3 DEF EraseNextBlock, Sound, Base
  <2>5. Boot' BY <1>1, <1>2 DEF EraseNextBlock, Sound, Boot, HeaderPhases
  <2>6. Kept' BY <1>1, <1>2 DEF EraseNextBlock, Kept
  <2> QED BY <2>4, <2>5, <2>6 DEF Sound
<1>3. CASE InitStore
  <2>1. /\ phase' = "validate" /\ store' = Fresh /\ trust' = "kept" /\ UNCHANGED <<flash, copy>>
        /\ Blank(flash')
    BY <1>3 DEF InitStore
  <2>2. Base' BY <1>1, <2>1 DEF Sound, Base
  <2>3. Boot' BY <1>1, <2>1 DEF Boot, HeaderPhases
  <2>4. Kept' BY <1>1, <2>1 DEF Kept
  <2> QED BY <2>2, <2>3, <2>4 DEF Sound
<1> QED BY <1>2, <1>3

\* VarIntValidate does not reject a store that was kept.
LEMMA ValidateSound ==
    ASSUME Typed, Sound, Validate PROVE Sound'
<1>1. /\ phase = "validate" /\ todo = {} /\ err = FALSE /\ copy = flash
      /\ UNCHANGED <<flash, copy, store, trust>> /\ deferred' = Blank(flash)
  BY DEF Validate, HeaderPhases, Sound, Base, Boot
<1>2. MatchesV0(copy, store) = {}
  BY <1>1 DEF MatchesV0, Live, Sound, Base
<1>3. CASE Blank(flash) /\ GoTo("idle")
  <2>1. Base' BY <1>1, <1>3 DEF Sound, Base, GoTo
  <2>2. Boot' BY <1>1, <1>3 DEF Boot, HeaderPhases, GoTo
  <2>3. Kept' BY <1>1, <1>3 DEF Kept, GoTo
  <2> QED BY <2>1, <2>2, <2>3 DEF Sound
<1>4. CASE /\ ~Blank(flash) /\ ~TooMany(copy) /\ MatchesV1(copy, store) # {}
           /\ phase' = "finalize" /\ err' = FALSE
           /\ match' = Min(MatchesV1(copy, store))
           /\ todo' = Unsettled(match')
  <2>1. MatchesV1(copy, store) \subseteq Slot BY DEF MatchesV1, Live
  <2>2. PICK k \in Slot : k = match' /\ k \in MatchesV1(copy, store)
    BY <1>4, <2>1, SmallestSlot
  <2>3. k \in Live(flash) /\ flash[k].m = store
    BY <1>1, <2>2 DEF MatchesV1
  <2>4. /\ k \notin todo' => flash[k].st = "valid"
        /\ \A s \in Live(flash) : s # k => s \in todo'
        /\ todo' \subseteq Live(flash)
    BY <1>1, <1>4, <2>2, <2>3 DEF Unsettled, Live, IsLive
  <2>5. Finalizing'
    BY <1>1, <1>4, <2>2, <2>3, <2>4 DEF Finalizing
  <2>6. \A s \in todo' : flash'[s].st # "erased"
    BY <1>1, <2>4 DEF Live, IsLive
  <2>7. Base' BY <1>1, <1>4 DEF Sound, Base
  <2>8. Boot' BY <1>1, <1>4, <2>5, <2>6 DEF Boot, HeaderPhases
  <2>9. Kept' BY <1>4 DEF Kept
  <2> QED BY <2>7, <2>8, <2>9 DEF Sound
<1>5. CASE /\ TooMany(copy) \/ MatchesV1(copy, store) = {}
           /\ ~Blank(flash) /\ GoTo("reject")
  <2>1. trust = "lost"
    BY <1>1, <1>5 DEF Sound, Kept, Base, Typed, TypeOK
  <2>2. Base' BY <1>1, <1>5 DEF Sound, Base, GoTo
  <2>3. Boot' BY <1>1, <1>5, <2>1 DEF Boot, HeaderPhases, GoTo
  <2> QED BY <1>1, <2>1, <2>2, <2>3 DEF Sound
<1> QED BY <1>2, <1>3, <1>4, <1>5 DEF Validate

\* A rejected store was not kept.
LEMMA RejectSound ==
    ASSUME Typed, Sound, Reject \/ Wiped \/ Restart PROVE Sound'
<1>1. /\ phase \in {"reject", "wipe", "refused"} /\ phase' \in {"dead", "wipe", "refused", "off"}
      /\ UNCHANGED <<flash, copy, deferred, upd, todo, err, trust, match>>
      /\ todo = {} /\ trust = "lost" /\ ~deferred
  BY DEF Reject, Wiped, Restart, Sound, Boot, HeaderPhases
<1>2. Base' BY <1>1 DEF Sound, Base
<1>3. Boot' BY <1>1 DEF Boot, HeaderPhases
<1> QED BY <1>1, <1>2, <1>3 DEF Sound

\* Wherever the power is lost, a live record measures the store.
LEMMA MeasuredSomewhere ==
    ASSUME Typed, Sound, phase # "off", ~Unmeasured, trust = "kept"
    PROVE  Acceptable
<1>1. ASSUME NEW s \in Live(flash), flash[s].m = store PROVE MatchesV1(flash, store) # {}
  BY <1>1 DEF MatchesV1, Sound, Base, Live
<1>2. ASSUME NEW v \in Slot, Settled(v, store) PROVE Acceptable
  BY <1>1, <1>2, TwoNotTooMany DEF Settled, Acceptable
<1>3. CASE phase \in {"reinit", "validate"}
  BY <1>3 DEF Sound, Boot, Kept, Acceptable
<1>4. CASE phase \in {"idle", "flush"}
  BY <1>2, <1>4 DEF Sound, Boot, Kept, Acceptable
<1>5. CASE phase = "pre"
  BY <1>2, <1>5 DEF Sound, Kept
<1>6. CASE phase \in {"store", "post"}
  <2>1. CASE \E v \in Slot : Settled(v, store)
    BY <1>2, <2>1
  <2>2. CASE \E v, p \in Slot : Pair(v, p, store)
    BY <1>1, <2>2, TwoNotTooMany DEF Pair, Acceptable
  <2>3. CASE upd.ok /\ upd.dirty /\ \E v, p \in Slot, c \in Content \union {Garbage} : Pair(v, p, c)
    <3>1. store = upd.guess BY <1>6, <2>3 DEF Unmeasured, GuessWasWrong, Sound, Kept
    <3> QED BY <1>1, <2>3, <3>1, TwoNotTooMany DEF Pair, Acceptable
  <2> QED BY <1>6, <2>1, <2>2, <2>3 DEF Sound, Kept, Typed, TypeOK
<1>7. CASE phase = "commit"
  <2>1. CASE upd.ok
    <3>1. PICK v \in Slot, p \in Slot : Promoting(v, p) BY <1>7, <2>1 DEF Sound, Kept
    <3> QED BY <1>1, <3>1, TwoNotTooMany DEF Promoting, Acceptable
  <2>2. CASE ~upd.ok
    <3>1. PICK v \in Slot, p \in Slot : Demoting(v, p, store) BY <1>7, <2>2 DEF Sound, Kept
    <3> QED BY <1>1, <3>1, TwoNotTooMany DEF Demoting, Acceptable
  <2> QED BY <2>1, <2>2
<1>8. CASE phase \in {"abort", "correct"}
  BY <1>8 DEF Sound, Kept, Unmeasured, GuessWasWrong
<1>9. CASE phase = "finalize"
  BY <1>1, <1>9 DEF Sound, Boot, Finalizing, Acceptable
<1>10. CASE phase = "flushed"
  BY <1>1, <1>10, TwoNotTooMany DEF Sound, Kept, Acceptable
<1>11. phase \notin {"reject", "wipe", "refused", "dead", "migrate", "migrated", "retire"}
  BY DEF Sound, Boot, Base
<1> QED BY <1>3, <1>4, <1>5, <1>6, <1>7, <1>8, <1>9, <1>10, <1>11
       DEF Typed, TypeOK, Phases, RecordPhases, HeaderPhases

\* A loss of power, also in the middle of the write of a record.
LEMMA PowerLossSound ==
    ASSUME Typed, Sound, PowerLoss PROVE Sound'
<1>1. /\ phase # "off" /\ phase' = "off" /\ todo' = {} /\ err' = FALSE
      /\ UNCHANGED <<store, deferred>> /\ flash \in [Slot -> RecordType] /\ copy = flash
  BY DEF PowerLoss, Sound, Base, Typed, TypeOK
<1>2. trust' # "strained" BY DEF PowerLoss, Sound, Base
<1>3. Boot' BY <1>1 DEF Boot, HeaderPhases
<1>4. CASE flash' = flash /\ trust' = (IF Unmeasured THEN "lost" ELSE trust)
  <2>1. Base' BY <1>1, <1>2, <1>4 DEF Sound, Base
  <2>2. ASSUME trust' = "kept" PROVE Kept'
    <3>1. Acceptable BY <1>1, <1>4, <2>2, MeasuredSomewhere
    <3>2. Acceptable' BY <1>1, <1>4, <3>1 DEF Acceptable, TooMany, MatchesV1, Blank, Live, IsLive
    <3> QED BY <1>1, <3>2 DEF Kept
  <2> QED BY <1>3, <2>1, <2>2 DEF Sound
<1>5. CASE /\ WritesRecord /\ ~MustErase
           /\ flash' = CutShort(flash)
           /\ trust' = (IF Unmeasured \/ phase = "flush" \/ TooMany(flash') THEN "lost" ELSE trust)
  <2> DEFINE new == Record(1, "pending", Garbage)
  <2>1. new \in RecordType /\ IsLive(new) /\ new.ver = 1 /\ new.st = "pending"
    BY DEF Record, RecordType, IsLive
  <2>2. PICK n \in Slot : n = NextSlot /\ flash[n].st = "erased"
    BY <1>1, <1>5, NextSlotErased DEF Typed
  <2>3. \A s \in Slot : flash[s].st = "erased" => n <= s
    BY <1>1, <2>2, SmallestSlot DEF ErasedSlots, NextSlot
  <2>4. flash' = [flash EXCEPT ![n] = new]
    BY <1>1, <1>5, <2>2 DEF CutShort, Programmed
  <2> HIDE DEF new
  <2>5. FirstErasedBlank(flash') /\ \A s \in Slot : flash'[s].ver = 1
    BY <1>1, <2>1, <2>2, <2>3, <2>4, FirstErasedAfterWrite DEF Sound, Base
  <2>6. Base' BY <1>1, <1>2, <2>5 DEF Sound, Base
  <2>7. ASSUME trust' = "kept" PROVE Kept'
    <3>1. trust = "kept" /\ ~Unmeasured /\ phase = "pre" /\ ~TooMany(flash')
      BY <1>5, <2>7 DEF WritesRecord, RecordPhases, Sound, Base, Kept, Unmeasured, GuessWasWrong
    <3>2. PICK v \in Slot : Settled(v, store) BY <3>1 DEF Sound, Kept
    <3>3. v # n /\ flash'[v] = flash[v] BY <2>2, <2>4, <3>2 DEF Settled
    <3>4. v \in MatchesV1(flash', store')
      BY <1>1, <2>5, <3>2, <3>3 DEF Settled, MatchesV1, Live, IsLive
    <3>5. Acceptable' BY <3>1, <3>4 DEF Acceptable
    <3> QED BY <1>1, <3>5 DEF Kept
  <2> QED BY <1>3, <2>6, <2>7 DEF Sound
<1> QED BY <1>4, <1>5 DEF PowerLoss

\* The partition does not come from an earlier version of the driver.
NoOldRecords == \A s \in Slot : flash[s].ver # 0

\* The invariant holds at first.
LEMMA IInvInit == Init /\ NoOldRecords => IInv
<1> SUFFICES ASSUME Init, NoOldRecords PROVE IInv
  OBVIOUS
<1>1. flash = Empty /\ deferred = TRUE
  <2> SUFFICES ASSUME NEW c \in Content, NEW d \in Content, NEW i \in Slot, NEW j \in Slot,
                      flash = OldRecords(c, d, i, j)
               PROVE  FALSE
    BY DEF Init
  <2>1. flash[i].ver = 0 BY DEF OldRecords, Record
  <2> QED BY <2>1 DEF NoOldRecords
<1>2. phase = "off" /\ todo = {} /\ err = FALSE /\ trust = "kept"
  BY DEF Init
<1>3. \A s \in Slot : flash[s].st = "erased" /\ flash[s].ver = 1
  BY <1>1 DEF Empty, Erased, Record
<1>4. Base BY <1>2, <1>3 DEF Base, FirstErasedBlank
<1>5. Boot BY <1>2 DEF Boot, HeaderPhases
<1>6. Kept BY <1>1, <1>2, <1>3 DEF Kept, Acceptable, Blank
<1> QED BY <1>4, <1>5, <1>6, TypeInit DEF IInv, Sound

\* Every step but a fault of the flash preserves Sound.
LEMMA SoundStep == Typed /\ Sound /\ [Next]_vars /\ ~Fault => Sound'
<1> SUFFICES ASSUME Typed, Sound, [Next]_vars, ~Fault PROVE Sound'
  OBVIOUS
<1>1. CASE UNCHANGED vars
  <2>1. Base' BY <1>1 DEF vars, Sound, Base
  <2>2. Boot' BY <1>1 DEF vars, Sound, Boot, Finalizing, TooMany, Live, IsLive, Blank
  <2>3. trust' = "kept" => Kept'
    BY <1>1 DEF vars, Sound, Kept, Settled, Pair, Promoting, Demoting, Acceptable, TooMany,
                MatchesV1, Live, IsLive, Blank
  <2> QED BY <2>1, <2>2, <2>3 DEF Sound
<1>2. CASE Work
  BY <1>2, EraseForRecordSound, WriteRecordSound, WriteHeaderSound, HeadersWrittenSound,
     SetVariableSound, PostSetSound, UnchangedSound, PowerOnSound, MakeAnewSound,
     ValidateSound, RejectSound DEF Work
<1>3. CASE ReadyToBoot \/ UpdateDeferred
  BY <1>3, IdleSound
<1>4. CASE \E new, guess \in Content : PreSet(new, guess)
  BY <1>4, PreSetSound
<1>5. CASE PowerLoss
  BY <1>5, PowerLossSound
<1> QED BY <1>1, <1>2, <1>3, <1>4, <1>5 DEF Next

\* Every step preserves the invariant.
LEMMA IInvStep == IInv /\ [Next]_vars => IInv'
<1> SUFFICES ASSUME IInv, [Next]_vars PROVE IInv'
  OBVIOUS
<1>1. Typed' BY TypeStep DEF IInv
<1>2. ASSUME faults' = 0 PROVE faults = 0 /\ ~Fault
  <2>1. faults \in Nat BY VarIntAssumption DEF IInv, Typed, TypeOK
  <2>2. ~Fault
    BY <1>2, <2>1 DEF Fault, WriteRecordFails, WriteHeaderFails, PostComputeFails
  <2>3. UNCHANGED faults
    BY <2>2 DEF vars, Next, Work, EraseForRecord, WriteRecord, WriteHeader, HeadersWritten,
       SetVariable, PostSet, Unchanged, PowerOn, EraseNextBlock, InitStore, Validate, Reject,
       Wiped, Restart, ReadyToBoot, UpdateDeferred, PreSet, PowerLoss
  <2> QED BY <1>2, <2>2, <2>3
<1> QED BY <1>1, <1>2, SoundStep DEF IInv

\* As long as no flash write fails, VarIntValidate never rejects a store that
\* only the driver wrote, outside the windows that trust marks.
THEOREM AcceptedWithoutFaults == Spec /\ NoOldRecords => [](faults = 0 => StoreAccepted)
<1>1. IInv => (faults = 0 => StoreAccepted)
  <2> SUFFICES ASSUME IInv, faults = 0, trust # "lost"
               PROVE  /\ phase # "reject"
                      /\ phase = "off" =>
                            \/ store = NoStore
                            \/ Blank(flash) /\ (deferred \/ store = Fresh)
                            \/ /\ ~TooMany(flash)
                               /\ MatchesV1(flash, store) \union MatchesV0(flash, store) # {}
    BY DEF StoreAccepted
  <2>1. trust = "kept" /\ Boot /\ Kept
    BY DEF IInv, Sound, Base, Typed, TypeOK
  <2> QED BY <2>1 DEF Boot, Kept, Acceptable
<1> QED BY <1>1, IInvInit, IInvStep, PTL DEF Spec

\* As long as no flash write fails, one valid record measures the store between
\* updates, and the copy of the partition is the flash.
THEOREM OneRecordWithoutFaults == Spec /\ NoOldRecords => [](faults = 0 => OneRecordWhenIdle)
<1>1. IInv => (faults = 0 => OneRecordWhenIdle)
  <2> SUFFICES ASSUME IInv, faults = 0, phase = "idle", trust = "kept", ~deferred
               PROVE  copy = flash
                      /\ \E s \in Slot : Live(copy) = {s} /\ copy[s] = Record(1, "valid", store)
    BY DEF OneRecordWhenIdle
  <2>1. copy = flash /\ flash \in [Slot -> RecordType]
    BY DEF IInv, Sound, Base, Typed, TypeOK
  <2>2. PICK s \in Slot : Settled(s, store)
    BY DEF IInv, Sound, Kept
  <2>3. flash[s].ver = 1 /\ flash[s].st = "valid" /\ flash[s].m = store /\ flash[s] \in RecordType
    BY <2>1, <2>2 DEF Settled, IInv, Sound, Base
  <2>4. flash[s] = Record(1, "valid", store)
    BY <2>3 DEF Record, RecordType
  <2> QED BY <2>1, <2>2, <2>4 DEF Settled
<1> QED BY <1>1, IInvInit, IInvStep, PTL DEF Spec
=============================================================================
