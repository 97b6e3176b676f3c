--------------------------------- MODULE Erst ---------------------------------
(****************************************************************************)
(* ErrorSerializationMmDxe with its tables, its blocks and its copy of the  *)
(* flash: the event handler, the search for space and the reclaim of blocks *)
(* it may start, the write sequence, and initialization.                    *)
(*                                                                          *)
(* A step ends at each flash operation.  What the driver is in the middle   *)
(* of is a stack of frames, innermost first:                                *)
(*   put      a record looks for space and is then written                  *)
(*   reclaim  ErstReclaimBlock                                              *)
(*   init     ErstCollectBlockInfo                                          *)
(* An error unwinds the whole stack, as every caller returns it.            *)
(****************************************************************************)
EXTENDS ErstTables

CONSTANTS
    Ops,         \* the operations that the OS requests
    MaxCrashes,  \* bound on power losses
    MaxFaults,   \* bound on flash operations that report an error
    NoReq

ASSUME BoundsAssumption == MaxCrashes \in Nat /\ MaxFaults \in Nat

VARIABLES
    flash,    \* the NOR flash
    shadow,   \* mShadowFlash
    tab,      \* the tracking tables
    mode,     \* off; up; failed (InitStatus is an error)
    stack,    \* see above
    pending,  \* the request being handled, or NoReq
    done,     \* the pending request has taken effect
    reply,    \* the answer to the last request that was answered
    crashes, faults

vars == <<flash, shadow, tab, mode, stack, pending, done, reply, crashes, faults>>

Request ==
    [op : Ops \cap {"write", "dummy"}, id : Id, val : Val, len : RecLen]
      \cup [op : Ops \cap {"read", "clear"}, id : Id, val : {NoVal}, len : {0}]

(* next is what the OS finds in RecordID, where the driver changes it. *)
Reply(status, v, next) == [status |-> status, val |-> v, next |-> next]
NoReply == Reply("none", NoVal, NoId)

(* who: write for the OS, move for a relocation, merge for                  *)
(* ErstCopyValidToIncomingCper.                                             *)
PutFrame(who, i, n, v, cur, new, step) ==
    [f |-> "put", who |-> who, id |-> i, len |-> n, val |-> v,
     cur |-> cur, new |-> new, step |-> step]
ReclaimFrame(b) == [f |-> "reclaim", b |-> b]
InitFrame(phase, b, outTo) == [f |-> "init", phase |-> phase, b |-> b, outTo |-> outTo]

Push(f)     == <<f>> \o stack
Pop         == Tail(stack)
Replaced(f) == <<f>> \o Tail(stack)

Doing(f)  == stack # <<>> /\ stack[1].f = f
Top       == stack[1]
Initing   == stack # <<>> /\ Last(stack).f = "init"
Handling  == mode = "up" /\ stack = <<>> /\ pending # NoReq

(* Known to be out of sync: the next request starts with ReInit. *)
Stale == tab.unsynced # 0 \/ tab.inc # NoOff \/ tab.out # NoOff

-----------------------------------------------------------------------------
(* Flash operations: the shadow is changed first, and whatever happens.     *)

StatusOp(at, st)    == [kind |-> "status", at |-> at, st |-> st, cells |-> <<>>]
DataOp(at, cells)   == [kind |-> "data", at |-> at, st |-> "INCOMING", cells |-> cells]
EraseOp(b)          == [kind |-> "erase", at |-> b, st |-> "FREE", cells |-> <<>>]

OnFlash(op) ==
    CASE op.kind = "status" -> SetStatus(flash, op.at, op.st)
      [] op.kind = "data"   -> Programmed(flash, op.at, op.cells)
      [] op.kind = "erase"  -> EraseAll(flash, op.at)
OnShadow(op) ==
    CASE op.kind = "status" -> SetStatus(shadow, op.at, op.st)
      [] op.kind = "data"   -> Copied(shadow, op.at, op.cells)
      [] op.kind = "erase"  -> EraseAll(shadow, op.at)

(* What an operation that is cut short leaves on the flash, besides nothing *)
(* at all: a header with some of the content, or a block erased in part.    *)
Torn(op) ==
    CASE op.kind = "status" -> {}
      [] op.kind = "data"   -> {Programmed(flash, op.at, SubSeq(op.cells, 1, k)) :
                                  k \in HdrSize..(Len(op.cells) - 1)}
      [] op.kind = "erase"  -> {ErasedPrefix(flash, op.at, k) : k \in 1..(BlockSize - 1)}

(* A faulty variant: the driver's copy keeps what was erased. *)
SucceedsEraseStale(op) ==
    /\ flash'  = OnFlash(op)
    /\ shadow' = IF op.kind = "erase" THEN shadow ELSE OnShadow(op)
    /\ UNCHANGED <<crashes, faults>>

Succeeds(op) ==
    /\ flash'  = OnFlash(op)
    /\ shadow' = OnShadow(op)
    /\ UNCHANGED <<crashes, faults>>

FaultAllowed == faults < MaxFaults

(* A status byte whose write fails is left as it was, except in a write     *)
(* sequence (full).                                                         *)
Fails(op, full) ==
    /\ FaultAllowed
    /\ flash'  \in {flash} \cup Torn(op)
                    \cup (IF full THEN {OnFlash(op)} ELSE {})
    /\ shadow' = OnShadow(op)
    /\ faults' = faults + 1
    /\ UNCHANGED crashes

NoFlashOp == UNCHANGED <<flash, shadow, crashes, faults>>

StatusAllowed(at, st) ==
    TrackingAllows(tab, at, st) /\ StatusAccepted(shadow, at, st)

-----------------------------------------------------------------------------
(* Every caller returns the error: t are the tables that it leaves behind.  *)
Unwind(t) ==
    /\ stack'   = <<>>
    /\ mode'    = IF Initing THEN "failed" ELSE "up"
    /\ tab'     = IF Initing THEN EmptyTables ELSE t
    /\ reply'   = IF pending = NoReq THEN reply ELSE Reply("error", NoVal, NoId)
    /\ pending' = NoReq

(* ErrorSerializationInitialize, at power on and for ReInit. *)
StartInit ==
    /\ tab'    = Unsync(EmptyTables, 1)
    /\ shadow' = flash
    /\ stack'  = <<InitFrame("scan", 0, "none")>>
    /\ mode'   = "up"

PowerOn ==
    /\ mode = "off"
    /\ StartInit
    /\ UNCHANGED <<flash, pending, done, reply, crashes, faults>>

(* The doorbell: ErrorSerializationEventHandler starts. *)
Receive(r) ==
    /\ mode \in {"up", "failed"} /\ stack = <<>> /\ pending = NoReq
    /\ pending' = r
    /\ done'    = FALSE
    /\ reply'   = NoReply
    /\ IF mode = "up" /\ Stale THEN StartInit ELSE UNCHANGED <<tab, shadow, stack, mode>>
    /\ UNCHANGED <<flash, crashes, faults>>

Answer(rep) ==
    /\ reply'   = rep
    /\ pending' = NoReq
    /\ NoFlashOp
    /\ UNCHANGED <<done, mode, stack>>

AnswerFailed ==
    /\ mode = "failed" /\ pending # NoReq
    /\ Answer(Reply("error", NoVal, NoId))
    /\ UNCHANGED tab

AnswerDone ==
    /\ Handling /\ done
    /\ Answer(Reply("ok", NoVal,
                    IF pending.op = "clear" THEN FirstId(tab) ELSE NoId))
    /\ UNCHANGED tab

Found == FoundOffset(tab, pending.id)

AnswerRead ==
    /\ Handling /\ pending.op = "read"
    /\ LET e == EntryAt(tab, Found)
       IN Answer(IF Found = NoOff
                   THEN Reply("notfound", NoVal, FirstId(tab))
                   ELSE Reply("ok", ValAt(shadow, e.off, e.len), NextId(tab, e.id)))
    /\ UNCHANGED tab

(* A dummy write finds space and updates the tables, and undoes all of it   *)
(* but, if it would replace a record, one count of unsynced changes.        *)
AnswerDummy ==
    /\ Handling /\ pending.op = "dummy"
    /\ LET space == FindFreeSpace(tab, pending.len, TRUE)
           t1    == Prepare(tab, space.at, pending.len)
           t2    == IF Found = NoOff
                      THEN DeallocateAt(AllocateNew(t1, Entry(pending.id, pending.len, space.at)),
                                        Len(t1.list) + 1)
                      ELSE Unsync(t1, 1)
       IN IF space.how = "found"
            THEN /\ tab' = UndoAllocate(t2, space.at, pending.len)
                 /\ Answer(Reply("ok", NoVal, NoId))
            ELSE /\ Answer(Reply("error", NoVal, NoId))
                 /\ UNCHANGED tab

(* ErstClearRecord. *)
Cleared(t, o) ==
    Deallocate(FreeRecord(Unsync(Tracked(t, o, "DELETED"), 1), EntryAt(t, o)), o)

ClearNotFound ==
    /\ Handling /\ pending.op = "clear" /\ ~done
    /\ Found = NoOff
    /\ Answer(Reply("notfound", NoVal, FirstId(tab)))
    /\ UNCHANGED tab

Clear ==
    /\ Handling /\ pending.op = "clear" /\ ~done
    /\ Found # NoOff /\ StatusAllowed(Found, "DELETED")
    /\ Succeeds(StatusOp(Found, "DELETED"))
    /\ tab'  = Cleared(tab, Found)
    /\ done' = TRUE
    /\ UNCHANGED <<mode, stack, pending, reply>>

ClearFault ==
    /\ Handling /\ pending.op = "clear" /\ ~done
    /\ Found # NoOff /\ StatusAllowed(Found, "DELETED")
    /\ Fails(StatusOp(Found, "DELETED"), FALSE)
    /\ reply'   = Reply("error", NoVal, FirstId(tab))
    /\ pending' = NoReq
    /\ UNCHANGED <<tab, done, mode, stack>>

StartWrite ==
    /\ Handling /\ pending.op = "write" /\ ~done
    /\ stack' = Push(PutFrame("write", pending.id, pending.len, pending.val,
                              NoOff, NoOff, "space"))
    /\ NoFlashOp
    /\ UNCHANGED <<tab, mode, pending, done, reply>>

-----------------------------------------------------------------------------
(* ErstPrepareNewRecord, and ErstWriteRecord up to its first flash write. *)

(* The handler looked for the record to replace before, but what it holds   *)
(* is a pointer to an entry, which a relocation updates in place.           *)
TakeSpace ==
    /\ Doing("put") /\ Top.step = "space"
    /\ LET space == FindFreeSpace(tab, Top.len, FALSE)
           t1    == Prepare(tab, space.at, Top.len)
           cur   == IF Top.who = "write" THEN FoundOffset(tab, Top.id) ELSE Top.cur
       IN /\ space.how = "found"
          /\ tab'   = IF cur = NoOff
                        THEN AllocateNew(t1, Entry(Top.id, Top.len, space.at))
                        ELSE Unsync(t1, 1)
          /\ stack' = Replaced([Top EXCEPT !.cur = cur, !.new = space.at, !.step = "INCOMING"])
    /\ NoFlashOp
    /\ UNCHANGED <<mode, pending, done, reply>>

StartReclaim ==
    /\ Doing("put") /\ Top.step = "space"
    /\ LET space == FindFreeSpace(tab, Top.len, FALSE)
       IN /\ space.how = "reclaim"
          /\ tab'   = Reclaiming(tab, space.at)
          /\ stack' = Push(ReclaimFrame(space.at))
    /\ NoFlashOp
    /\ UNCHANGED <<mode, pending, done, reply>>

(* A faulty variant: the write waits for space that nobody makes. *)
NoSpaceWaits ==
    /\ Doing("put") /\ Top.step = "space"
    /\ FindFreeSpace(tab, Top.len, FALSE).how = "none"
    /\ UNCHANGED vars

NoSpace ==
    /\ Doing("put") /\ Top.step = "space"
    /\ FindFreeSpace(tab, Top.len, FALSE).how = "none"
    /\ Unwind(tab)
    /\ NoFlashOp
    /\ UNCHANGED done

(* ErstReclaimBlock: relocate the first record of the block in the list. *)
Relocate ==
    /\ Doing("reclaim") /\ tab.blk[Top.b].valid < 0
    /\ LET k == SelectInSeq(tab.list, LAMBDA e : BlockOf(e.off) = Top.b)
           e == tab.list[k]
       IN IF k = 0
            THEN Unwind(tab)
            ELSE /\ stack' = Push(PutFrame("move", e.id, e.len, ValAt(shadow, e.off, e.len),
                                           e.off, NoOff, "space"))
                 /\ UNCHANGED <<tab, mode, pending, reply>>
    /\ NoFlashOp
    /\ UNCHANGED done

EraseReclaimed ==
    /\ Doing("reclaim") /\ tab.blk[Top.b].valid >= 0
    /\ Succeeds(EraseOp(Top.b))
    /\ tab'   = [tab EXCEPT !.blk[Top.b] = EmptyBlock]
    /\ stack' = Pop
    /\ UNCHANGED <<mode, pending, done, reply>>

EraseFault ==
    /\ Doing("reclaim") /\ tab.blk[Top.b].valid >= 0
    /\ Fails(EraseOp(Top.b), FALSE)
    /\ Unwind(tab)
    /\ UNCHANGED done

-----------------------------------------------------------------------------
(* ErstWriteRecord. *)

Writing == Doing("put") /\ Top.step # "space"

WriteOp ==
    CASE Top.step = "INCOMING" -> StatusOp(Top.new, "INCOMING")
      [] Top.step = "data"     -> DataOp(Top.new, RecordCells(Top.id, Top.len, Top.val))
      [] Top.step = "OUTGOING" -> StatusOp(Top.cur, "OUTGOING")
      [] Top.step = "VALID"    -> StatusOp(Top.new, "VALID")
      [] Top.step = "DELETED"  -> StatusOp(Top.cur, "DELETED")

WriteAllowed == WriteOp.kind = "data" \/ StatusAllowed(WriteOp.at, WriteOp.st)

AfterWrite == IF WriteOp.kind = "data" THEN tab ELSE Tracked(tab, WriteOp.at, WriteOp.st)

(* A faulty variant: the replaced record is never OUTGOING. *)
NextStepNoOutgoing ==
    CASE Top.step = "INCOMING" -> "data"
      [] Top.step = "data"     -> "VALID"
      [] Top.step = "VALID"    -> IF Top.cur # NoOff THEN "DELETED" ELSE "none"
      [] OTHER                 -> "none"

NextStep ==
    CASE Top.step = "INCOMING" -> "data"
      [] Top.step = "data"     -> IF Top.cur # NoOff THEN "OUTGOING" ELSE "VALID"
      [] Top.step = "OUTGOING" -> "VALID"
      [] Top.step = "VALID"    -> IF Top.cur # NoOff THEN "DELETED" ELSE "none"
      [] OTHER                 -> "none"

(* From this write on the new record is what a reboot recovers. *)
Commits == Top.who = "write" /\ Top.step = (IF Top.cur # NoOff THEN "OUTGOING" ELSE "VALID")

(* The current record is gone: a merge removes its entry, otherwise the new *)
(* record takes it over.                                                    *)
Superseded(t) ==
    LET t1 == FreeRecord(Unsync(t, 1), EntryAt(t, Top.cur))
    IN IF Top.who = "merge"
         THEN Deallocate(t1, Top.cur)
         ELSE [Unsync(t1, -1) EXCEPT
                 !.list = [@ EXCEPT ![IndexOf(t1, Top.cur)] = Entry(Top.id, Top.len, Top.new)]]

(* What IncomingCperInfo points to at the end of a merge: the entries       *)
(* behind that of the replaced record have moved up, the pointer has not.   *)
MergePointer(t) ==
    LET k == IndexOf(tab, Top.new)
    IN IF k <= Len(t.list) THEN t.list[k] ELSE Entry(NoId, 0, 0)

(* The end of the write sequence and what the caller does next. *)
Finished(t) ==
    LET e  == IF Top.who = "merge" THEN MergePointer(t) ELSE Entry(Top.id, Top.len, Top.new)
        t1 == [Unsync(t, -2) EXCEPT !.recent = BlockOf(e.off)]
    IN IF Top.who = "merge"
         THEN [t1 EXCEPT !.blk[BlockOf(Top.new)].used = (e.off % BlockSize) + e.len]
         ELSE Unsync(t1, -1)

WriteStep ==
    /\ Writing /\ WriteAllowed
    /\ Succeeds(WriteOp)
    /\ tab'   = CASE Top.step = "INCOMING" -> Unsync(AfterWrite, 1)
                  [] Top.step = "VALID" /\ Top.cur = NoOff -> Finished(AfterWrite)
                  [] Top.step = "DELETED" -> Finished(Superseded(AfterWrite))
                  [] OTHER -> AfterWrite
    /\ stack' = IF NextStep = "none" THEN Pop ELSE Replaced([Top EXCEPT !.step = NextStep])
    /\ done'  = (done \/ Commits)
    /\ UNCHANGED <<mode, pending, reply>>

(* The first write of a new record failed: its entry, the last, is removed. *)
(* The space is given back in any case, except that of a merge.             *)
Abandoned ==
    LET t1 == IF Top.step = "INCOMING" /\ Top.cur = NoOff
                THEN DeallocateAt(tab, Len(tab.list)) ELSE tab
    IN IF Top.who = "merge" THEN t1 ELSE UndoAllocate(t1, Top.new, Top.len)

WriteFault ==
    /\ Writing /\ WriteAllowed
    /\ Fails(WriteOp, TRUE)
    /\ Unwind(Abandoned)
    /\ done' = (done \/ (Commits /\ flash' = OnFlash(WriteOp)))

WriteRefused ==
    /\ Writing /\ ~WriteAllowed
    /\ Unwind(Abandoned)
    /\ NoFlashOp
    /\ UNCHANGED done

-----------------------------------------------------------------------------
(* ErstCollectBlockInfo. *)

InPhase(p) == Doing("init") /\ Top.phase = p
NextPhase(p, b, outTo) == Replaced(InitFrame(p, b, outTo))

Scanned == Walk(shadow, Top.b)
AfterScan ==
    IF Top.b + 1 < NumBlocks THEN NextPhase("scan", Top.b + 1, "none")
    ELSE NextPhase("incoming", 0, "none")

ScanBlock ==
    /\ InPhase("scan")
    /\ IF MustErase(Scanned) THEN Succeeds(EraseOp(Top.b)) ELSE NoFlashOp
    /\ tab'   = Collected(tab, Top.b, Scanned)
    /\ stack' = AfterScan
    /\ UNCHANGED <<mode, pending, done, reply>>

ScanFault ==
    /\ InPhase("scan")
    /\ MustErase(Scanned)
    /\ Fails(EraseOp(Top.b), FALSE)
    /\ Unwind(tab)
    /\ UNCHANGED done

(* A faulty variant: the record stays in the list. *)
MarkedInvalidListed(t, o) ==
    LET t1 == Reclaiming(Unsync(Tracked(t, o, "INVALID"), 1), BlockOf(o))
    IN FreeRecord(t1, EntryAt(t, o))

(* ErstMarkAsInvalid: the block of the record is to be reclaimed. *)
MarkedInvalid(t, o) ==
    LET t1 == Reclaiming(Unsync(Tracked(t, o, "INVALID"), 1), BlockOf(o))
    IN Deallocate(FreeRecord(t1, EntryAt(t, o)), o)

(* ErstCopyValidToIncomingCper: can the VALID record v be programmed over   *)
(* the INCOMING record i?                                                   *)
Compatible(v, i) ==
    LET over == Programmed(shadow, i.off, [k \in 1..v.len |-> shadow[v.off + k - 1]])
        end  == (i.off % BlockSize) + v.len
    IN /\ i.len >= v.len
       /\ \A k \in 1..(v.len - 1) : over[i.off + k] = shadow[v.off + k]
       /\ BitAnd(i.len, v.len) = v.len
       /\ \A k \in end..(BlockSize - 1) : shadow[Base(BlockOf(i.off)) + k] = Erased

Incoming == EntryAt(tab, tab.inc)
Outgoing == EntryAt(tab, tab.out)

(* With an OUTGOING record too, INCOMING is its replacement or both are     *)
(* INVALID.                                                                 *)
ResolveIncoming ==
    /\ InPhase("incoming") /\ tab.inc # NoOff /\ tab.out # NoOff
    /\ LET same == Incoming.id = Outgoing.id
       IN /\ Succeeds(StatusOp(tab.inc, IF same THEN "VALID" ELSE "INVALID"))
          /\ tab'   = IF same THEN Tracked(tab, tab.inc, "VALID") ELSE MarkedInvalid(tab, tab.inc)
          /\ stack' = NextPhase("outgoing", 0, IF same THEN "DELETED" ELSE "INVALID")
    /\ UNCHANGED <<mode, pending, done, reply>>

(* INCOMING alone: the VALID record of its id is copied over it if that is  *)
(* possible.                                                                *)
Mergeable ==
    /\ FindRecord(tab, Incoming.id) # 0
    /\ Compatible(tab.list[FindRecord(tab, Incoming.id)], Incoming)

MergeIncoming ==
    /\ InPhase("incoming") /\ tab.inc # NoOff /\ tab.out = NoOff
    /\ Mergeable
    /\ LET v == tab.list[FindRecord(tab, Incoming.id)]
       IN /\ tab'   = [Unsync(tab, 1) EXCEPT
                         !.list = [@ EXCEPT ![IndexOf(tab, tab.inc)].len = v.len]]
          /\ stack' = <<PutFrame("merge", v.id, v.len, ValAt(shadow, v.off, v.len),
                                 v.off, tab.inc, "INCOMING")>>
                        \o NextPhase("reclaim", 0, "none")
    /\ NoFlashOp
    /\ UNCHANGED <<mode, pending, done, reply>>

(* Its entry already has the length of the VALID record if only the         *)
(* contents were found to be incompatible.                                  *)
InvalidateIncoming ==
    /\ InPhase("incoming") /\ tab.inc # NoOff /\ tab.out = NoOff
    /\ ~Mergeable
    /\ LET v  == FindRecord(tab, Incoming.id)
           t1 == IF v # 0 /\ Incoming.len >= tab.list[v].len
                   THEN [tab EXCEPT !.list = [@ EXCEPT ![IndexOf(tab, tab.inc)].len =
                                                          tab.list[v].len]]
                   ELSE tab
       IN tab' = MarkedInvalid(t1, tab.inc)
    /\ Succeeds(StatusOp(tab.inc, "INVALID"))
    /\ stack' = NextPhase("reclaim", 0, "none")
    /\ UNCHANGED <<mode, pending, done, reply>>

NoIncoming ==
    /\ InPhase("incoming") /\ tab.inc = NoOff
    /\ stack' = IF tab.out = NoOff THEN NextPhase("reclaim", 0, "none")
                ELSE NextPhase("outgoing", 0,
                               IF FindRecord(tab, Outgoing.id) # 0 THEN "DELETED" ELSE "INVALID")
    /\ NoFlashOp
    /\ UNCHANGED <<tab, mode, pending, done, reply>>

ResolveOutgoing ==
    /\ InPhase("outgoing")
    /\ Succeeds(StatusOp(tab.out, Top.outTo))
    /\ tab'   = IF Top.outTo = "DELETED" THEN Cleared(tab, tab.out) ELSE MarkedInvalid(tab, tab.out)
    /\ stack' = NextPhase("reclaim", 0, "none")
    /\ UNCHANGED <<mode, pending, done, reply>>

ResolveFault ==
    /\ \/ InPhase("outgoing")
       \/ InPhase("incoming") /\ tab.inc # NoOff /\ (tab.out = NoOff => ~Mergeable)
    /\ Fails(StatusOp(IF InPhase("incoming") THEN tab.inc ELSE tab.out, "INVALID"), FALSE)
    /\ Unwind(tab)
    /\ UNCHANGED done

(* The blocks with an INVALID record are reclaimed one after the other. *)
ToReclaim == {b \in Top.b..(NumBlocks - 1) : tab.blk[b].valid < 0}

ReclaimInvalid ==
    /\ InPhase("reclaim") /\ ToReclaim # {}
    /\ LET b == CHOOSE x \in ToReclaim : \A y \in ToReclaim : x <= y
       IN stack' = <<ReclaimFrame(b)>> \o NextPhase("reclaim", b + 1, "none")
    /\ NoFlashOp
    /\ UNCHANGED <<tab, mode, pending, done, reply>>

(* The count of free blocks is a UINT8. *)
UsedBlocks == {b \in Block : tab.blk[b].valid # 0}
FreeBlocks == (NumBlocks - Cardinality(UsedBlocks)) % 256

InitDone ==
    /\ InPhase("reclaim") /\ ToReclaim = {}
    /\ IF FreeBlocks > 0
         THEN /\ tab'   = [tab EXCEPT
                             !.unsynced = 0,
                             !.recent = IF UsedBlocks = {} THEN @
                                        ELSE CHOOSE b \in UsedBlocks : \A c \in UsedBlocks : c <= b]
              /\ stack' = <<>>
              /\ UNCHANGED <<mode, pending, reply>>
         ELSE Unwind(tab)
    /\ NoFlashOp
    /\ UNCHANGED done

-----------------------------------------------------------------------------
(* Power is lost, between two flash operations or in the middle of one. *)
CurrentOps ==
    CASE Writing -> IF WriteAllowed THEN {WriteOp} ELSE {}
      [] Doing("reclaim") /\ tab.blk[Top.b].valid >= 0 -> {EraseOp(Top.b)}
      [] InPhase("scan") /\ MustErase(Scanned) -> {EraseOp(Top.b)}
      [] OTHER -> {}

Crash ==
    /\ mode # "off" /\ crashes < MaxCrashes
    /\ flash' \in {flash} \cup UNION {Torn(op) : op \in CurrentOps}
    /\ crashes' = crashes + 1
    /\ mode'    = "off"
    /\ stack'   = <<>>
    /\ tab'     = EmptyTables
    /\ pending' = NoReq
    /\ shadow'  = flash'
    /\ UNCHANGED <<done, reply, faults>>

Init ==
    /\ flash = [o \in Off |-> Erased] /\ shadow = flash
    /\ tab = EmptyTables /\ mode = "off" /\ stack = <<>>
    /\ pending = NoReq /\ done = FALSE /\ reply = NoReply
    /\ crashes = 0 /\ faults = 0

(* The driver's own steps. *)
DriverStep ==
    \/ AnswerFailed \/ AnswerDone \/ AnswerRead \/ AnswerDummy
    \/ ClearNotFound \/ Clear \/ ClearFault
    \/ StartWrite \/ TakeSpace \/ StartReclaim \/ NoSpace
    \/ Relocate \/ EraseReclaimed \/ EraseFault
    \/ WriteStep \/ WriteFault \/ WriteRefused
    \/ ScanBlock \/ ScanFault
    \/ ResolveIncoming \/ MergeIncoming \/ InvalidateIncoming \/ NoIncoming
    \/ ResolveOutgoing \/ ResolveFault
    \/ ReclaimInvalid \/ InitDone

Next ==
    \/ PowerOn
    \/ \E r \in Request : Receive(r)
    \/ DriverStep
    \/ Crash

Spec == Init /\ [][Next]_vars

(* The handler runs to completion: nothing else runs in StandaloneMM        *)
(* meanwhile.                                                               *)
FairSpec == Spec /\ WF_vars(DriverStep)

-----------------------------------------------------------------------------
(* Erst implements ErstRecords: a slot is an offset, and what a slot holds  *)
(* is what ErstCollectBlock's walk over the flash would find there.         *)

RecordAt(o) ==
    LET w == Walk(flash, BlockOf(o))
        c == flash[o]
    IN CASE o \in w.starts ->
              [st |-> StatusOf(c), id |-> IdOf(c), val |-> ValAt(flash, o, LenOf(c))]
         [] IsHeader(c) /\ o \notin w.starts /\ w.why = "invalid"
            /\ o = Base(BlockOf(o)) + w.end ->
              [st |-> StatusOf(c), id |-> IdOf(c),
               val |-> IF IdOf(c) = NoId THEN NoVal ELSE ValAt(flash, o, LenOf(c))]
         [] OTHER -> [st |-> "FREE", id |-> NoId, val |-> NoVal]

RecCopies == [o \in Start |-> RecordAt(o)]

RecMode ==
    CASE mode # "up" -> mode
      [] mode = "up" /\ Initing -> "init"
      [] mode = "up" /\ ~Initing /\ pending # NoReq -> "busy"
      [] OTHER -> IF Stale THEN "stale" ELSE "idle"

RecPending ==
    IF pending = NoReq THEN NoReq
    ELSE [op |-> pending.op, id |-> pending.id, val |-> pending.val]

(* A write that the shadow refuses from the start never begins. *)
RecPut ==
    IF Writing /\ (Top.step = "INCOMING" => WriteAllowed)
      THEN [step |-> Top.step, kind |-> IF Top.who = "write" THEN "write" ELSE "move",
            id |-> Top.id, val |-> Top.val, cur |-> Top.cur, new |-> Top.new]
      ELSE [step |-> "none", kind |-> "none", id |-> NoId, val |-> NoVal,
            cur |-> NoOff, new |-> NoOff]

RecReply == [status |-> reply.status, val |-> reply.val]

Records == INSTANCE ErstRecords WITH
    Slot <- Start, NoSlot <- NoOff, copies <- RecCopies, mode <- RecMode,
    pending <- RecPending, put <- RecPut, reply <- RecReply
RecordsSpec == Records!Spec
=============================================================================
