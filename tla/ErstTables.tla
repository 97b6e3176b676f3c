------------------------------ MODULE ErstTables ------------------------------
(****************************************************************************)
(* The tracking tables of ErrorSerializationMmDxe (mErrorSerialization):    *)
(* the list of records in the order the OS sees them, one entry per block,  *)
(* which record is INCOMING and which OUTGOING (their offsets stand for the *)
(* pointers), the block written last, and the count of changes that are not *)
(* in sync with the flash.                                                  *)
(****************************************************************************)
EXTENDS ErstLayout, FiniteSets

CONSTANT Word   \* 2^32: the sizes of a block are UINT32

ASSUME WordAssumption == Word \in Nat /\ Word > BlockSize

Entry(i, n, o) == [id |-> i, len |-> n, off |-> o]

EmptyBlock  == [valid |-> 0, used |-> 0, wasted |-> 0]
EmptyTables == [list |-> <<>>, blk |-> [b \in Block |-> EmptyBlock],
                inc |-> NoOff, out |-> NoOff, unsynced |-> 0, recent |-> 0]

Unsync(t, n) == [t EXCEPT !.unsynced = @ + n]

(* The place of the record at offset o in the list. *)
IndexOf(t, o) == SelectInSeq(t.list, LAMBDA e : e.off = o)
EntryAt(t, o) == t.list[IndexOf(t, o)]

(* ErstFindRecord: 0 if there is none. *)
FindRecord(t, i) ==
    SelectInSeq(t.list, LAMBDA e : e.id = i /\ e.off \notin {t.inc, t.out})
FoundOffset(t, i) ==
    IF FindRecord(t, i) = 0 THEN NoOff ELSE t.list[FindRecord(t, i)].off

(* A faulty variant: the space is not taken. *)
PrepareEntryOnly(t, o, n) == [Unsync(t, 1) EXCEPT !.blk[BlockOf(o)].valid = @ + 1]

(* ErstPrepareNewRecord, once ErstFindFreeSpace has found the offset o. *)
Prepare(t, o, n) ==
    [Unsync(t, 1) EXCEPT !.blk[BlockOf(o)].used  = @ + n,
                         !.blk[BlockOf(o)].valid = @ + 1]

(* A faulty variant: the space is given back, the entry is still counted. *)
UndoAllocateSpaceOnly(t, o, n) == [Unsync(t, -1) EXCEPT !.blk[BlockOf(o)].used = @ - n]

UndoAllocate(t, o, n) ==
    [Unsync(t, -1) EXCEPT !.blk[BlockOf(o)].used  = @ - n,
                          !.blk[BlockOf(o)].valid = @ - 1]

(* A faulty variant: the space of the record is not counted as wasted. *)
FreeRecordNoWaste(t, e) ==
    [t EXCEPT !.blk[BlockOf(e.off)].valid =
                  CASE @ > 0 -> @ - 1 [] @ < 0 -> @ + 1 [] OTHER -> 0]

(* ErstFreeRecord: the entries of a block being reclaimed are negative. *)
FreeRecord(t, e) ==
    [t EXCEPT !.blk[BlockOf(e.off)].wasted = @ + e.len,
              !.blk[BlockOf(e.off)].valid =
                  CASE @ > 0 -> @ - 1 [] @ < 0 -> @ + 1 [] OTHER -> 0]

(* A faulty variant: the change is not counted. *)
AllocateNewUncounted(t, e) == [t EXCEPT !.list = Append(@, e)]

(* ErstAllocateNewRecord, for a record that is not in the list yet. *)
AllocateNew(t, e) == [Unsync(t, 1) EXCEPT !.list = Append(@, e)]

(* A faulty variant of DeallocateAt: the last record fills the hole. *)
DeallocateAtSwap(t, k) ==
    LET o == t.list[k].off
    IN [Unsync(t, -1) EXCEPT
          !.list = Front([t.list EXCEPT ![k] = Last(t.list)]),
          !.inc  = IF @ = o THEN NoOff ELSE @,
          !.out  = IF @ = o THEN NoOff ELSE @]

(* ErstDeallocateRecord: the records behind it move up. *)
DeallocateAt(t, k) ==
    LET o == t.list[k].off
    IN [Unsync(t, -1) EXCEPT
          !.list = RemoveAt(@, k),
          !.inc  = IF @ = o THEN NoOff ELSE @,
          !.out  = IF @ = o THEN NoOff ELSE @]
Deallocate(t, o) == DeallocateAt(t, IndexOf(t, o))

(* Mark a block as being reclaimed. *)
Reclaiming(t, b) ==
    [t EXCEPT !.blk[b].valid = IF @ > 0 THEN -@ ELSE @]

(* What ErstWriteCperStatus tracks after a status byte was written. *)
Tracked(t, o, st) ==
    CASE st = "INCOMING" -> [t EXCEPT !.inc = o]
      [] st = "OUTGOING" -> [t EXCEPT !.out = o]
      [] OTHER -> [t EXCEPT !.inc = IF @ = o THEN NoOff ELSE @,
                            !.out = IF @ = o THEN NoOff ELSE @]

(* ... and the moves it refuses: a second INCOMING or OUTGOING record. *)
TrackingAllows(t, o, st) ==
    /\ st = "INCOMING" => t.inc \in {NoOff, o}
    /\ st = "OUTGOING" => t.out \in {NoOff, o}

(* ErstGetNextRecordID: the id after i in the list, cyclically; NoId is     *)
(* ERST_INVALID_RECORD_ID.                                                  *)
FirstId(t) == IF t.list = <<>> THEN NoId ELSE t.list[1].id

(* A faulty variant: the last record but one is taken for the last. *)
NextIdShort(t, i) ==
    LET k == SelectInSeq(t.list, LAMBDA e : e.id = i)
    IN IF k \in 1..(Len(t.list) - 2) THEN t.list[k + 1].id ELSE FirstId(t)

NextId(t, i) ==
    LET k == SelectInSeq(t.list, LAMBDA e : e.id = i)
    IN IF k \in 1..(Len(t.list) - 1) THEN t.list[k + 1].id ELSE FirstId(t)

-----------------------------------------------------------------------------
(* ErstFindFreeSpace. *)

IsFree(t, b) == t.blk[b] = EmptyBlock

(* UINT32 arithmetic: more may be wasted than is used. *)
Live(t, b) == (t.blk[b].used - t.blk[b].wasted) % Word

(* The blocks in the order in which they are looked at. *)
ScanOrder(t) == [k \in 1..NumBlocks |-> (k - 1 + t.recent) % NumBlocks]

RoomIn(t, b, n) == t.blk[b].valid > 0 /\ t.blk[b].used + n <= BlockSize

(* The block to reclaim, NoOff if there is none: block b after w.  *)
BetterCandidate(t, n, w, b) ==
    CASE t.blk[b].valid = 0 -> IF IsFree(t, b) THEN w ELSE b
      [] t.blk[b].valid > 0 ->
           IF \/ w # NoOff /\ Live(t, w) < Live(t, b)
              \/ Live(t, b) + n <= BlockSize
           THEN b ELSE w
      [] OTHER -> w

ReclaimCandidate(t, n) ==
    LET best[k \in 0..NumBlocks] ==
          IF k = 0 THEN NoOff ELSE BetterCandidate(t, n, best[k - 1], ScanOrder(t)[k])
    IN best[NumBlocks]

Space(how, at) == [how |-> how, at |-> at]

(* A faulty variant: the last free block is given away. *)
FindFreeSpaceGreedy(t, n, dummy) ==
    LET order == ScanOrder(t)
        room  == SelectInSeq(order, LAMBDA b : RoomIn(t, b, n))
        free  == SelectInSeq(order, LAMBDA b : IsFree(t, b))
        waste == ReclaimCandidate(t, n)
    IN CASE room # 0 -> Space("found", Base(order[room]) + t.blk[order[room]].used)
         [] room = 0 /\ free # 0 -> Space("found", Base(order[free]))
         [] room = 0 /\ free = 0 /\ waste # NoOff -> Space("reclaim", waste)
         [] OTHER -> Space("none", NoOff)

(* A faulty variant: two blocks are kept in reserve. *)
FindFreeSpaceTwoReserved(t, n, dummy) ==
    LET order == ScanOrder(t)
        room  == SelectInSeq(order, LAMBDA b : RoomIn(t, b, n))
        free  == SelectInSeq(order, LAMBDA b : IsFree(t, b))
        spare == Cardinality({b \in Block : IsFree(t, b) \/ t.blk[b].valid < 0})
        waste == ReclaimCandidate(t, n)
    IN CASE room # 0 -> Space("found", Base(order[room]) + t.blk[order[room]].used)
         [] room = 0 /\ spare > 2 /\ free # 0 -> Space("found", Base(order[free]))
         [] room = 0 /\ ~(spare > 2 /\ free # 0) /\ waste # NoOff
            /\ t.out = NoOff /\ ~dummy -> Space("reclaim", waste)
         [] OTHER -> Space("none", NoOff)

(* A block with room, or a free block if another is free or being           *)
(* reclaimed, or what a reclaim will make of some block.                    *)
FindFreeSpace(t, n, dummy) ==
    LET order == ScanOrder(t)
        room  == SelectInSeq(order, LAMBDA b : RoomIn(t, b, n))
        free  == SelectInSeq(order, LAMBDA b : IsFree(t, b))
        spare == Cardinality({b \in Block : IsFree(t, b) \/ t.blk[b].valid < 0})
        waste == ReclaimCandidate(t, n)
    IN CASE room # 0 -> Space("found", Base(order[room]) + t.blk[order[room]].used)
         [] room = 0 /\ spare > 1 /\ free # 0 -> Space("found", Base(order[free]))
         [] room = 0 /\ ~(spare > 1 /\ free # 0)
            /\ waste # NoOff /\ t.out = NoOff /\ ~dummy -> Space("reclaim", waste)
         [] OTHER -> Space("none", NoOff)

-----------------------------------------------------------------------------
(* ErstCollectBlock: the entry of block b, and the records it adds to the   *)
(* list.                                                                    *)

CollectedBlock(w) ==
    LET n    == Len(w.listed)
        rest == BlockSize - w.end
    IN [valid  |-> IF w.why = "invalid" THEN -n ELSE n,
        used   |-> IF w.why \in {"invalid", "incoming"} THEN BlockSize ELSE w.end,
        wasted |-> w.deleted + (IF w.why \in {"invalid", "full"} THEN rest ELSE 0)]

MustErase(w) ==
    /\ CollectedBlock(w).valid = 0
    /\ CollectedBlock(w).used # 0 \/ w.why = "invalid"

(* ErstAddCperToList for each of the records. *)
Collected(t, b, w) ==
    LET at(st, old) == LET k == SelectInSeq(w.listed, LAMBDA r : r.st = st)
                       IN IF k = 0 THEN old ELSE w.listed[k].off
    IN [Unsync(t, Len(w.listed)) EXCEPT
          !.list = @ \o [k \in 1..Len(w.listed) |->
                           Entry(w.listed[k].id, w.listed[k].len, w.listed[k].off)],
          !.blk[b] = IF MustErase(w) THEN EmptyBlock ELSE CollectedBlock(w),
          !.inc = at("INCOMING", @),
          !.out = at("OUTGOING", @)]
=============================================================================
