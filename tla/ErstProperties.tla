----------------------------- MODULE ErstProperties -----------------------------
(****************************************************************************)
(* What must be true of the tables, the blocks and the copy of the flash in *)
(* Erst.  What an OS sees of the records is the refinement of ErstRecords   *)
(* (RecordsSpec); these are the properties behind it and the properties     *)
(* that ErstRecords cannot state.                                           *)
(****************************************************************************)
EXTENDS Erst

(* The records that the walk of block b lists, and what it sums.            *)
Listed(mem, b) == {Entry(r.id, r.len, r.off) : r \in Range(Walk(mem, b).listed)}
EndOf(mem, b) == Walk(mem, b).end
DeletedIn(mem, b) == Walk(mem, b).deleted
LiveIn(mem, b) == EndOf(mem, b) - DeletedIn(mem, b)
TailWaste(b) ==
    LET rest == BlockSize - EndOf(flash, b) IN IF rest < HdrSize THEN {0, rest} ELSE {0}

(* The driver waits for a request and believes that its tables are right.   *)
Settled == mode = "up" /\ stack = <<>> /\ pending = NoReq /\ ~Stale

Steps == {"space", "INCOMING", "data", "OUTGOING", "VALID", "DELETED"}

Frame ==
    [f : {"put"}, who : {"write", "move", "merge"}, id : Id, len : RecLen, val : Val \cup {NoVal},
     cur : Off \cup {NoOff}, new : Off \cup {NoOff}, step : Steps]
      \cup [f : {"reclaim"}, b : Block]
      \cup [f : {"init"}, phase : {"scan", "incoming", "outgoing", "reclaim"},
            b : 0..NumBlocks, outTo : {"none", "VALID", "DELETED", "INVALID"}]

(* The type of the state: in particular a stack never holds more frames     *)
(* than the driver has record buffers for (MAX_RECORD_POOLS), and           *)
(* UnsyncedSpinorChanges never goes below 0.                                *)
TypeOK ==
    /\ mode \in {"off", "up", "failed"}
    /\ pending \in Request \cup {NoReq}
    /\ done \in BOOLEAN
    /\ reply.status \in {"none", "ok", "notfound", "error"}
    /\ \A k \in 1..Len(stack) : stack[k] \in Frame
    /\ Cardinality({k \in 1..Len(stack) : stack[k].f = "put"}) <= 4
    /\ tab.unsynced \in Nat
    /\ tab.inc \in Off \cup {NoOff} /\ tab.out \in Off \cup {NoOff}
    /\ tab.recent \in Block
    /\ crashes \in 0..MaxCrashes /\ faults \in 0..MaxFaults

-----------------------------------------------------------------------------
(* When the tables are believed to be right, the list holds exactly the     *)
(* records that are on the flash, and each block's entry has their number   *)
(* and the space of the deleted ones, whatever was relocated, merged,       *)
(* cleared or undone on the way (UnsyncedSpinorChanges,                     *)
(* ErstAllocateNewRecord, ErstDeallocateRecord, ErstFreeRecord).            *)
RecordsTracked ==
    Settled =>
      /\ Range(tab.list) = UNION {Listed(flash, b) : b \in Block}
      /\ Len(tab.list) = Cardinality(Range(tab.list))
      /\ \A b \in Block :
           /\ tab.blk[b].valid = Cardinality(Listed(flash, b))
           /\ tab.blk[b].valid > 0 => tab.blk[b].wasted - DeletedIn(flash, b) \in TailWaste(b)
           /\ IsFree(tab, b) => EndOf(flash, b) = 0

(* ... and UsedSize is where the next record of the block goes: behind the  *)
(* last record (ErstPrepareNewRecord, ErstUndoAllocateRecord,               *)
(* ErstCopyValidToIncomingCper).                                            *)
SpaceTracked ==
    Settled => \A b \in Block : tab.blk[b].valid > 0 => tab.blk[b].used = EndOf(flash, b)

(* ... and the copy that reads are answered from is what the flash holds    *)
(* (ErstWriteSpiNor and ErstEraseSpiNor change the copy first).             *)
ShadowInSync == Settled => shadow = flash

(* A reclaim always has somewhere to move records to: between requests a    *)
(* block is erased (ErstFindFreeSpace never gives the last one away).       *)
OneFreeBlock == Settled => \E b \in Block : IsFree(tab, b) /\ BlockErased(flash, b)

(* A write is refused only when no block can be made to hold the record:    *)
(* one erased block is kept in reserve, and every other block has too many  *)
(* live bytes (ErstFindFreeSpace, ErstReclaimBlock).                        *)
Full(n) ==
    \E reserve \in Block :
      /\ BlockErased(flash, reserve)
      /\ \A b \in Block \ {reserve} : LiveIn(flash, b) + n > BlockSize
Refuses == pending # NoReq /\ pending.op = "write" /\ pending' = NoReq /\ reply'.status = "error"
RefusedOnlyWhenFull == [][Refuses => Full(pending.len)]_vars

(* "When a CPER is written, it is always written after all the previous     *)
(* CPERs in the block": over erased flash, but for the status byte of an    *)
(* earlier attempt.  The space that the tables call free is free, after     *)
(* every error and every power loss (ErstPrepareNewRecord, ErstWriteRecord).*)
NeverOverwrite ==
    Writing /\ WriteAllowed /\ Top.step = "INCOMING" /\ Top.who # "merge" =>
      /\ flash[Top.new] \in {Erased, Header("INCOMING", NoId, 0)}
      /\ \A k \in 1..(Top.len - 1) : flash[Top.new + k] = Erased

(* An OS that reads ERST_FIRST_RECORD_ID and then follows the ids that it   *)
(* gets meets every stored record before it is back at the first            *)
(* (ErstGetNextRecordID).                                                   *)
EnumerationComplete ==
    Settled /\ tab.list # <<>> =>
      LET id[k \in 1..(Len(tab.list) + 1)] ==
            IF k = 1 THEN FirstId(tab) ELSE NextId(tab, id[k - 1])
      IN /\ {id[k] : k \in 1..Len(tab.list)} = {r.id : r \in UNION {Listed(flash, b) : b \in Block}}
         /\ id[Len(tab.list) + 1] = FirstId(tab)

(* Every request is answered, through any chain of reclaims and             *)
(* relocations (ErrorSerializationEventHandler; ErstFindFreeSpace,          *)
(* ErstReclaimBlock and ErstRelocateRecord call each other).                *)
RequestAnswered == pending # NoReq ~> pending = NoReq

(* "All blocks are used, which shouldn't be possible": the assertion at the *)
(* end of ErstCollectBlockInfo.                                             *)
FreeBlockAfterInit == InPhase("reclaim") /\ ToReclaim = {} => FreeBlocks > 0
=============================================================================
