------------------------------ MODULE SeqFlash ------------------------------
(***************************************************************************)
(* One partition of sequential records, as SequentialRecordStorage.c reads *)
(* it: the blocks of the partition, the records each of them holds, and    *)
(* what the scans of the driver find there.  Nothing is kept in memory     *)
(* between two requests: the flash is the only state, and every request    *)
(* works out from it which block is in use and where its last record is.   *)
(*                                                                         *)
(* A record is reduced to the number n of the request that wrote it and    *)
(* the room it takes, in units.  Behind its last whole record a block is   *)
(* "blank" (erased), "junk" (programmed, without the flag of a record), or *)
(* "flagged" (a header with ACTIVE_PAGE_MAGIC whose checksum is wrong).    *)
(* A block that has only ever been appended to has no whole record behind  *)
(* one that is not.                                                        *)
(***************************************************************************)
EXTENDS Naturals, SequencesExt, FiniteSetsExt

CONSTANTS NumBlocks,   \* blocks of a partition
          BlockUnits   \* units of a block

\* ValidatePartitionInfo asks for MIN_PARTITION_BLOCKS, which is 2.
ASSUME FlashAssumption ==
    /\ NumBlocks \in Nat /\ NumBlocks >= 2
    /\ BlockUnits \in Nat \ {0}

Block == 1 .. NumBlocks

BlankBlock == [recs |-> << >>, end |-> "blank", retired |-> FALSE]

\* The offset behind the last record of the block, as the scan adds it up.
Used(b) ==
    LET end[k \in 0 .. Len(b.recs)] ==
            IF k = 0 THEN 0 ELSE end[k - 1] + b.recs[k].len
    IN  end[Len(b.recs)]

(***************************************************************************)
(* What the scans find.                                                    *)
(***************************************************************************)
\* The flag of the first header of the block is ACTIVE_PAGE_MAGIC.
Flagged(b) == ~b.retired /\ (b.recs # << >> \/ b.end = "flagged")

NoActiveBlock(p) == \A i \in Block : ~Flagged(p[i])

\* The first block that is flagged; the first of all when there is none.
ActiveBlock(p) ==
    IF NoActiveBlock(p) THEN 1 ELSE Min({i \in Block : Flagged(p[i])})

\* The records of the active block, up to the first that is not valid.
Scan(p) == IF NoActiveBlock(p) THEN << >> ELSE p[ActiveBlock(p)].recs

\* 0 stands for an error: no active block, or none of its records is valid.
ReadNthRecordFromEnd(p, k) ==
    LET s == Scan(p) IN IF k \in 1 .. Len(s) THEN s[Len(s) + 1 - k].n ELSE 0

ReadLastRecord(p) == ReadNthRecordFromEnd(p, 1)

(***************************************************************************)
(* Where the next record goes.                                             *)
(***************************************************************************)
GetNextWriteBlock(i) == IF i = NumBlocks THEN 1 ELSE i + 1

\* The room the valid records of the active block take: 0 at its start.
GetWriteNextOffset(p) ==
    IF NoActiveBlock(p) THEN 0 ELSE Used(p[ActiveBlock(p)])

IsSpiNorRegionErased(b) == b.end = "blank"

\* The record does not fit, or the place behind the last one is not erased.
MustSwitch(p, len) ==
    \/ GetWriteNextOffset(p) + len > BlockUnits
    \/ GetWriteNextOffset(p) # 0 /\ ~IsSpiNorRegionErased(p[ActiveBlock(p)])

WriteBlock(p, len) ==
    IF MustSwitch(p, len) THEN GetNextWriteBlock(ActiveBlock(p))
                          ELSE ActiveBlock(p)

\* The record becomes the first of its block, which is erased before.
IsFirstRecord(p, len) == MustSwitch(p, len) \/ GetWriteNextOffset(p) = 0

(***************************************************************************)
(* What the flash does.  Programming only clears bits, so a record written *)
(* over others is not valid: its flag survives where the old flag has the  *)
(* same bits, and RETIRED_PAGE_MAGIC (0xFC) wins over ACTIVE_PAGE_MAGIC    *)
(* (0xFE).  A write that fails or is cut short has programmed nothing, or  *)
(* some bytes, among them the flag or not.                                 *)
(***************************************************************************)
Unreadable(b, end) == [b EXCEPT !.recs = << >>, !.end = end]

Append1(b, r) == [b EXCEPT !.recs = Append(@, r)]

Programmed(b, r, first) ==
    IF (first /\ b = BlankBlock) \/ (~first /\ b.end = "blank")
    THEN {Append1(b, r)}
    ELSE IF ~first THEN {[b EXCEPT !.end = "junk"]}
    ELSE {Unreadable(b, end) : end \in IF Flagged(b) THEN {"flagged"}
                                      ELSE {"junk", "flagged"}}

CutProgram(b, r, first) ==
    {b} \union IF first THEN {Unreadable(b, end) : end \in {"junk", "flagged"}}
                        ELSE {[b EXCEPT !.end = "junk"]}

\* An erase that fails or is cut short: the old contents, some of them, or none.
CutErase(b) == {b, Unreadable(BlankBlock, "junk"), BlankBlock}

\* The erase of the whole partition, cut short in block i.
CutErasePartition(p) ==
    UNION {{[j \in Block |-> IF j < i THEN BlankBlock
                             ELSE IF j = i THEN b ELSE p[j]] :
            b \in CutErase(p[i])} : i \in Block}
=============================================================================
