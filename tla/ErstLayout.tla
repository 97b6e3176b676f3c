------------------------------ MODULE ErstLayout ------------------------------
(****************************************************************************)
(* The ERST partition of the NOR flash: cells, what programming and erasing *)
(* do to them, and how the driver walks the records of a block.             *)
(*                                                                          *)
(* A cell is a unit of length.  The first cell of a record carries the      *)
(* status byte, the record id and the record length; the others carry the   *)
(* content, which is the set of the bits that are 1 in it: programming can  *)
(* only remove members, erasing brings all of them back.                    *)
(****************************************************************************)
EXTENDS Integers, Sequences, SequencesExt

CONSTANTS
    NumBlocks,  \* erasable ERST blocks in the partition
    BlockSize,  \* cells in a block
    HdrSize,    \* cells of a CPER header
    RecLen,     \* lengths of the records, in cells, header included
    Id, Val,    \* record ids; record contents, as sets of bits
    NoId, NoVal, NoOff

Block == 0..(NumBlocks - 1)
Off   == 0..(NumBlocks * BlockSize - 1)

ASSUME LayoutAssumption ==
    /\ NumBlocks \in Nat \ {0, 1} /\ HdrSize \in Nat \ {0}
    /\ BlockSize \in Nat /\ BlockSize >= HdrSize
    /\ RecLen \subseteq HdrSize..BlockSize
    /\ NoOff \notin Off /\ NoId \notin Id /\ NoVal \notin Val

(* Records are stored back to back: where one can start. *)
Start ==
    LET reach[k \in 0..BlockSize] ==
          k = 0 \/ \E n \in RecLen : n <= k /\ reach[k - n]
    IN {o \in Off : reach[o % BlockSize] /\ o % BlockSize <= BlockSize - HdrSize}

BlockOf(o) == o \div BlockSize
Base(b)    == b * BlockSize

Erased            == <<"erased">>
Header(st, i, n)  == <<"header", st, i, n>>
Body(v)           == <<"body", v>>
Junk              == <<"junk">>

IsHeader(c) == c[1] = "header"
StatusOf(c) == c[2]
IdOf(c)     == c[3]
LenOf(c)    == c[4]

(* Each status byte keeps a subset of the 1 bits of the one before it. *)
StatusOrder == <<"FREE", "INCOMING", "VALID", "OUTGOING", "DELETED", "INVALID">>
Rank(st)    == CHOOSE n \in 1..6 : StatusOrder[n] = st

-----------------------------------------------------------------------------
(* The bits that are 1 in both m and n.  (Bitwise's operator is RECURSIVE,  *)
(* which rules out proofs; no length has more bits than a block has cells.) *)
BitAnd(m, n) ==
    LET low[k \in 0..BlockSize] ==
          IF k = 0 THEN 0
          ELSE low[k - 1] + 2^(k - 1) * ((m \div 2^(k - 1)) % 2) * ((n \div 2^(k - 1)) % 2)
    IN low[BlockSize]

(* Programming the cell new over the cell old: a bitwise AND. *)
Program(old, new) ==
    CASE old = Erased -> new
      [] new = Erased -> old
      [] IsHeader(old) /\ IsHeader(new) ->
           LET st == IF Rank(StatusOf(old)) > Rank(StatusOf(new))
                       THEN StatusOf(old) ELSE StatusOf(new)
           IN CASE IdOf(old) = NoId -> Header(st, IdOf(new), LenOf(new))
                [] IdOf(new) = NoId -> Header(st, IdOf(old), LenOf(old))
                [] IdOf(old) = IdOf(new) -> Header(st, IdOf(old), BitAnd(LenOf(old), LenOf(new)))
                [] OTHER -> Junk
      [] old[1] = "body" /\ new[1] = "body" -> Body(old[2] \cap new[2])
      [] OTHER -> Junk

Within(o, at, cells) == o >= at /\ o < at + Len(cells)

(* The flash is programmed; the driver's copy of it is overwritten. *)
Programmed(mem, at, cells) ==
    [o \in Off |-> IF Within(o, at, cells) THEN Program(mem[o], cells[o - at + 1]) ELSE mem[o]]
Copied(mem, at, cells) ==
    [o \in Off |-> IF Within(o, at, cells) THEN cells[o - at + 1] ELSE mem[o]]

(* The cells of a record as ErstWriteRecord writes them. *)
RecordCells(i, n, v) ==
    [k \in 1..n |-> IF k = 1 THEN Header("INCOMING", i, n) ELSE Body(v)]

(* The status byte alone, over a header or over erased space. *)
SetStatus(mem, at, st) ==
    [mem EXCEPT ![at] = IF IsHeader(@) THEN Header(st, IdOf(@), LenOf(@))
                        ELSE IF @ = Erased THEN Header(st, NoId, 0) ELSE Junk]

(* ErstWriteCperStatus refuses to set bits to 1.  Where the status byte     *)
(* would land inside a record, its content decides: one with all the bits   *)
(* set lets it through.                                                     *)
StatusAccepted(mem, at, st) ==
    \/ mem[at] = Erased
    \/ IsHeader(mem[at]) /\ Rank(st) >= Rank(StatusOf(mem[at]))
    \/ mem[at] = Body(UNION Val)

ErasedPrefix(mem, b, n) ==
    [o \in Off |-> IF o >= Base(b) /\ o < Base(b) + n THEN Erased ELSE mem[o]]
EraseAll(mem, b) == ErasedPrefix(mem, b, BlockSize)

BlockErased(mem, b) == \A k \in 0..(BlockSize - 1) : mem[Base(b) + k] = Erased

(* The content of the record of length n at o, if it is complete. *)
ValAt(mem, o, n) ==
    IF \E v \in Val : \A k \in 1..(n - 1) : mem[o + k] = Body(v)
      THEN CHOOSE v \in Val : \A k \in 1..(n - 1) : mem[o + k] = Body(v)
      ELSE NoVal

-----------------------------------------------------------------------------
(* ErstCollectBlock's walk over the block b: the records with a readable    *)
(* header (where they start; the list of those that are not DELETED; the    *)
(* length of the DELETED ones), where it stops and why.                     *)

HeaderOk(c, room) ==
    StatusOf(c) # "INVALID" /\ IdOf(c) # NoId /\ LenOf(c) \in HdrSize..room

Stopped(k, why) == [starts |-> {}, listed |-> <<>>, deleted |-> 0, end |-> k, why |-> why]

(* The header c at o, and what the walk w finds behind its record. *)
Passed(c, o, w) ==
    IF StatusOf(c) = "DELETED"
      THEN [w EXCEPT !.starts = @ \cup {o}, !.deleted = @ + LenOf(c)]
      ELSE [w EXCEPT !.starts = @ \cup {o},
                     !.listed = <<[st |-> StatusOf(c), id |-> IdOf(c),
                                   len |-> LenOf(c), off |-> o]>> \o @]

(* An INCOMING record is the last one. *)
FromHeader(mem, b, k, rest) ==
    LET o == Base(b) + k
        c == mem[o]
    IN IF ~IsHeader(c) \/ ~HeaderOk(c, BlockSize - k) THEN Stopped(k, "invalid")
       ELSE IF StatusOf(c) = "INCOMING" THEN Passed(c, o, Stopped(k, "incoming"))
       ELSE Passed(c, o, rest[k + LenOf(c)])

(* A faulty variant: the space behind the last record is taken to be free. *)
WalkTrusting(mem, b) ==
    LET rest[k \in 0..BlockSize] ==
          IF k > BlockSize - HdrSize THEN Stopped(k, "full")
          ELSE IF mem[Base(b) + k] = Erased THEN Stopped(k, "free")
          ELSE FromHeader(mem, b, k, rest)
    IN rest[0]

Walk(mem, b) ==
    LET rest[k \in 0..BlockSize] ==
          IF k > BlockSize - HdrSize THEN Stopped(k, "full")
          ELSE IF \A j \in k..(BlockSize - 1) : mem[Base(b) + j] = Erased THEN Stopped(k, "free")
          ELSE FromHeader(mem, b, k, rest)
    IN rest[0]
=============================================================================
