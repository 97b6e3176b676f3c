--------------------------- MODULE ErstWriteProofs ---------------------------
(****************************************************************************)
(* The tables of ErrorSerializationMmDxe, its blocks and its copy of the    *)
(* flash stay what the flash holds, for any number and size of blocks, any  *)
(* lengths of records and any sequence of requests, until the first power   *)
(* loss or flash error. This module has the invariant and its first part:   *)
(* the write sequence of ErstWriteRecord. ErstSpaceProofs has the rest.     *)
(*                                                                          *)
(* The properties speak of the moments between two requests. In between the *)
(* tables are ahead of the flash, and the count of a block that is being    *)
(* reclaimed is negative. So the invariant is about the tables without the  *)
(* record in the making and without the mark of the reclaim (Bare),         *)
(* together with the stack that says what the driver is in the middle of    *)
(* (Shape), what is tracked of it (Tracking), the room that is left for     *)
(* what a reclaim still has to move (FreeKept), and the place of a record   *)
(* whose content is not written (BehindLast). While the driver initializes, *)
(* the invariant is about the blocks scanned so far (Starts).               *)
(*                                                                          *)
(* The lemmas before the invariant say what the operators of ErstLayout and *)
(* ErstTables do: blocks that are laid out record behind record, the walk   *)
(* over them, the list, the search for space, and what each change of the   *)
(* tables and of the flash leaves as it was.                                *)
(****************************************************************************)
EXTENDS ErstProperties, FiniteSetTheorems, SequenceTheorems, WellFoundedInduction, TLAPS

(***************************************************************************)
(* Cells and blocks.                                                       *)
(***************************************************************************)

\* The cells of a block.
CellsOf(b) == Base(b)..(Base(b) + BlockSize - 1)

\* A set of natural numbers that is not empty has a smallest member.
LEMMA SmallestIn ==
    ASSUME NEW T, T \subseteq Nat, T # {}
    PROVE  \E x \in T : \A y \in T : x <= y
<1> DEFINE Less == {ss \in Nat \X Nat : ss[1] < ss[2]}
<1>1. IsWellFoundedOn(Less, Nat)
  BY NatLessThanWellFounded DEF OpToRel
<1>2. \A a, b \in Nat : a < b => <<a, b>> \in Less
  <2> TAKE a, b \in Nat
  <2> HAVE a < b
  <2>1. <<a, b>> \in Nat \X Nat OBVIOUS
  <2> QED BY <2>1
<1> HIDE DEF Less
<1>3. PICK x \in T : \A y \in T : ~(<<y, x>> \in Less)
  BY <1>1, WFMin, Zenon
<1>4. x \in Nat /\ \A y \in T : y \in Nat /\ ~(y < x)
  BY <1>3, <1>2, Zenon
<1> QED BY <1>4

\* The sizes that LayoutAssumption gives.
LEMMA Sizes ==
    /\ NumBlocks \in Nat /\ NumBlocks >= 2
    /\ BlockSize \in Nat /\ HdrSize \in Nat /\ HdrSize >= 1 /\ BlockSize >= HdrSize
    /\ \A n \in RecLen : n \in Nat /\ HdrSize <= n /\ n <= BlockSize
BY LayoutAssumption

\* The block b + 1 starts a block length behind b.
LEMMA Times ==
    ASSUME NEW m \in Nat, NEW n \in Nat, NEW s \in Nat, m < n
    PROVE  m * s \in Nat /\ n * s \in Nat /\ m * s + s <= n * s
<1>1. PICK d \in Nat : n = m + 1 + d
  <2>1. n - m - 1 \in Nat /\ n = m + 1 + (n - m - 1)
    OBVIOUS
  <2> QED BY <2>1
<1>2. n * s = m * s + s + d * s
  BY <1>1
<1>3. d * s \in Nat /\ m * s \in Nat
  OBVIOUS
<1> QED BY <1>2, <1>3

\* The cells of a block are cells of the partition, and BlockOf finds the
\* block again.
LEMMA BlockCells ==
    ASSUME NEW b \in Block
    PROVE  /\ b \in Nat /\ Base(b) \in Nat
           /\ CellsOf(b) \subseteq Off
           /\ \A o \in CellsOf(b) : BlockOf(o) = b /\ o % BlockSize = o - Base(b)
<1>1. b \in Nat /\ b < NumBlocks /\ NumBlocks \in Nat /\ BlockSize \in Nat /\ BlockSize >= 1
  BY Sizes DEF Block
<1>2. b * BlockSize \in Nat /\ b * BlockSize + BlockSize <= NumBlocks * BlockSize
      /\ NumBlocks * BlockSize \in Nat
  BY <1>1, Times
<1>3. ASSUME NEW o \in CellsOf(b) PROVE o \div BlockSize = b /\ o % BlockSize = o - b * BlockSize
  <2>1. PICK k \in 0..(BlockSize - 1) : o = b * BlockSize + k
    <3>1. o - b * BlockSize \in 0..(BlockSize - 1)
      BY <1>1, <1>2 DEF CellsOf, Base
    <3> QED BY <3>1, <1>2, <1>1 DEF CellsOf, Base
  <2> QED BY <2>1, <1>1
<1> QED BY <1>1, <1>2, <1>3 DEF CellsOf, Base, Off, BlockOf

\* Every cell of the partition is one of the block that BlockOf gives.
LEMMA CellsBlock ==
    ASSUME NEW o \in Off
    PROVE  BlockOf(o) \in Block /\ o \in CellsOf(BlockOf(o))
<1>1. NumBlocks \in Nat /\ BlockSize \in Nat /\ BlockSize >= 1 /\ o \in Nat /\ o < NumBlocks * BlockSize
  BY Sizes DEF Off
<1> DEFINE q == o \div BlockSize
<1>2. q \in Int /\ BlockSize * q <= o /\ o < BlockSize * q + BlockSize
  BY <1>1
<1>3. q >= 0 
  BY <1>1, <1>2
<1>4. q < NumBlocks
  <2>1. SUFFICES ASSUME NumBlocks <= q PROVE FALSE
    BY <1>1, <1>2
  <2>2. NumBlocks * BlockSize <= q * BlockSize
    BY <2>1, <1>1, <1>3, Times
  <2> QED BY <2>2, <1>1, <1>2
<1> QED BY <1>1, <1>2, <1>3, <1>4 DEF BlockOf, CellsOf, Base, Block

(***************************************************************************)
(* What a block holds.                                                     *)
(***************************************************************************)

\* The cells of a record.
Extent(e)  == e.off..(e.off + e.len - 1)

\* The headers in a block, and the record that one of them begins.
Heads(mem, b)    == {o \in CellsOf(b) : IsHeader(mem[o])}
RecordOf(mem, o) == Entry(IdOf(mem[o]), LenOf(mem[o]), o)

\* The block b is laid out as the driver does it: u cells are used, behind
\* them it is erased; records follow one another from its first cell on.
Laid(mem, b, u) ==
    /\ u \in 0..BlockSize
    /\ \A o \in CellsOf(b) : o >= Base(b) + u => mem[o] = Erased
    /\ u > 0 => Base(b) \in Heads(mem, b)
    /\ \A o \in Heads(mem, b) :
         /\ IdOf(mem[o]) \in Id /\ LenOf(mem[o]) \in RecLen
         /\ o + LenOf(mem[o]) <= Base(b) + u
         /\ o + LenOf(mem[o]) < Base(b) + u => IsHeader(mem[o + LenOf(mem[o])])
         /\ \A p \in (o + 1)..(o + LenOf(mem[o]) - 1) : ~IsHeader(mem[p])

\* The records of a block that are not DELETED, and the cells of those that
\* are.
LiveHeads(mem, b) == {o \in Heads(mem, b) : StatusOf(mem[o]) # "DELETED"}
DeadHeads(mem, b)  == {o \in Heads(mem, b) : StatusOf(mem[o]) = "DELETED"}
Held(mem, b)  == {RecordOf(mem, o) : o \in LiveHeads(mem, b)}
Gone(mem, b)  == UNION {Extent(RecordOf(mem, o)) : o \in DeadHeads(mem, b)}

\* What the fields of a cell are; the content of a record is never taken for a
\* header.
LEMMA HeaderFields ==
    /\ ~IsHeader(Erased)
    /\ \A v : ~IsHeader(Body(v))
    /\ \A st, i, n : /\ IsHeader(Header(st, i, n)) /\ Header(st, i, n) # Erased
                     /\ StatusOf(Header(st, i, n)) = st
                     /\ IdOf(Header(st, i, n)) = i
                     /\ LenOf(Header(st, i, n)) = n
<1>1. ~IsHeader(Erased)
  BY DEF IsHeader, Erased
<1>2. \A v : ~IsHeader(Body(v))
  BY DEF IsHeader, Body
<1>3. ASSUME NEW st, NEW i, NEW n
      PROVE  /\ IsHeader(Header(st, i, n))
             /\ StatusOf(Header(st, i, n)) = st
             /\ IdOf(Header(st, i, n)) = i
             /\ LenOf(Header(st, i, n)) = n
  BY <1>3 DEF IsHeader, Header, StatusOf, IdOf, LenOf
<1> QED BY <1>1, <1>2, <1>3

\* The fields of an entry of the list.
LEMMA EntryFields ==
    \A i, n, o : Entry(i, n, o).id = i /\ Entry(i, n, o).len = n /\ Entry(i, n, o).off = o
BY DEF Entry

\* The records of a block, by their headers.
LEMMA HeldIs ==
    ASSUME NEW mem, NEW b \in Block
    PROVE  /\ \A e \in Held(mem, b) :
                /\ e.off \in CellsOf(b) /\ IsHeader(mem[e.off])
                /\ StatusOf(mem[e.off]) # "DELETED" /\ e = RecordOf(mem, e.off)
                /\ e.id = IdOf(mem[e.off]) /\ e.len = LenOf(mem[e.off])
           /\ \A o \in CellsOf(b) :
                IsHeader(mem[o]) /\ StatusOf(mem[o]) # "DELETED" => RecordOf(mem, o) \in Held(mem, b)
<1>1. ASSUME NEW e \in Held(mem, b)
      PROVE  /\ e.off \in CellsOf(b) /\ IsHeader(mem[e.off])
             /\ StatusOf(mem[e.off]) # "DELETED" /\ e = RecordOf(mem, e.off)
             /\ e.id = IdOf(mem[e.off]) /\ e.len = LenOf(mem[e.off])
  <2>1. PICK o \in LiveHeads(mem, b) : e = RecordOf(mem, o)
    BY DEF Held
  <2>2. e.off = o /\ e.id = IdOf(mem[o]) /\ e.len = LenOf(mem[o])
    BY <2>1, EntryFields DEF RecordOf
  <2> QED BY <2>1, <2>2 DEF LiveHeads, Heads
<1>2. ASSUME NEW o \in CellsOf(b), IsHeader(mem[o]), StatusOf(mem[o]) # "DELETED"
      PROVE  RecordOf(mem, o) \in Held(mem, b)
  BY <1>2 DEF Held, LiveHeads, Heads
<1> QED BY <1>1, <1>2

\* The cells of a block that deleted records occupy.
LEMMA GoneIs ==
    ASSUME NEW mem, NEW b \in Block, NEW x
    PROVE  x \in Gone(mem, b) <=>
              \E o \in CellsOf(b) : /\ IsHeader(mem[o]) /\ StatusOf(mem[o]) = "DELETED"
                                    /\ x \in o..(o + LenOf(mem[o]) - 1)
<1>1. \A o : Extent(RecordOf(mem, o)) = o..(o + LenOf(mem[o]) - 1)
  BY EntryFields DEF Extent, RecordOf
<1> QED BY <1>1 DEF Gone, DeadHeads, Heads

\* A record lies in its block, behind it another one starts or nothing is
\* written, and no header lies inside it.
LEMMA LaidRecord ==
    ASSUME NEW mem, NEW b \in Block, NEW u, Laid(mem, b, u),
           NEW o \in CellsOf(b), IsHeader(mem[o])
    PROVE  /\ u \in Nat /\ u <= BlockSize /\ o \in Nat /\ Base(b) \in Nat /\ Base(b) <= o
           /\ IdOf(mem[o]) \in Id /\ LenOf(mem[o]) \in RecLen
           /\ LenOf(mem[o]) \in Nat /\ LenOf(mem[o]) >= 1 /\ LenOf(mem[o]) >= HdrSize
           /\ o + LenOf(mem[o]) <= Base(b) + u
           /\ o..(o + LenOf(mem[o]) - 1) \subseteq CellsOf(b)
           /\ o + LenOf(mem[o]) < Base(b) + u =>
                 o + LenOf(mem[o]) \in CellsOf(b) /\ IsHeader(mem[o + LenOf(mem[o])])
           /\ \A p \in CellsOf(b) : IsHeader(mem[p]) /\ p > o => p >= o + LenOf(mem[o])
<1> DEFINE len == LenOf(mem[o])
<1>1. /\ IdOf(mem[o]) \in Id /\ len \in RecLen /\ o + len <= Base(b) + u
      /\ o + len < Base(b) + u => IsHeader(mem[o + len])
      /\ \A p \in (o + 1)..(o + len - 1) : ~IsHeader(mem[p])
      /\ u \in 0..BlockSize
  BY DEF Laid, Heads
<1>2. Base(b) \in Nat /\ BlockSize \in Nat /\ HdrSize \in Nat /\ HdrSize >= 1 /\ len \in Nat /\ len >= HdrSize
  BY <1>1, BlockCells, Sizes
<1> HIDE DEF len
<1>3. o \in Nat /\ Base(b) <= o /\ o <= Base(b) + BlockSize - 1
  BY <1>2 DEF CellsOf
<1>4. o..(o + len - 1) \subseteq CellsOf(b)
  BY <1>1, <1>2, <1>3 DEF CellsOf
<1>5. o + len < Base(b) + u => o + len \in CellsOf(b)
  BY <1>1, <1>2, <1>3 DEF CellsOf
<1>6. ASSUME NEW p \in CellsOf(b), IsHeader(mem[p]), p > o PROVE p >= o + len
  <2>1. p \in Int
    BY <1>2 DEF CellsOf
  <2>2. ~(p \in (o + 1)..(o + len - 1))
    BY <1>1, <1>6
  <2> QED BY <2>1, <2>2, <1>6, <1>2, <1>3
<1> QED BY <1>1, <1>2, <1>3, <1>4, <1>5, <1>6 DEF len

\* A block has finitely many records.
LEMMA HeldFinite ==
    ASSUME NEW mem, NEW b \in Block
    PROVE  /\ IsFiniteSet(CellsOf(b)) /\ Cardinality(CellsOf(b)) = BlockSize
           /\ IsFiniteSet(Held(mem, b)) /\ Cardinality(Held(mem, b)) \in Nat
<1>1. Base(b) \in Nat /\ BlockSize \in Nat /\ BlockSize >= 1
  BY Sizes, BlockCells
<1>2. IsFiniteSet(CellsOf(b)) /\ Cardinality(CellsOf(b)) = BlockSize
  BY <1>1, FS_Interval, SMTT(60) DEF CellsOf
<1> DEFINE f == [e \in Held(mem, b) |-> e.off]
<1>3. f \in Injection(Held(mem, b), CellsOf(b))
  <2>1. \A e \in Held(mem, b) : e.off \in CellsOf(b) /\ e = RecordOf(mem, e.off)
    BY HeldIs
  <2>2. f \in [Held(mem, b) -> CellsOf(b)]
    BY <2>1
  <2>3. \A d, e \in Held(mem, b) : f[d] = f[e] => d = e
    BY <2>1
  <2> QED BY <2>2, <2>3 DEF Injection, IsInjective
<1>4. IsFiniteSet(Held(mem, b))
  BY <1>2, <1>3, FS_Injection
<1> QED BY <1>2, <1>4, FS_CardinalityType

\* The deleted records of a block take cells of this block only, finitely
\* many.
LEMMA GoneFinite ==
    ASSUME NEW mem, NEW b \in Block, NEW u, Laid(mem, b, u)
    PROVE  /\ Gone(mem, b) \subseteq CellsOf(b)
           /\ IsFiniteSet(Gone(mem, b)) /\ Cardinality(Gone(mem, b)) \in Nat
<1>1. Gone(mem, b) \subseteq CellsOf(b)
  BY GoneIs, LaidRecord
<1> QED BY <1>1, HeldFinite, FS_Subset, FS_CardinalityType

\* What may be counted as wasted behind the last record (ErstCollectBlock):
\* the space in which no header fits, if it is known to be unused.
WasteBehind(u) == IF BlockSize - u < HdrSize THEN {0, BlockSize - u} ELSE {0}

\* The entry x of block b is what the flash holds.
BlockOK(mem, b, x) ==
    /\ x.valid \in Nat /\ x.wasted \in Int
    /\ Laid(mem, b, x.used)
    /\ x.valid = Cardinality(Held(mem, b))
    /\ x.wasted - Cardinality(Gone(mem, b)) \in WasteBehind(x.used)

\* The cells of a block, but for the statuses, are what they were.
Alike(mem, new, b) ==
    \A o \in CellsOf(b) :
        /\ mem[o] = Erased => new[o] = Erased
        /\ IsHeader(new[o]) <=> IsHeader(mem[o])
        /\ IsHeader(mem[o]) => IdOf(new[o]) = IdOf(mem[o]) /\ LenOf(new[o]) = LenOf(mem[o])

\* Such a block is laid out as it was.
LEMMA AlikeLaid ==
    ASSUME NEW mem, NEW new, NEW b \in Block, NEW u, Laid(mem, b, u), Alike(mem, new, b)
    PROVE  /\ Laid(new, b, u) /\ Heads(new, b) = Heads(mem, b)
           /\ \A o \in Heads(mem, b) : RecordOf(new, o) = RecordOf(mem, o)
<1>1. Heads(new, b) = Heads(mem, b)
  BY DEF Heads, Alike
<1>2. \A o \in Heads(mem, b) : /\ o \in CellsOf(b) /\ IsHeader(mem[o]) /\ IsHeader(new[o])
                               /\ IdOf(new[o]) = IdOf(mem[o]) /\ LenOf(new[o]) = LenOf(mem[o])
  BY DEF Heads, Alike
<1>3. \A o \in Heads(mem, b) : RecordOf(new, o) = RecordOf(mem, o)
  BY <1>2 DEF RecordOf
<1>4. ASSUME NEW o \in Heads(mem, b)
      PROVE  /\ IdOf(new[o]) \in Id /\ LenOf(new[o]) \in RecLen
             /\ o + LenOf(new[o]) <= Base(b) + u
             /\ o + LenOf(new[o]) < Base(b) + u => IsHeader(new[o + LenOf(new[o])])
             /\ \A p \in (o + 1)..(o + LenOf(new[o]) - 1) : ~IsHeader(new[p])
  <2> DEFINE len == LenOf(mem[o])
  <2>1. LenOf(new[o]) = len /\ IdOf(new[o]) = IdOf(mem[o]) /\ o \in CellsOf(b) /\ IsHeader(mem[o])
    BY <1>2
  <2>2. /\ IdOf(mem[o]) \in Id /\ len \in RecLen
        /\ len \in Nat /\ o \in Nat /\ o + len <= Base(b) + u
        /\ o..(o + len - 1) \subseteq CellsOf(b)
        /\ o + len < Base(b) + u => o + len \in CellsOf(b) /\ IsHeader(mem[o + len])
    BY <2>1, LaidRecord
  <2>3. \A p \in (o + 1)..(o + len - 1) : ~IsHeader(mem[p])
    BY <2>1 DEF Laid
  <2> HIDE DEF len
  <2>4. \A p \in (o + 1)..(o + len - 1) : p \in CellsOf(b)
    BY <2>2
  <2>5. \A p \in (o + 1)..(o + len - 1) : ~IsHeader(new[p])
    BY <2>3, <2>4 DEF Alike
  <2>6. o + len < Base(b) + u => IsHeader(new[o + len])
    BY <2>2 DEF Alike
  <2> QED BY <2>1, <2>2, <2>5, <2>6
<1>5. \A o \in CellsOf(b) : o >= Base(b) + u => new[o] = Erased
  BY DEF Laid, Alike
<1>6. u \in 0..BlockSize /\ (u > 0 => Base(b) \in Heads(new, b))
  BY <1>1 DEF Laid
<1>7. Laid(new, b, u)
  BY <1>1, <1>4, <1>5, <1>6 DEF Laid
<1> QED BY <1>1, <1>3, <1>7

\* A block of which only statuses have changed, none of them to or from
\* DELETED, has the same entry.
LEMMA KeptBlock ==
    ASSUME NEW mem, NEW new, NEW b \in Block, Alike(mem, new, b),
           \A o \in Heads(mem, b) : StatusOf(new[o]) = "DELETED" <=> StatusOf(mem[o]) = "DELETED"
    PROVE  /\ \A u : Laid(mem, b, u) =>
                Laid(new, b, u) /\ Held(new, b) = Held(mem, b) /\ Gone(new, b) = Gone(mem, b)
           /\ \A x : BlockOK(mem, b, x) => BlockOK(new, b, x)
<1>1. ASSUME NEW u, Laid(mem, b, u)
      PROVE  Laid(new, b, u) /\ Held(new, b) = Held(mem, b) /\ Gone(new, b) = Gone(mem, b)
  <2>1. /\ Laid(new, b, u) /\ Heads(new, b) = Heads(mem, b)
        /\ \A o \in Heads(mem, b) : RecordOf(new, o) = RecordOf(mem, o)
    BY <1>1, AlikeLaid
  <2>2. LiveHeads(new, b) = LiveHeads(mem, b) /\ DeadHeads(new, b) = DeadHeads(mem, b)
    BY <2>1 DEF LiveHeads, DeadHeads
  <2>3. \A o \in LiveHeads(mem, b) \cup DeadHeads(mem, b) : RecordOf(new, o) = RecordOf(mem, o)
    BY <2>1 DEF LiveHeads, DeadHeads
  <2>4. Held(new, b) = Held(mem, b)
    BY <2>2, <2>3 DEF Held
  <2>5. Gone(new, b) = Gone(mem, b)
    BY <2>2, <2>3 DEF Gone
  <2> QED BY <2>1, <2>4, <2>5
<1> QED BY <1>1 DEF BlockOK

\* ... so has a block that was not touched.
LEMMA SameBlock ==
    ASSUME NEW mem, NEW new, NEW b \in Block, \A o \in CellsOf(b) : new[o] = mem[o]
    PROVE  /\ \A u : Laid(mem, b, u) =>
                Laid(new, b, u) /\ Held(new, b) = Held(mem, b) /\ Gone(new, b) = Gone(mem, b)
           /\ \A x : BlockOK(mem, b, x) => BlockOK(new, b, x)
<1>1. Alike(mem, new, b)
  BY DEF Alike
<1>2. \A o \in Heads(mem, b) : StatusOf(new[o]) = "DELETED" <=> StatusOf(mem[o]) = "DELETED"
  BY DEF Heads
<1> QED BY <1>1, <1>2, KeptBlock

\* A record is deleted (ErstWriteCperStatus): its block has one record less
\* and its length more of wasted space, which is what ErstFreeRecord counts.
LEMMA DeletedBlock ==
    ASSUME NEW mem, NEW new, NEW b \in Block, NEW x, BlockOK(mem, b, x),
           NEW o \in CellsOf(b), IsHeader(mem[o]), StatusOf(mem[o]) # "DELETED",
           new[o] = Header("DELETED", IdOf(mem[o]), LenOf(mem[o])),
           \A p \in CellsOf(b) : p # o => new[p] = mem[p]
    PROVE  /\ BlockOK(new, b, [valid |-> x.valid - 1, used |-> x.used,
                               wasted |-> x.wasted + LenOf(mem[o])])
           /\ Held(new, b) = Held(mem, b) \ {RecordOf(mem, o)}
           /\ RecordOf(mem, o) \in Held(mem, b) /\ x.valid >= 1
<1> DEFINE rec == RecordOf(mem, o)
           len == LenOf(mem[o])
           ext == o..(o + len - 1)
<1>0. /\ IsHeader(new[o]) /\ StatusOf(new[o]) = "DELETED" /\ new[o] # Erased
      /\ IdOf(new[o]) = IdOf(mem[o]) /\ LenOf(new[o]) = len
  BY HeaderFields
<1>1. Laid(mem, b, x.used)
  BY DEF BlockOK
<1>2. mem[o] # Erased
  BY HeaderFields
<1>3. Alike(mem, new, b)
  BY <1>0, <1>2 DEF Alike
<1>4. /\ Laid(new, b, x.used) /\ Heads(new, b) = Heads(mem, b)
      /\ \A p \in Heads(mem, b) : RecordOf(new, p) = RecordOf(mem, p)
  BY <1>1, <1>3, AlikeLaid
<1>5. o \in Heads(mem, b)
  BY DEF Heads
<1>6. \A p \in Heads(mem, b) : p \in CellsOf(b)
  BY DEF Heads
<1>7. /\ LiveHeads(new, b) = LiveHeads(mem, b) \ {o} /\ o \in LiveHeads(mem, b)
      /\ DeadHeads(new, b) = DeadHeads(mem, b) \cup {o} /\ o \notin DeadHeads(mem, b)
  BY <1>0, <1>4, <1>5, <1>6 DEF LiveHeads, DeadHeads
<1>8. \A p, q \in Heads(mem, b) : RecordOf(mem, p) = RecordOf(mem, q) => p = q
  BY EntryFields DEF RecordOf
<1>9. Held(new, b) = Held(mem, b) \ {rec} /\ rec \in Held(mem, b)
  <2>1. \A p \in LiveHeads(mem, b) \cup LiveHeads(new, b) : p \in Heads(mem, b)
    BY <1>4 DEF LiveHeads
  <2>2. \A e : e \in Held(new, b) <=> \E p \in LiveHeads(mem, b) : p # o /\ e = RecordOf(mem, p)
    BY <1>4, <1>7, <2>1 DEF Held
  <2>3. \A e : e \in Held(mem, b) <=> \E p \in LiveHeads(mem, b) : e = RecordOf(mem, p)
    BY DEF Held
  <2> QED BY <2>1, <2>2, <2>3, <1>7, <1>8
<1>10. Gone(new, b) = Gone(mem, b) \cup ext
  <2>1. Extent(rec) = ext
    BY EntryFields DEF Extent, RecordOf
  <2>2. \A p \in DeadHeads(mem, b) \cup {o} : RecordOf(new, p) = RecordOf(mem, p)
    BY <1>4, <1>5 DEF DeadHeads
  <2> HIDE DEF rec, ext
  <2>3. \A y : y \in Gone(new, b) <=>
              \E p \in DeadHeads(mem, b) \cup {o} : y \in Extent(RecordOf(mem, p))
    BY <1>7, <2>2 DEF Gone
  <2>4. \A y : y \in Gone(mem, b) <=> \E p \in DeadHeads(mem, b) : y \in Extent(RecordOf(mem, p))
    BY DEF Gone
  <2> QED BY <2>1, <2>3, <2>4 DEF rec
<1>11. Gone(mem, b) \cap ext = {}
  <2>1. SUFFICES ASSUME NEW y \in ext, y \in Gone(mem, b) PROVE FALSE
    OBVIOUS
  <2>2. PICK p \in CellsOf(b) : /\ IsHeader(mem[p]) /\ StatusOf(mem[p]) = "DELETED"
                                /\ y \in p..(p + LenOf(mem[p]) - 1)
    BY <2>1, GoneIs
  <2>3. /\ p \in Nat /\ LenOf(mem[p]) \in Nat
        /\ o > p => o >= p + LenOf(mem[p])
    BY <1>1, <2>2, LaidRecord
  <2>4. /\ o \in Nat /\ len \in Nat
        /\ p > o => p >= o + len
    BY <1>1, <2>2, LaidRecord
  <2>5. p # o
    BY <2>2
  <2> HIDE DEF len
  <2> QED BY <2>1, <2>2, <2>3, <2>4, <2>5
<1>12. len \in Nat /\ len >= 1 /\ o \in Nat /\ x.used \in Nat
  BY <1>1, LaidRecord
<1> HIDE DEF len
<1>13. IsFiniteSet(ext) /\ Cardinality(ext) = len
  BY <1>12, FS_Interval
<1>14. /\ IsFiniteSet(Gone(mem, b)) /\ Cardinality(Gone(mem, b)) \in Nat
       /\ IsFiniteSet(Held(mem, b)) /\ Cardinality(Held(mem, b)) \in Nat
  BY <1>1, GoneFinite, HeldFinite
<1>15. Cardinality(Gone(mem, b) \cap ext) = 0
  BY <1>11, FS_EmptySet
<1>16. Cardinality(Gone(new, b)) = Cardinality(Gone(mem, b)) + len
  <2> DEFINE G == Gone(mem, b)
  <2>1. IsFiniteSet(G) /\ IsFiniteSet(ext)
    BY <1>13, <1>14
  <2> HIDE DEF ext, G
  <2>2. Cardinality(G \cup ext) = Cardinality(G) + Cardinality(ext) - Cardinality(G \cap ext)
    BY <2>1, FS_Union
  <2> QED BY <2>2, <1>10, <1>12, <1>13, <1>14, <1>15 DEF G
<1>17. Cardinality(Held(new, b)) = Cardinality(Held(mem, b)) - 1
  BY <1>9, <1>14, FS_RemoveElement
<1>18. IsFiniteSet(Held(new, b)) /\ Cardinality(Held(new, b)) \in Nat
  BY HeldFinite
<1>19. x.valid \in Nat /\ x.wasted \in Int /\ x.valid = Cardinality(Held(mem, b))
       /\ x.wasted - Cardinality(Gone(mem, b)) \in WasteBehind(x.used)
  BY DEF BlockOK
<1> DEFINE y == [valid |-> x.valid - 1, used |-> x.used, wasted |-> x.wasted + len]
<1>20. y.valid = x.valid - 1 /\ y.used = x.used /\ y.wasted = x.wasted + len
  OBVIOUS
<1> HIDE DEF y
<1>21. y.valid \in Nat /\ y.valid = Cardinality(Held(new, b)) /\ y.wasted \in Int
  BY <1>12, <1>17, <1>18, <1>19, <1>20
<1>22. y.wasted - Cardinality(Gone(new, b)) = x.wasted - Cardinality(Gone(mem, b))
  BY <1>12, <1>14, <1>16, <1>19, <1>20
<1>23. BlockOK(new, b, y)
  BY <1>4, <1>19, <1>20, <1>21, <1>22 DEF BlockOK
<1>24. x.valid >= 1
  BY <1>17, <1>18, <1>19
<1> QED BY <1>9, <1>23, <1>24 DEF y, len

\* A record is written behind the others: the block has one record more, and
\* UsedSize is where the next goes (ErstPrepareNewRecord).
LEMMA AddedBlock ==
    ASSUME NEW mem, NEW new, NEW b \in Block, NEW x, BlockOK(mem, b, x),
           NEW i \in Id, NEW n \in RecLen, NEW st, st # "DELETED", x.used + n <= BlockSize,
           new[Base(b) + x.used] = Header(st, i, n),
           \A p \in CellsOf(b) : 
             /\ p < Base(b) + x.used \/ p >= Base(b) + x.used + n => new[p] = mem[p]
             /\ p > Base(b) + x.used /\ p < Base(b) + x.used + n => ~IsHeader(new[p])
    PROVE  /\ BlockOK(new, b, [valid |-> x.valid + 1, used |-> x.used + n, wasted |-> x.wasted])
           /\ Held(new, b) = Held(mem, b) \cup {Entry(i, n, Base(b) + x.used)}
           /\ Base(b) + x.used \in CellsOf(b)
           /\ Entry(i, n, Base(b) + x.used) \notin Held(mem, b)
<1> DEFINE u == x.used
           at == Base(b) + u
           rec == Entry(i, n, at)
<1>1. Laid(mem, b, u) /\ u \in 0..BlockSize
  BY DEF BlockOK, Laid
<1>2. /\ u \in Nat /\ n \in Nat /\ n >= 1 /\ n >= HdrSize /\ HdrSize \in Nat /\ BlockSize \in Nat
      /\ Base(b) \in Nat
  BY <1>1, Sizes, BlockCells
<1>3. /\ IsHeader(new[at]) /\ StatusOf(new[at]) = st /\ IdOf(new[at]) = i /\ LenOf(new[at]) = n
  BY HeaderFields
<1>x. u + n <= BlockSize /\ \A p \in CellsOf(b) : 
             /\ p < at \/ p >= at + n => new[p] = mem[p]
             /\ p > at /\ p < at + n => ~IsHeader(new[p])
  OBVIOUS
<1> HIDE DEF u
<1>4. at \in CellsOf(b) /\ at \in Nat
  BY <1>2, <1>x DEF CellsOf
<1>5. \A p \in CellsOf(b) : p >= at => mem[p] = Erased
  BY <1>1 DEF Laid
<1> HIDE DEF at
<1>y. at = Base(b) + u
  BY DEF at
<1>z. \A p \in CellsOf(b) : p \in Nat
  BY <1>2 DEF CellsOf
<1>6. \A p \in CellsOf(b) : IsHeader(new[p]) <=> p = at \/ IsHeader(mem[p]) 
  BY <1>3, <1>4, <1>5, <1>x, <1>z, <1>2, HeaderFields
<1>7. Heads(new, b) = Heads(mem, b) \cup {at} /\ at \notin Heads(mem, b)
  <2>1. mem[at] = Erased
    BY <1>4, <1>5
  <2>2. at \notin Heads(mem, b)
    BY <2>1, HeaderFields DEF Heads
  <2> QED BY <2>2, <1>4, <1>6 DEF Heads
<1>8. ASSUME NEW o \in Heads(mem, b)
      PROVE  new[o] = mem[o] /\ o < at /\ o # at /\ o \in CellsOf(b)
  <2>1. o \in CellsOf(b) /\ mem[o] # Erased /\ o \in Nat
    BY HeaderFields, <1>z DEF Heads
  <2>2. o < at
    BY <2>1, <1>5, <1>4
  <2> QED BY <2>1, <2>2, <1>x
<1>9. ASSUME NEW o \in Heads(new, b)
      PROVE  /\ IdOf(new[o]) \in Id /\ LenOf(new[o]) \in RecLen
             /\ o + LenOf(new[o]) <= Base(b) + (u + n)
             /\ o + LenOf(new[o]) < Base(b) + (u + n) => IsHeader(new[o + LenOf(new[o])])
             /\ \A p \in (o + 1)..(o + LenOf(new[o]) - 1) : ~IsHeader(new[p])
  <2>1. CASE o = at
    <3>1. \A p \in (at + 1)..(at + n - 1) : p \in CellsOf(b)
      BY <1>2, <1>4, <1>x, <1>y DEF CellsOf
    <3>2. \A p \in (at + 1)..(at + n - 1) : ~IsHeader(new[p])
      BY <3>1, <1>x, <1>4, <1>2
    <3> QED BY <2>1, <1>3, <1>2, <1>4, <1>y, <3>2
  <2>2. CASE o # at
    <3>1. o \in Heads(mem, b)
      BY <1>7, <2>2
    <3>2. new[o] = mem[o] /\ o < at /\ o \in CellsOf(b) /\ IsHeader(mem[o])
      BY <1>8, <3>1 DEF Heads
    <3> DEFINE len == LenOf(mem[o])
    <3>3. /\ IdOf(mem[o]) \in Id /\ len \in RecLen
          /\ len \in Nat /\ o \in Nat /\ o + len <= at
          /\ o..(o + len - 1) \subseteq CellsOf(b)
          /\ o + len < at => o + len \in CellsOf(b) /\ IsHeader(mem[o + len])
          /\ \A p \in (o + 1)..(o + len - 1) : ~IsHeader(mem[p])
      BY <1>1, <3>1, <3>2, <1>y, LaidRecord DEF Laid
    <3> HIDE DEF len
    <3>4. o + len = at \/ o + len < at
      BY <3>3, <1>4
    <3>5. IsHeader(new[o + len])
      BY <3>3, <3>4, <1>3, <1>6
    <3>6. ASSUME NEW p \in (o + 1)..(o + len - 1) PROVE ~IsHeader(new[p])
      <4>1. p \in CellsOf(b) /\ ~IsHeader(mem[p]) /\ p < at
        BY <3>3, <1>4
      <4> QED BY <4>1, <1>6, <1>4
    <3>7. o + len <= Base(b) + (u + n)
      BY <3>3, <1>y, <1>2
    <3> QED BY <3>2, <3>3, <3>5, <3>6, <3>7 DEF len
  <2> QED BY <2>1, <2>2
<1>10. u + n \in 0..BlockSize
  BY <1>2, <1>x
<1>11. Base(b) \in Heads(new, b)
  <2>1. CASE u = 0
    BY <2>1, <1>7, <1>y, <1>2
  <2>2. CASE u > 0
    BY <2>2, <1>1, <1>7 DEF Laid
  <2> QED BY <2>1, <2>2, <1>2
<1>12. \A o \in CellsOf(b) : o >= Base(b) + (u + n) => new[o] = Erased
  BY <1>x, <1>y, <1>5, <1>z, <1>2
<1>13. Laid(new, b, u + n)
  BY <1>9, <1>10, <1>11, <1>12 DEF Laid
<1>14. RecordOf(new, at) = rec /\ \A o \in Heads(mem, b) : RecordOf(new, o) = RecordOf(mem, o)
  BY <1>3, <1>8 DEF RecordOf
<1>15. /\ LiveHeads(new, b) = LiveHeads(mem, b) \cup {at} /\ at \notin LiveHeads(mem, b)
       /\ DeadHeads(new, b) = DeadHeads(mem, b)
  <2>1. StatusOf(new[at]) # "DELETED" /\ \A o \in Heads(mem, b) : StatusOf(new[o]) = StatusOf(mem[o])
    BY <1>3, <1>8
  <2> QED BY <2>1, <1>7 DEF LiveHeads, DeadHeads
<1> HIDE DEF rec
<1>16. Held(new, b) = Held(mem, b) \cup {rec} /\ rec \notin Held(mem, b)
  <2>1. \A o \in LiveHeads(mem, b) : o \in Heads(mem, b)
    BY DEF LiveHeads
  <2>2. \A e : e \in Held(new, b) <=> \E p \in LiveHeads(mem, b) \cup {at} : e = RecordOf(new, p)
    BY <1>15 DEF Held
  <2>3. \A e : e \in Held(mem, b) <=> \E p \in LiveHeads(mem, b) : e = RecordOf(mem, p)
    BY DEF Held
  <2>4. Held(new, b) = Held(mem, b) \cup {rec}
    BY <2>1, <2>2, <2>3, <1>14
  <2>5. rec.off = at
    BY EntryFields DEF rec
  <2>6. rec \notin Held(mem, b)
    <3>1. SUFFICES ASSUME rec \in Held(mem, b) PROVE FALSE
      OBVIOUS
    <3>2. IsHeader(mem[at])
      BY <3>1, <2>5, HeldIs
    <3> QED BY <3>2, <1>4, <1>5, HeaderFields
  <2> QED BY <2>4, <2>6
<1>17. Gone(new, b) = Gone(mem, b)
  <2>1. \A o \in DeadHeads(mem, b) : RecordOf(new, o) = RecordOf(mem, o)
    BY <1>14 DEF DeadHeads
  <2> QED BY <2>1, <1>15 DEF Gone
<1>18. /\ IsFiniteSet(Gone(mem, b)) /\ Cardinality(Gone(mem, b)) \in Nat
       /\ IsFiniteSet(Held(mem, b)) /\ Cardinality(Held(mem, b)) \in Nat
  BY <1>1, GoneFinite, HeldFinite
<1>19. Cardinality(Held(new, b)) = Cardinality(Held(mem, b)) + 1
  BY <1>16, <1>18, FS_AddElement
<1>20. x.valid \in Nat /\ x.wasted \in Int /\ x.valid = Cardinality(Held(mem, b))
       /\ x.wasted - Cardinality(Gone(mem, b)) \in WasteBehind(u)
  BY DEF BlockOK, u
<1> DEFINE y == [valid |-> x.valid + 1, used |-> u + n, wasted |-> x.wasted]
<1>21. y.valid = x.valid + 1 /\ y.used = u + n /\ y.wasted = x.wasted
  OBVIOUS
<1> HIDE DEF y
<1>22. y.wasted - Cardinality(Gone(new, b)) \in WasteBehind(y.used)
  BY <1>20, <1>21, <1>17, <1>18, <1>2, <1>x DEF WasteBehind
<1>23. BlockOK(new, b, y)
  BY <1>13, <1>17, <1>19, <1>20, <1>21, <1>22 DEF BlockOK
<1> QED BY <1>4, <1>16, <1>23 DEF y, u, at, rec

\* A block is erased: its entry is the empty one.
LEMMA ErasedBlock ==
    ASSUME NEW mem, NEW b \in Block, \A o \in CellsOf(b) : mem[o] = Erased
    PROVE  /\ BlockOK(mem, b, EmptyBlock)
           /\ Laid(mem, b, 0) /\ Held(mem, b) = {} /\ Gone(mem, b) = {}
<1>1. Heads(mem, b) = {}
  BY HeaderFields DEF Heads
<1>2. Held(mem, b) = {} /\ Gone(mem, b) = {}
  BY <1>1 DEF Held, Gone, LiveHeads, DeadHeads
<1>3. Laid(mem, b, 0)
  BY <1>1, Sizes DEF Laid
<1>4. EmptyBlock.valid = 0 /\ EmptyBlock.used = 0 /\ EmptyBlock.wasted = 0
  BY DEF EmptyBlock
<1>5. BlockOK(mem, b, EmptyBlock)
  BY <1>2, <1>3, <1>4, FS_EmptySet DEF BlockOK, WasteBehind
<1> QED BY <1>2, <1>3, <1>5

\* The INCOMING and the OUTGOING record are those that are tracked.
StatusesOK(mem, inc, out) ==
    \A o \in Off : IsHeader(mem[o]) =>
      /\ StatusOf(mem[o]) \in {"INCOMING", "VALID", "OUTGOING", "DELETED"}
      /\ StatusOf(mem[o]) = "INCOMING" <=> o = inc
      /\ StatusOf(mem[o]) = "OUTGOING" <=> o = out

\* The records of the first n blocks.
HeldBelow(mem, n) == UNION {Held(mem, b) : b \in 0..(n - 1)}

\* The tables are what the flash holds: the entries of the blocks, the records
\* that are tracked, and those of the list.
Store(mem, inc, out, blk, es) ==
    /\ \A b \in Block : BlockOK(mem, b, blk[b])
    /\ StatusesOK(mem, inc, out)
    /\ HeldBelow(mem, NumBlocks) = es

\* A record of the partition is one of some block.
LEMMA AllHeld ==
    ASSUME NEW mem, NEW e
    PROVE  e \in HeldBelow(mem, NumBlocks) <=> \E b \in Block : e \in Held(mem, b)
BY DEF HeldBelow, Block

\* Two blocks have no cell in common.
LEMMA BlocksApart ==
    ASSUME NEW b \in Block, NEW c \in Block, b # c, NEW o \in CellsOf(b)
    PROVE  o \notin CellsOf(c) /\ o \in Off
BY BlockCells

\* What happens in one block leaves the others as they are.
LEMMA OtherBlocks ==
    ASSUME NEW mem, NEW new, NEW inc, NEW out, NEW blk, NEW es, Store(mem, inc, out, blk, es),
           NEW b \in Block, \A o \in Off : o \notin CellsOf(b) => new[o] = mem[o]
    PROVE  \A c \in Block : c # b => Held(new, c) = Held(mem, c) /\ BlockOK(new, c, blk[c])
<1>1. SUFFICES ASSUME NEW c \in Block, c # b
               PROVE  Held(new, c) = Held(mem, c) /\ BlockOK(new, c, blk[c])
  OBVIOUS
<1>2. \A o \in CellsOf(c) : new[o] = mem[o]
  BY <1>1, BlocksApart
<1>3. BlockOK(mem, c, blk[c])
  BY DEF Store
<1>4. BlockOK(new, c, blk[c])
  BY <1>2, <1>3, SameBlock
<1>5. Held(new, c) = Held(mem, c)
  BY <1>2, <1>3, SameBlock DEF BlockOK
<1> QED BY <1>4, <1>5

\* A status byte that does not delete the record leaves all entries right.
LEMMA StatusKept ==
    ASSUME NEW mem, NEW inc, NEW out, NEW blk, NEW es, Store(mem, inc, out, blk, es),
           NEW o \in Off, IsHeader(mem[o]), StatusOf(mem[o]) # "DELETED",
           NEW st, st # "DELETED", NEW new,
           new[o] = Header(st, IdOf(mem[o]), LenOf(mem[o])),
           \A p \in Off : p # o => new[p] = mem[p]
    PROVE  /\ \A b \in Block : BlockOK(new, b, blk[b])
           /\ HeldBelow(new, NumBlocks) = es
<1>1. /\ IsHeader(new[o]) /\ StatusOf(new[o]) = st /\ mem[o] # Erased
      /\ IdOf(new[o]) = IdOf(mem[o]) /\ LenOf(new[o]) = LenOf(mem[o])
  BY HeaderFields
<1>2. ASSUME NEW b \in Block
      PROVE  BlockOK(new, b, blk[b]) /\ Held(new, b) = Held(mem, b)
  <2>1. CellsOf(b) \subseteq Off
    BY BlockCells
  <2>2. Alike(mem, new, b)
    BY <1>1, <2>1 DEF Alike
  <2>3. \A p \in Heads(mem, b) : StatusOf(new[p]) = "DELETED" <=> StatusOf(mem[p]) = "DELETED"
    BY <1>1, <2>1 DEF Heads
  <2>4. BlockOK(mem, b, blk[b])
    BY DEF Store
  <2>5. BlockOK(new, b, blk[b])
    BY <2>2, <2>3, <2>4, KeptBlock
  <2>6. Held(new, b) = Held(mem, b)
    BY <2>2, <2>3, <2>4, KeptBlock DEF BlockOK
  <2> QED BY <2>5, <2>6
<1>3. HeldBelow(new, NumBlocks) = HeldBelow(mem, NumBlocks)
  <2>1. \A e : e \in HeldBelow(new, NumBlocks) <=> e \in HeldBelow(mem, NumBlocks)
    BY <1>2, AllHeld
  <2> QED BY <2>1
<1> QED BY <1>2, <1>3 DEF Store

\* The INCOMING record becomes VALID.
LEMMA StoreValid ==
    ASSUME NEW mem, NEW out, NEW blk, NEW es, NEW o \in Off, Store(mem, o, out, blk, es),
           IsHeader(mem[o]), StatusOf(mem[o]) = "INCOMING", NEW new,
           new[o] = Header("VALID", IdOf(mem[o]), LenOf(mem[o])),
           \A p \in Off : p # o => new[p] = mem[p]
    PROVE  Store(new, NoOff, out, blk, es)
<1>1. (\A b \in Block : BlockOK(new, b, blk[b])) /\ HeldBelow(new, NumBlocks) = es
  BY StatusKept
<1>2. IsHeader(new[o]) /\ StatusOf(new[o]) = "VALID"
  BY HeaderFields
<1>3. NoOff \notin Off
  BY LayoutAssumption
<1>4. StatusesOK(mem, o, out)
  BY DEF Store
<1>5. StatusesOK(new, NoOff, out)
  BY <1>2, <1>3, <1>4 DEF StatusesOK
<1> QED BY <1>1, <1>5 DEF Store

\* A VALID record becomes OUTGOING.
LEMMA StoreOutgoing ==
    ASSUME NEW mem, NEW inc, NEW blk, NEW es, NEW o \in Off, Store(mem, inc, NoOff, blk, es),
           IsHeader(mem[o]), StatusOf(mem[o]) = "VALID", NEW new,
           new[o] = Header("OUTGOING", IdOf(mem[o]), LenOf(mem[o])),
           \A p \in Off : p # o => new[p] = mem[p]
    PROVE  Store(new, inc, o, blk, es)
<1>1. (\A b \in Block : BlockOK(new, b, blk[b])) /\ HeldBelow(new, NumBlocks) = es
  BY StatusKept
<1>2. IsHeader(new[o]) /\ StatusOf(new[o]) = "OUTGOING"
  BY HeaderFields
<1>3. NoOff \notin Off
  BY LayoutAssumption
<1>4. StatusesOK(mem, inc, NoOff)
  BY DEF Store
<1>5. StatusesOK(new, inc, o)
  BY <1>2, <1>3, <1>4 DEF StatusesOK
<1> QED BY <1>1, <1>5 DEF Store

\* A record is deleted that is not INCOMING.
LEMMA StoreDeleted ==
    ASSUME NEW mem, NEW inc, NEW out, NEW blk, NEW es, Store(mem, inc, out, blk, es),
           NEW b \in Block, NEW o \in CellsOf(b), o # inc,
           IsHeader(mem[o]), StatusOf(mem[o]) # "DELETED", NEW new,
           new[o] = Header("DELETED", IdOf(mem[o]), LenOf(mem[o])),
           \A p \in Off : p # o => new[p] = mem[p],
           NEW blk2, \A c \in Block : c # b => blk2[c] = blk[c],
           blk2[b] = [valid |-> blk[b].valid - 1, used |-> blk[b].used,
                      wasted |-> blk[b].wasted + LenOf(mem[o])]
    PROVE  /\ Store(new, inc, IF out = o THEN NoOff ELSE out, blk2, es \ {RecordOf(mem, o)})
           /\ blk[b].valid >= 1
<1>0. o \in Off /\ CellsOf(b) \subseteq Off
  BY BlockCells
<1>1. BlockOK(mem, b, blk[b])
  BY DEF Store
<1>2. /\ BlockOK(new, b, blk2[b])
      /\ Held(new, b) = Held(mem, b) \ {RecordOf(mem, o)}
      /\ blk[b].valid >= 1
  <2>1. \A p \in CellsOf(b) : p # o => new[p] = mem[p]
    BY <1>0
  <2> QED BY <1>1, <2>1, DeletedBlock
<1>3. \A p \in Off : p \notin CellsOf(b) => new[p] = mem[p]
  OBVIOUS
<1>4. \A c \in Block : c # b => Held(new, c) = Held(mem, c) /\ BlockOK(new, c, blk2[c])
  BY <1>3, OtherBlocks
<1>5. \A c \in Block : c # b => RecordOf(mem, o) \notin Held(mem, c)
  <2>1. RecordOf(mem, o).off = o
    BY EntryFields DEF RecordOf
  <2> QED BY <2>1, BlocksApart, HeldIs
<1>6. HeldBelow(mem, NumBlocks) = es
  BY DEF Store
<1>7. HeldBelow(new, NumBlocks) = es \ {RecordOf(mem, o)}
  <2>1. \A e : e \in HeldBelow(new, NumBlocks) <=> e \in es /\ e # RecordOf(mem, o)
    <3>1. TAKE e
    <3>2. e \in HeldBelow(new, NumBlocks) <=> \E c \in Block : e \in Held(new, c)
      BY AllHeld
    <3>3. e \in es <=> \E c \in Block : e \in Held(mem, c)
      BY <1>6, AllHeld
    <3> QED BY <3>2, <3>3, <1>2, <1>4, <1>5
  <2> QED BY <2>1
<1>8. IsHeader(new[o]) /\ StatusOf(new[o]) = "DELETED"
  BY HeaderFields
<1>9. StatusesOK(mem, inc, out) /\ NoOff \notin Off
  BY LayoutAssumption DEF Store
<1>10. StatusesOK(new, inc, IF out = o THEN NoOff ELSE out)
  BY <1>0, <1>8, <1>9 DEF StatusesOK
<1> QED BY <1>2, <1>4, <1>7, <1>10 DEF Store

\* The header and the content of a record are written behind the last record
\* of a block: its cells were erased, and it is the INCOMING one.
LEMMA StoreAdded ==
    ASSUME NEW mem, NEW blk, NEW es, Store(mem, NoOff, NoOff, blk, es),
           NEW b \in Block, NEW i \in Id, NEW n \in RecLen, NEW v, blk[b].used + n <= BlockSize,
           NEW at, at = Base(b) + blk[b].used,
           NEW new, new = Copied(mem, at, RecordCells(i, n, v)),
           NEW blk2, \A c \in Block : c # b => blk2[c] = blk[c],
           blk2[b] = [valid |-> blk[b].valid + 1, used |-> blk[b].used + n,
                      wasted |-> blk[b].wasted]
    PROVE  /\ Store(new, at, NoOff, blk2, es \cup {Entry(i, n, at)})
           /\ Entry(i, n, at) \notin es
           /\ at \in CellsOf(b)
           /\ \A o \in Off : at <= o /\ o < at + n => mem[o] = Erased
           /\ new[at] = Header("INCOMING", i, n)
           /\ \A o \in Off : o < at \/ o >= at + n => new[o] = mem[o]
<1>1. BlockOK(mem, b, blk[b]) /\ Laid(mem, b, blk[b].used) /\ blk[b].used \in Nat
  BY DEF Store, BlockOK, Laid
<1>2. /\ n \in Nat /\ n >= 1 /\ Base(b) \in Nat /\ BlockSize \in Nat /\ at \in Nat
      /\ CellsOf(b) \subseteq Off
      /\ \A o \in Off : o \in Nat
  BY <1>1, Sizes, BlockCells DEF Off
<1>3. \A o : o \in CellsOf(b) <=> o \in Int /\ Base(b) <= o /\ o <= Base(b) + BlockSize - 1
  BY <1>2 DEF CellsOf
<1>4. at \in CellsOf(b) /\ \A o \in Off : at <= o /\ o < at + n => o \in CellsOf(b)
  BY <1>1, <1>2, <1>3
<1>5. \A o \in Off : at <= o /\ o < at + n => mem[o] = Erased
  BY <1>1, <1>4 DEF Laid
<1>6. Len(RecordCells(i, n, v)) = n /\ \A k \in 1..n :
         RecordCells(i, n, v)[k] = IF k = 1 THEN Header("INCOMING", i, n) ELSE Body(v)
  BY <1>2 DEF RecordCells
<1>7. \A o \in Off :
         new[o] = IF o >= at /\ o < at + n THEN RecordCells(i, n, v)[o - at + 1] ELSE mem[o]
  BY <1>6 DEF Copied, Within
<1>8. \A o \in Off : o < at \/ o >= at + n => new[o] = mem[o]
  BY <1>7, <1>2
<1>9. new[at] = Header("INCOMING", i, n)
  <2>1. at \in Off /\ at - at + 1 = 1 /\ 1 \in 1..n /\ at < at + n
    BY <1>2, <1>4
  <2> QED BY <2>1, <1>6, <1>7
<1>10. \A o \in Off : o > at /\ o < at + n => new[o] = Body(v)
  <2>1. SUFFICES ASSUME NEW o \in Off, o > at, o < at + n PROVE new[o] = Body(v)
    OBVIOUS
  <2>2. o - at + 1 \in 1..n /\ o - at + 1 # 1 /\ o >= at
    BY <2>1, <1>2
  <2> QED BY <2>1, <2>2, <1>6, <1>7
<1>11. \A p \in CellsOf(b) :
         /\ p < at \/ p >= at + n => new[p] = mem[p]
         /\ p > at /\ p < at + n => ~IsHeader(new[p])
  BY <1>2, <1>8, <1>10, HeaderFields
<1> DEFINE rec == Entry(i, n, at)
<1>12. /\ BlockOK(new, b, blk2[b])
       /\ Held(new, b) = Held(mem, b) \cup {rec} /\ rec \notin Held(mem, b)
  BY <1>1, <1>9, <1>11, AddedBlock
<1>13. \A p \in Off : p \notin CellsOf(b) => new[p] = mem[p]
  BY <1>2, <1>4, <1>8
<1>14. \A c \in Block : c # b => Held(new, c) = Held(mem, c) /\ BlockOK(new, c, blk2[c])
  BY <1>13, OtherBlocks
<1>15. \A c \in Block : c # b => rec \notin Held(mem, c)
  <2>1. rec.off = at
    BY EntryFields
  <2> QED BY <2>1, <1>4, BlocksApart, HeldIs
<1> HIDE DEF rec
<1>16. HeldBelow(mem, NumBlocks) = es
  BY DEF Store
<1>17. HeldBelow(new, NumBlocks) = es \cup {rec} /\ rec \notin es
  <2>1. \A e : e \in HeldBelow(new, NumBlocks) <=> e \in es \/ e = rec
    <3>1. TAKE e
    <3>2. e \in HeldBelow(new, NumBlocks) <=> \E c \in Block : e \in Held(new, c)
      BY AllHeld
    <3>3. e \in es <=> \E c \in Block : e \in Held(mem, c)
      BY <1>16, AllHeld
    <3> QED BY <3>2, <3>3, <1>12, <1>14
  <2>2. rec \notin es
    BY <1>12, <1>15, <1>16, AllHeld
  <2> QED BY <2>1, <2>2
<1>18. IsHeader(new[at]) /\ StatusOf(new[at]) = "INCOMING"
  BY <1>9, HeaderFields
<1>19. StatusesOK(mem, NoOff, NoOff) /\ NoOff \notin Off
  BY LayoutAssumption DEF Store
<1>20. at \in Off /\ ~IsHeader(mem[at])
  BY <1>4, <1>2, <1>5, HeaderFields
<1>21. StatusesOK(new, at, NoOff)
  <2>0. /\ \A o \in Off : IsHeader(mem[o]) =>
             /\ StatusOf(mem[o]) \in {"VALID", "DELETED"}
    BY <1>19 DEF StatusesOK
  <2>1. ASSUME NEW o \in Off, IsHeader(new[o]), o # at
        PROVE  new[o] = mem[o] /\ IsHeader(mem[o])
    BY <2>1, <1>2, <1>8, <1>10, HeaderFields
  <2> QED BY <2>0, <2>1, <1>18, <1>19 DEF StatusesOK
<1> QED BY <1>4, <1>5, <1>8, <1>9, <1>12, <1>14, <1>17, <1>21 DEF Store, rec

\* A block without records is erased (ErstReclaimBlock).
LEMMA StoreErased ==
    ASSUME NEW mem, NEW inc, NEW out, NEW blk, NEW es, Store(mem, inc, out, blk, es),
           NEW b \in Block, Held(mem, b) = {} \/ blk[b].valid = 0,
           NEW new, new = EraseAll(mem, b),
           NEW blk2, \A c \in Block : c # b => blk2[c] = blk[c], blk2[b] = EmptyBlock
    PROVE  Store(new, inc, out, blk2, es)
<1>1. BlockSize \in Nat /\ Base(b) \in Nat /\ CellsOf(b) \subseteq Off /\ \A o \in Off : o \in Nat
  BY Sizes, BlockCells DEF Off
<1>2. \A o \in Off : new[o] = IF o \in CellsOf(b) THEN Erased ELSE mem[o]
  BY <1>1 DEF EraseAll, ErasedPrefix, CellsOf
<1>3. Held(new, b) = {} /\ BlockOK(new, b, blk2[b])
  BY <1>1, <1>2, ErasedBlock
<1>4. Held(mem, b) = {}
  BY HeldFinite, FS_EmptySet DEF Store, BlockOK
<1>5. \A c \in Block : c # b => Held(new, c) = Held(mem, c) /\ BlockOK(new, c, blk2[c])
  BY <1>2, OtherBlocks
<1>6. \A e : e \in HeldBelow(new, NumBlocks) <=> e \in HeldBelow(mem, NumBlocks)
  BY <1>3, <1>4, <1>5, AllHeld
<1>7. HeldBelow(new, NumBlocks) = es
  BY <1>6 DEF Store
<1>8. StatusesOK(new, inc, out)
  BY <1>2, HeaderFields DEF StatusesOK, Store
<1> QED BY <1>3, <1>5, <1>7, <1>8 DEF Store

(***************************************************************************)
(* The walk over a block.                                                  *)
(***************************************************************************)

\* One step of Walk's recursive function.
WalkAt(mem, b, k, rest) ==
    IF k > BlockSize - HdrSize THEN Stopped(k, "full")
    ELSE IF \A j \in k..(BlockSize - 1) : mem[Base(b) + j] = Erased THEN Stopped(k, "free")
    ELSE FromHeader(mem, b, k, rest)

\* f is this function, from n on.
Walks(mem, b, n, f) ==
    f = [k \in n..BlockSize |-> f[k]] /\ \A k \in n..BlockSize : f[k] = WalkAt(mem, b, k, f)

\* Where the walk gets to from k depends on what lies behind k only.
LEMMA WalkAtAgrees ==
    ASSUME NEW mem, NEW b, NEW k \in 0..BlockSize, NEW f, NEW g,
           \A j \in (k + 1)..BlockSize : f[j] = g[j]
    PROVE  WalkAt(mem, b, k, f) = WalkAt(mem, b, k, g)
<1> DEFINE c == mem[Base(b) + k]
<1>1. BlockSize \in Nat /\ HdrSize \in Nat /\ HdrSize >= 1
  BY Sizes
<1>2. LenOf(c) \in HdrSize..(BlockSize - k) => k + LenOf(c) \in (k + 1)..BlockSize
  BY <1>1
<1>3. FromHeader(mem, b, k, f) = FromHeader(mem, b, k, g)
  <2> HIDE DEF c
  <2>1. CASE ~IsHeader(c) \/ ~HeaderOk(c, BlockSize - k)
    BY <2>1 DEF FromHeader, c
  <2>2. CASE IsHeader(c) /\ HeaderOk(c, BlockSize - k)
    <3>1. f[k + LenOf(c)] = g[k + LenOf(c)]
      BY <1>2, <2>2 DEF HeaderOk
    <3> QED BY <2>2, <3>1 DEF FromHeader, c
  <2> QED BY <2>1, <2>2
<1> QED BY <1>3 DEF WalkAt

\* So the recursive function that Walk chooses exists: by induction on where
\* it starts.
LEMMA WalkExists ==
    ASSUME NEW mem, NEW b
    PROVE  \E f : Walks(mem, b, 0, f)
<1> DEFINE Known(n) == \E f : Walks(mem, b, BlockSize - n, f)
           Bad == {n \in 0..BlockSize : ~Known(n)}
<1>0. BlockSize \in Nat
  BY Sizes
<1>1. ASSUME Bad # {} PROVE FALSE
  <2> HIDE DEF Known
  <2>1. PICK n \in Bad : \A m \in Bad : n <= m
    <3>1. Bad \subseteq Nat
      BY <1>0
    <3> QED BY <3>1, <1>1, SmallestIn
  <2>2. n \in 0..BlockSize /\ n \in Nat /\ ~Known(n)
    BY <1>0
  <2>3. n # 0 => Known(n - 1)
    <3>1. SUFFICES ASSUME n # 0 PROVE n - 1 \in 0..BlockSize /\ n - 1 \notin Bad
      OBVIOUS
    <3> QED BY <3>1, <2>1, <2>2, <1>0
  <2> HIDE DEF Bad
  <2> DEFINE k0 == BlockSize - n
  <2>4. k0 \in 0..BlockSize
    BY <1>0, <2>2
  <2>5. PICK f : n # 0 => Walks(mem, b, k0 + 1, f)
    <3>1. BlockSize - (n - 1) = k0 + 1
      BY <1>0, <2>2
    <3> QED BY <2>3, <3>1 DEF Known
  <2> DEFINE g == [k \in k0..BlockSize |-> IF k = k0 THEN WalkAt(mem, b, k0, f) ELSE f[k]]
  <2>6. ASSUME NEW k \in k0..BlockSize PROVE g[k] = WalkAt(mem, b, k, g)
    <3>1. \A j \in (k + 1)..BlockSize : j \in k0..BlockSize /\ j # k0
      BY <2>4, <1>0
    <3>2. \A j \in (k + 1)..BlockSize : g[j] = f[j]
      BY <3>1
    <3> HIDE DEF g
    <3>3. k \in 0..BlockSize
      BY <2>4, <1>0
    <3>4. WalkAt(mem, b, k, g) = WalkAt(mem, b, k, f)
      BY <3>2, <3>3, WalkAtAgrees
    <3>5. CASE k = k0
      BY <3>4, <3>5 DEF g
    <3>6. CASE k # k0
      <4>1. k \in (k0 + 1)..BlockSize /\ n # 0
        BY <3>6, <2>4, <2>2, <1>0
      <4>2. f[k] = WalkAt(mem, b, k, f)
        BY <4>1, <2>5 DEF Walks
      <4> QED BY <4>2, <3>4, <3>6 DEF g
    <3> QED BY <3>5, <3>6
  <2>7. g = [k \in k0..BlockSize |-> g[k]]
    OBVIOUS
  <2> HIDE DEF g
  <2>8. Walks(mem, b, k0, g)
    BY <2>6, <2>7 DEF Walks
  <2> QED BY <2>2, <2>8 DEF Known
<1>2. Known(BlockSize)
  BY <1>0, <1>1
<1>3. BlockSize - BlockSize = 0
  BY <1>0
<1> QED BY <1>2, <1>3

\* ... and Walk is its value at the start of the block.
LEMMA WalkIs ==
    ASSUME NEW mem, NEW b
    PROVE  \E f : Walks(mem, b, 0, f) /\ Walk(mem, b) = f[0]
<1> DEFINE Rest(rest) == rest = [k \in 0..BlockSize |->
              IF k > BlockSize - HdrSize THEN Stopped(k, "full")
              ELSE IF \A j \in k..(BlockSize - 1) : mem[Base(b) + j] = Erased THEN Stopped(k, "free")
              ELSE FromHeader(mem, b, k, rest)]
           rest == CHOOSE rest : Rest(rest)
<1>1. Walk(mem, b) = rest[0]
  BY DEF Walk
<1>2. PICK f : Walks(mem, b, 0, f)
  BY WalkExists
<1>3. Rest(f)
  BY <1>2 DEF Walks, WalkAt
<1>4. Rest(rest)
  BY <1>3
<1> HIDE DEF rest
<1>5. Walks(mem, b, 0, rest)
  BY <1>4 DEF Walks, WalkAt
<1> QED BY <1>1, <1>5

\* What the walk lists of the record at o, and of all of a block.
ReadRecord(mem, o) == [st |-> StatusOf(mem[o]), id |-> IdOf(mem[o]), len |-> LenOf(mem[o]), off |-> o]
ReadSet(mem, b) == {ReadRecord(mem, o) : o \in LiveHeads(mem, b)}
GoneFrom(mem, b, o) == {x \in Gone(mem, b) : x >= o}

\* What the walk finds in a laid block from k on.
Finds(mem, b, u, k, w) ==
    /\ w = [starts |-> w.starts, listed |-> w.listed, deleted |-> w.deleted, end |-> w.end, why |-> w.why]
    /\ w.end = u /\ w.why = IF u > BlockSize - HdrSize THEN "full" ELSE "free"
    /\ w.listed \in Seq(ReadSet(mem, b))
    /\ \A i, j \in 1..Len(w.listed) : i < j => w.listed[i].off < w.listed[j].off
    /\ \A i \in 1..Len(w.listed) : w.listed[i].off >= Base(b) + k
    /\ \A o \in LiveHeads(mem, b) : o >= Base(b) + k => \E i \in 1..Len(w.listed) : w.listed[i].off = o
    /\ w.deleted = Cardinality(GoneFrom(mem, b, Base(b) + k))

\* The number of cells of a record is its length.
LEMMA Counted ==
    ASSUME NEW o \in Nat, NEW n \in Nat
    PROVE  IsFiniteSet(o..(o + n - 1)) /\ Cardinality(o..(o + n - 1)) = n
BY FS_Interval

\* What the walk lists of a record determines its entry.
LEMMA ReadIs ==
    ASSUME NEW mem, NEW b, NEW r \in ReadSet(mem, b)
    PROVE  r.off \in LiveHeads(mem, b) /\ r = ReadRecord(mem, r.off) /\ r.st = StatusOf(mem[r.off])
           /\ Entry(r.id, r.len, r.off) = RecordOf(mem, r.off)
BY DEF ReadSet, ReadRecord, RecordOf

\* The walk ends behind the last record: the block is full there, or what
\* follows is erased.
LEMMA WalkEnds ==
    ASSUME NEW mem, NEW b \in Block, NEW u, Laid(mem, b, u), NEW f
    PROVE  Finds(mem, b, u, u, WalkAt(mem, b, u, f))
<1>1. /\ u \in Nat /\ u <= BlockSize /\ BlockSize \in Nat /\ HdrSize \in Nat /\ HdrSize >= 1
      /\ Base(b) \in Nat
  BY Sizes, BlockCells DEF Laid
<1>2. \A j \in u..(BlockSize - 1) : mem[Base(b) + j] = Erased
  BY <1>1 DEF Laid, CellsOf
<1> DEFINE why == IF u > BlockSize - HdrSize THEN "full" ELSE "free"
           w == Stopped(u, why)
<1>3. WalkAt(mem, b, u, f) = w
  BY <1>2 DEF WalkAt
<1>4. /\ w = [starts |-> w.starts, listed |-> w.listed, deleted |-> w.deleted, end |-> w.end, why |-> w.why]
      /\ w.end = u /\ w.why = why /\ w.listed = <<>> /\ w.deleted = 0
  BY DEF Stopped
<1>5. \A o \in LiveHeads(mem, b) \cup DeadHeads(mem, b) :
         o \in CellsOf(b) /\ IsHeader(mem[o]) /\ o \in Nat /\ LenOf(mem[o]) \in Nat
         /\ LenOf(mem[o]) >= 1 /\ o + LenOf(mem[o]) <= Base(b) + u
  BY LaidRecord DEF LiveHeads, DeadHeads, Heads
<1>6. \A o \in LiveHeads(mem, b) : ~(o >= Base(b) + u)
  BY <1>1, <1>5
<1>7. GoneFrom(mem, b, Base(b) + u) = {}
  <2>1. SUFFICES ASSUME NEW x \in Gone(mem, b), x >= Base(b) + u PROVE FALSE
    BY DEF GoneFrom
  <2>2. PICK o \in CellsOf(b) : IsHeader(mem[o]) /\ StatusOf(mem[o]) = "DELETED"
                                /\ x \in o..(o + LenOf(mem[o]) - 1)
    BY GoneIs
  <2>3. o \in DeadHeads(mem, b)
    BY <2>2 DEF DeadHeads, Heads
  <2> QED BY <2>1, <2>2, <2>3, <1>1, <1>5
<1>8. w.deleted = Cardinality(GoneFrom(mem, b, Base(b) + u))
  BY <1>4, <1>7, FS_EmptySet
<1> HIDE DEF w
<1>9. w.listed \in Seq(ReadSet(mem, b)) /\ Len(w.listed) = 0
  BY <1>4
<1>10. 1..Len(w.listed) = {}
  BY <1>9
<1> QED BY <1>3, <1>4, <1>6, <1>8, <1>9, <1>10 DEF Finds

\* The walk passes the record at k, and what it finds is this record and what
\* it finds behind it.
LEMMA WalkPasses ==
    ASSUME NEW mem, NEW b \in Block, NEW u, Laid(mem, b, u),
           NEW k \in Nat, NEW o \in Heads(mem, b), o = Base(b) + k,
           StatusOf(mem[o]) \notin {"INCOMING", "INVALID"},
           NEW f, Finds(mem, b, u, k + LenOf(mem[o]), f[k + LenOf(mem[o])])
    PROVE  Finds(mem, b, u, k, WalkAt(mem, b, k, f))
<1> DEFINE c == mem[o]
           len == LenOf(c)
           p == f[k + len]
           w == Passed(c, o, p)
<1>1. o \in CellsOf(b) /\ IsHeader(c)
  BY DEF Heads
<1>2. /\ u \in Nat /\ u <= BlockSize /\ o \in Nat /\ Base(b) \in Nat
      /\ IdOf(c) \in Id /\ len \in Nat /\ len >= 1 /\ len >= HdrSize /\ o + len <= Base(b) + u
      /\ o..(o + len - 1) \subseteq CellsOf(b)
      /\ \A q \in CellsOf(b) : IsHeader(mem[q]) /\ q > o => q >= o + len
  BY <1>1, LaidRecord
<1>3. BlockSize \in Nat /\ HdrSize \in Nat /\ HdrSize >= 1 /\ NoId \notin Id
  BY Sizes, LayoutAssumption
<1>4. Finds(mem, b, u, k + len, p)
  OBVIOUS
<1>5. StatusOf(c) # "INCOMING" /\ StatusOf(c) # "INVALID"
  OBVIOUS
<1>6. c # Erased
  BY <1>1, HeaderFields
<1> HIDE DEF len, p
<1>a. o \in Nat /\ len \in Nat /\ len >= 1 /\ Base(b) \in Nat
  BY <1>2
<1>7. WalkAt(mem, b, k, f) = w
  <2> HIDE DEF w
  <2>1. ~(k > BlockSize - HdrSize) /\ len \in HdrSize..(BlockSize - k) /\ k \in k..(BlockSize - 1)
    BY <1>2, <1>3
  <2>2. ~(\A j \in k..(BlockSize - 1) : mem[Base(b) + j] = Erased)
    BY <2>1, <1>6
  <2>3. HeaderOk(c, BlockSize - k)
    BY <2>1, <1>2, <1>3, <1>5 DEF HeaderOk, len
  <2>4. FromHeader(mem, b, k, f) = w
    BY <1>1, <2>3, <1>5 DEF FromHeader, w, p, len
  <2> QED BY <2>1, <2>2, <2>4 DEF WalkAt
<1> DEFINE S == ReadSet(mem, b)
<1>8. /\ p = [starts |-> p.starts, listed |-> p.listed, deleted |-> p.deleted, end |-> p.end, why |-> p.why]
      /\ p.end = u /\ p.why = IF u > BlockSize - HdrSize THEN "full" ELSE "free"
      /\ p.listed \in Seq(S)
      /\ \A i, j \in 1..Len(p.listed) : i < j => p.listed[i].off < p.listed[j].off
      /\ \A i \in 1..Len(p.listed) : p.listed[i].off >= Base(b) + (k + len)
      /\ \A q \in LiveHeads(mem, b) : q >= Base(b) + (k + len) => \E i \in 1..Len(p.listed) : p.listed[i].off = q
      /\ p.deleted = Cardinality(GoneFrom(mem, b, Base(b) + (k + len)))
  BY <1>4 DEF Finds
<1>9. Base(b) + (k + len) = o + len
  BY <1>2
<1>10. \A q \in LiveHeads(mem, b) \cup DeadHeads(mem, b) : q \in CellsOf(b) /\ IsHeader(mem[q]) /\ q \in Nat
           /\ (q > o => q >= o + len)
           /\ LenOf(mem[q]) \in Nat /\ (o > q => o >= q + LenOf(mem[q]))
  BY <1>1, <1>2, LaidRecord DEF LiveHeads, DeadHeads, Heads
<1>11. \A x \in Gone(mem, b) : x \in CellsOf(b) /\ x \in Nat /\
          \E q \in DeadHeads(mem, b) : x \in q..(q + LenOf(mem[q]) - 1)
  <2> TAKE x \in Gone(mem, b)
  <2>1. PICK q \in CellsOf(b) : IsHeader(mem[q]) /\ StatusOf(mem[q]) = "DELETED"
                                /\ x \in q..(q + LenOf(mem[q]) - 1)
    BY GoneIs
  <2>2. q \in DeadHeads(mem, b)
    BY <2>1 DEF DeadHeads, Heads
  <2>3. x \in CellsOf(b)
    BY GoneFinite
  <2> QED BY <2>1, <2>2, <2>3, <1>2 DEF CellsOf
<1>12. CASE StatusOf(c) = "DELETED"
  <2>1. w = [p EXCEPT !.starts = @ \cup {o}, !.deleted = @ + len]
    BY <1>12 DEF Passed, len
  <2>2. /\ w = [starts |-> w.starts, listed |-> w.listed, deleted |-> w.deleted, end |-> w.end, why |-> w.why]
        /\ w.listed = p.listed /\ w.deleted = p.deleted + len /\ w.end = p.end /\ w.why = p.why
    <3> HIDE DEF w
    <3>1. w = [starts |-> p.starts \cup {o}, listed |-> p.listed, deleted |-> p.deleted + len,
               end |-> p.end, why |-> p.why]
      BY <2>1, <1>8
    <3> QED BY <3>1
  <2>3. o \notin LiveHeads(mem, b) /\ o \in DeadHeads(mem, b)
    BY <1>1, <1>12 DEF LiveHeads, DeadHeads, Heads
  <2> DEFINE G == GoneFrom(mem, b, o + len)
             ext == o..(o + len - 1)
  <2>4. GoneFrom(mem, b, o) = G \cup ext
    <3>1. \A x \in ext : x \in Gone(mem, b) /\ x >= o
      BY <1>1, <1>2, <1>12, GoneIs DEF len
    <3>2. ASSUME NEW x \in Gone(mem, b), x >= o PROVE x >= o + len \/ x \in ext
      BY <3>2, <1>2, <1>11
    <3>3. \A x \in G : x \in Gone(mem, b) /\ x >= o
      BY <1>2, <1>11 DEF GoneFrom
    <3> QED BY <3>1, <3>2, <3>3 DEF GoneFrom
  <2>5. G \cap ext = {}
    BY <1>2, <1>11 DEF GoneFrom
  <2>6. IsFiniteSet(G) /\ Cardinality(G) \in Nat
    <3>1. G \subseteq Gone(mem, b)
      BY DEF GoneFrom
    <3> QED BY <3>1, GoneFinite, FS_Subset, FS_CardinalityType
  <2>7. IsFiniteSet(ext) /\ Cardinality(ext) = len
    BY <1>a, Counted
  <2> HIDE DEF G, ext, w
  <2>8. Cardinality(G \cup ext) = Cardinality(G) + Cardinality(ext) - Cardinality(G \cap ext)
    BY <2>6, <2>7, FS_Union
  <2>9. Cardinality(G \cap ext) = 0
    BY <2>5, FS_EmptySet
  <2>10. w.deleted = Cardinality(GoneFrom(mem, b, o))
    <3>1. p.deleted = Cardinality(G)
      BY <1>8, <1>9 DEF G
    <3> DEFINE n == Cardinality(G)
    <3>2. Cardinality(G \cup ext) = n + len - 0 /\ n \in Nat
      BY <2>6, <2>7, <2>8, <2>9
    <3> HIDE DEF n
    <3>3. Cardinality(G \cup ext) = n + len
      BY <3>2, <1>a
    <3> QED BY <3>1, <3>3, <2>2, <2>4 DEF n
  <2>11. \A i \in 1..Len(w.listed) : w.listed[i].off >= o
    <3>1. ASSUME NEW i \in 1..Len(p.listed) PROVE p.listed[i].off >= o
      <4>1. p.listed[i] \in S
        BY <1>8
      <4>2. p.listed[i].off \in LiveHeads(mem, b)
        BY <4>1, ReadIs
      <4> QED BY <4>2, <1>2, <1>8, <1>9, <1>10, SMTT(60)
    <3> QED BY <3>1, <2>2
  <2>12. \A q \in LiveHeads(mem, b) : q >= o => \E i \in 1..Len(w.listed) : w.listed[i].off = q
    <3>1. \A q \in LiveHeads(mem, b) : q >= o => q >= o + len
      BY <1>2, <1>10, <2>3
    <3> QED BY <3>1, <2>2, <1>8, <1>9
  <2> QED BY <1>7, <2>2, <1>8, <2>10, <2>11, <2>12 DEF Finds
<1>13. CASE StatusOf(c) # "DELETED"
  <2> DEFINE r == ReadRecord(mem, o)
  <2>1. w = [p EXCEPT !.starts = @ \cup {o}, !.listed = <<r>> \o @]
    BY <1>13 DEF Passed, ReadRecord
  <2>2. /\ w = [starts |-> w.starts, listed |-> w.listed, deleted |-> w.deleted, end |-> w.end, why |-> w.why]
        /\ w.listed = <<r>> \o p.listed /\ w.deleted = p.deleted /\ w.end = p.end /\ w.why = p.why
    <3> HIDE DEF w, r
    <3>1. w = [starts |-> p.starts \cup {o}, listed |-> <<r>> \o p.listed, deleted |-> p.deleted,
               end |-> p.end, why |-> p.why]
      BY <2>1, <1>8
    <3> QED BY <3>1
  <2>3. o \in LiveHeads(mem, b) /\ o \notin DeadHeads(mem, b)
    BY <1>1, <1>13 DEF LiveHeads, DeadHeads, Heads
  <2>4. r \in S /\ r.off = o
    BY <2>3 DEF ReadSet, ReadRecord
  <2> HIDE DEF w, r, S
  <2>5. /\ w.listed \in Seq(S) /\ Len(w.listed) = Len(p.listed) + 1 /\ Len(p.listed) \in Nat
        /\ w.listed[1] = r
        /\ \A i \in 1..Len(p.listed) : w.listed[i + 1] = p.listed[i]
    <3>1. <<r>> \in Seq(S) /\ Len(<<r>>) = 1 /\ <<r>>[1] = r /\ p.listed \in Seq(S)
      BY <2>4, <1>8
    <3> DEFINE s == <<r>>
    <3>2. s \in Seq(S) /\ Len(s) = 1 /\ s[1] = r
      BY <3>1
    <3> HIDE DEF s
    <3>a. p.listed \in Seq(S)
      BY <1>8
    <3> DEFINE t == p.listed
    <3> HIDE DEF t
    <3>b. /\ s \o t \in Seq(S) /\ Len(s \o t) = Len(s) + Len(t)
          /\ \A i \in 1..(Len(s) + Len(t)) : (s \o t)[i] = IF i <= Len(s) THEN s[i] ELSE t[i - Len(s)]
      BY <3>a, <3>2, ConcatProperties DEF t
    <3>3. /\ s \o p.listed \in Seq(S) /\ Len(s \o p.listed) = 1 + Len(p.listed)
          /\ \A i \in 1..(1 + Len(p.listed)) : (s \o p.listed)[i] = IF i <= 1 THEN s[i] ELSE p.listed[i - 1]
      BY <3>b, <3>2 DEF t
    <3>4. w.listed = s \o p.listed /\ Len(p.listed) \in Nat
      BY <2>2, <3>1 DEF s
    <3> QED BY <3>2, <3>3, <3>4
  <2>6. \A i \in 1..Len(p.listed) : p.listed[i] \in S /\ p.listed[i].off \in Nat
           /\ p.listed[i].off >= o + len
    <3> TAKE i \in 1..Len(p.listed)
    <3>1. p.listed[i] \in S
      BY <1>8
    <3>2. p.listed[i].off \in LiveHeads(mem, b)
      BY <3>1, ReadIs DEF S
    <3> QED BY <3>1, <3>2, <1>8, <1>9, <1>10
  <2>7. \A i \in 1..Len(w.listed) : i = 1 \/ (i - 1 \in 1..Len(p.listed) /\ w.listed[i] = p.listed[i - 1])
    <3> TAKE i \in 1..Len(w.listed)
    <3>1. i # 1 => i - 1 \in 1..Len(p.listed) /\ (i - 1) + 1 = i
      BY <2>5
    <3> QED BY <3>1, <2>5
  <2>8. \A i, j \in 1..Len(w.listed) : i < j => w.listed[i].off < w.listed[j].off
    <3> SUFFICES ASSUME NEW i \in 1..Len(w.listed), NEW j \in 1..Len(w.listed), i < j
                 PROVE  w.listed[i].off < w.listed[j].off
      OBVIOUS
    <3>1. j # 1 /\ j - 1 \in 1..Len(p.listed) /\ w.listed[j] = p.listed[j - 1]
      BY <2>7
    <3>2. CASE i = 1
      <4>1. w.listed[i].off = o
        BY <3>2, <2>4, <2>5
      <4>2. w.listed[j].off \in Nat /\ w.listed[j].off >= o + len
        BY <3>1, <2>6
      <4> DEFINE x == w.listed[j].off
      <4> HIDE DEF x
      <4>3. x \in Nat /\ x >= o + len
        BY <4>2 DEF x
      <4>4. o < x
        BY <4>3, <1>a
      <4> QED BY <4>1, <4>4 DEF x
    <3>3. CASE i # 1
      <4>1. i - 1 \in 1..Len(p.listed) /\ w.listed[i] = p.listed[i - 1] /\ i - 1 < j - 1
        BY <3>3, <2>7
      <4> QED BY <4>1, <3>1, <1>8
    <3> QED BY <3>2, <3>3
  <2>9. \A i \in 1..Len(w.listed) : w.listed[i].off >= o
    <3> TAKE i \in 1..Len(w.listed)
    <3>1. CASE i = 1
      BY <3>1, <2>4, <2>5, <1>2
    <3>2. CASE i # 1
      <4>1. i - 1 \in 1..Len(p.listed) /\ w.listed[i] = p.listed[i - 1]
        BY <3>2, <2>7
      <4> DEFINE x == w.listed[i].off
      <4>2. x \in Nat /\ x >= o + len
        BY <4>1, <2>6
      <4> HIDE DEF x
      <4>3. x >= o
        BY <4>2, <1>a
      <4> QED BY <4>3 DEF x
    <3> QED BY <3>1, <3>2
  <2>10. \A q \in LiveHeads(mem, b) : q >= o => \E i \in 1..Len(w.listed) : w.listed[i].off = q
    <3> SUFFICES ASSUME NEW q \in LiveHeads(mem, b), q >= o
                 PROVE  \E i \in 1..Len(w.listed) : w.listed[i].off = q
      OBVIOUS
    <3>1. CASE q = o
      <4>1. 1 \in 1..Len(w.listed)
        BY <2>5
      <4> QED BY <4>1, <3>1, <2>4, <2>5
    <3>2. CASE q # o
      <4>1. q >= o + len
        BY <3>2, <1>2, <1>10
      <4>2. PICK i \in 1..Len(p.listed) : p.listed[i].off = q
        BY <4>1, <1>8, <1>9
      <4>3. i + 1 \in 1..Len(w.listed) /\ w.listed[i + 1] = p.listed[i]
        BY <2>5
      <4> QED BY <4>2, <4>3
    <3> QED BY <3>1, <3>2
  <2>11. GoneFrom(mem, b, o) = GoneFrom(mem, b, o + len)
    <3>1. ASSUME NEW x \in Gone(mem, b), x >= o PROVE x >= o + len
      <4>1. PICK q \in DeadHeads(mem, b) : x \in q..(q + LenOf(mem[q]) - 1)
        BY <1>11
      <4>2. q # o
        BY <2>3
      <4> QED BY <4>1, <4>2, <3>1, <1>2, <1>10
    <3>2. \A x \in Gone(mem, b) : x >= o + len => x >= o
      BY <1>2, <1>11
    <3> QED BY <3>1, <3>2 DEF GoneFrom
  <2> QED BY <1>7, <2>2, <2>5, <2>8, <2>9, <2>10, <2>11, <1>8, <1>9 DEF Finds, S
<1> QED BY <1>12, <1>13

\* So the walk from the start of a block finds what the block holds.
LEMMA WalkFinds ==
    ASSUME NEW mem, NEW b \in Block, NEW u, Laid(mem, b, u),
           \A o \in Heads(mem, b) : StatusOf(mem[o]) \notin {"INCOMING", "INVALID"}
    PROVE  Finds(mem, b, u, 0, Walk(mem, b))
<1>1. PICK f : Walks(mem, b, 0, f) /\ Walk(mem, b) = f[0]
  BY WalkIs
<1>2. u \in 0..BlockSize /\ u \in Nat /\ BlockSize \in Nat /\ Base(b) \in Nat
  BY Sizes, BlockCells DEF Laid
<1> DEFINE Good(k) == k = u \/ Base(b) + k \in Heads(mem, b) => Finds(mem, b, u, k, f[k])
           Bad == {n \in 0..u : ~Good(u - n)}
<1>3. ASSUME Bad # {} PROVE FALSE
  <2> HIDE DEF Good
  <2>1. PICK n \in Bad : \A m \in Bad : n <= m
    <3>1. Bad \subseteq Nat
      BY <1>2
    <3> QED BY <3>1, <1>3, SmallestIn
  <2>2. n \in 0..u /\ n \in Nat /\ ~Good(u - n)
    BY <1>2
  <2>3. \A m \in 0..u : m < n => Good(u - m)
    BY <2>1, <2>2
  <2> HIDE DEF Bad
  <2> DEFINE k == u - n
  <2>4. k \in Nat /\ k <= u /\ k \in 0..BlockSize
    BY <1>2, <2>2
  <2>5. f[k] = WalkAt(mem, b, k, f)
    BY <1>1, <2>4 DEF Walks
  <2>6. ASSUME NEW m \in Nat, k < m, m <= u PROVE Good(m)
    <3>1. u - m \in 0..u /\ u - m < n /\ u - (u - m) = m
      BY <2>6, <2>2, <1>2
    <3> QED BY <3>1, <2>3
  <2>7. ~Good(k)
    BY <2>2
  <2> HIDE DEF k
  <2>8. CASE k = u
    BY <2>5, <2>7, <2>8, WalkEnds DEF Good
  <2>9. CASE k # u
    <3>1. Base(b) + k \in Heads(mem, b)
      BY <2>7, <2>9 DEF Good
    <3> DEFINE o == Base(b) + k
               len == LenOf(mem[o])
    <3>2. /\ o \in CellsOf(b) /\ IsHeader(mem[o])
          /\ len \in Nat /\ len >= 1 /\ o + len <= Base(b) + u
          /\ o + len < Base(b) + u => o + len \in CellsOf(b) /\ IsHeader(mem[o + len])
      BY <3>1, LaidRecord DEF Heads
    <3>3. StatusOf(mem[o]) \notin {"INCOMING", "INVALID"}
      BY <3>1
    <3>4. o = Base(b) + k /\ o \in Heads(mem, b)
      BY <3>1
    <3> HIDE DEF o
    <3>a. len = LenOf(mem[o])
      OBVIOUS
    <3> HIDE DEF len
    <3>5. k + len \in Nat /\ k < k + len /\ k + len <= u
      BY <3>2, <3>4, <2>4, <1>2
    <3>6. k + len = u \/ Base(b) + (k + len) \in Heads(mem, b)
      <4>1. Base(b) + (k + len) = o + len
        BY <3>2, <3>4, <2>4, <1>2
      <4>2. k + len = u \/ o + len < Base(b) + u
        BY <3>2, <3>4, <2>4, <1>2
      <4> QED BY <4>1, <4>2, <3>2 DEF Heads
    <3>7. Finds(mem, b, u, k + len, f[k + len])
      BY <3>5, <3>6, <2>6 DEF Good
    <3>8. Finds(mem, b, u, k, WalkAt(mem, b, k, f))
      BY <3>3, <3>4, <3>7, <3>a, <2>4, WalkPasses
    <3> QED BY <3>8, <2>5, <2>7 DEF Good
  <2> QED BY <2>8, <2>9
<1>4. Good(0)
  <2>1. u \in 0..u /\ u - u = 0
    BY <1>2
  <2> HIDE DEF Good
  <2> QED BY <2>1, <1>3
<1>5. 0 = u \/ Base(b) + 0 \in Heads(mem, b)
  BY <1>2 DEF Laid
<1> QED BY <1>1, <1>4, <1>5

\* ErstCollectBlock over a block that the driver has laid out, without an
\* INCOMING record: it lists the records of the block in order, sums the
\* length of the deleted ones and ends where the next record goes.
LEMMA WalkLaid ==
    ASSUME NEW mem, NEW b \in Block, NEW u, Laid(mem, b, u),
           \A o \in Heads(mem, b) : StatusOf(mem[o]) \notin {"INCOMING", "INVALID"},
           NEW w, w = Walk(mem, b)
    PROVE  /\ w.end = u /\ w.why = IF u > BlockSize - HdrSize THEN "full" ELSE "free"
           /\ w.deleted = Cardinality(Gone(mem, b))
           /\ w.listed \in Seq(ReadSet(mem, b))
           /\ Len(w.listed) \in Nat /\ Len(w.listed) = Cardinality(Held(mem, b))
           /\ \A i, j \in 1..Len(w.listed) : i < j => w.listed[i].off < w.listed[j].off
           /\ \A i \in 1..Len(w.listed) :
                /\ w.listed[i] \in ReadSet(mem, b) /\ w.listed[i].off \in CellsOf(b)
                /\ Entry(w.listed[i].id, w.listed[i].len, w.listed[i].off) \in Held(mem, b)
                /\ w.listed[i].st = StatusOf(mem[w.listed[i].off])
           /\ \A e \in Held(mem, b) : \E i \in 1..Len(w.listed) :
                e = Entry(w.listed[i].id, w.listed[i].len, w.listed[i].off)
           /\ Listed(mem, b) = Held(mem, b)
<1> DEFINE s == w.listed
           H == Held(mem, b)
           E(r) == Entry(r.id, r.len, r.off)
<1>1. Finds(mem, b, u, 0, w)
  BY WalkFinds
<1>2. /\ w.end = u /\ w.why = (IF u > BlockSize - HdrSize THEN "full" ELSE "free")
      /\ s \in Seq(ReadSet(mem, b))
      /\ \A i, j \in 1..Len(s) : i < j => s[i].off < s[j].off
      /\ \A o \in LiveHeads(mem, b) : o >= Base(b) + 0 => \E i \in 1..Len(s) : s[i].off = o
      /\ w.deleted = Cardinality(GoneFrom(mem, b, Base(b) + 0))
  BY <1>1 DEF Finds
<1>3. Base(b) \in Nat /\ \A x \in CellsOf(b) : x \in Nat /\ x >= Base(b) + 0
  BY BlockCells DEF CellsOf
<1>4. GoneFrom(mem, b, Base(b) + 0) = Gone(mem, b)
  BY <1>3, GoneFinite DEF GoneFrom
<1>5. Len(s) \in Nat /\ \A i \in 1..Len(s) : s[i] \in ReadSet(mem, b)
  BY <1>2
<1>6. \A i \in 1..Len(s) :
        /\ s[i].off \in LiveHeads(mem, b) /\ s[i].off \in CellsOf(b) /\ s[i].off \in Nat
        /\ E(s[i]) = RecordOf(mem, s[i].off) /\ E(s[i]) \in H
        /\ s[i].st = StatusOf(mem[s[i].off])
  <2> TAKE i \in 1..Len(s)
  <2>1. /\ s[i].off \in LiveHeads(mem, b) /\ E(s[i]) = RecordOf(mem, s[i].off)
        /\ s[i].st = StatusOf(mem[s[i].off])
    BY <1>5, ReadIs
  <2>2. s[i].off \in CellsOf(b)
    BY <2>1 DEF LiveHeads, Heads
  <2> QED BY <2>1, <2>2, <1>3 DEF Held
<1>7. \A e \in H : \E i \in 1..Len(s) : e = E(s[i])
  <2> TAKE e \in H
  <2>1. PICK o \in LiveHeads(mem, b) : e = RecordOf(mem, o)
    BY DEF Held
  <2>2. o \in CellsOf(b)
    BY DEF LiveHeads, Heads
  <2>3. PICK i \in 1..Len(s) : s[i].off = o
    BY <1>2, <1>3, <2>2
  <2> QED BY <2>1, <2>3, <1>6
<1>8. Len(s) = Cardinality(H)
  <2> DEFINE g == [i \in 1..Len(s) |-> E(s[i])]
  <2>1. g \in [1..Len(s) -> H] /\ \A i \in 1..Len(s) : g[i] = RecordOf(mem, s[i].off)
    BY <1>6
  <2>2. \A e \in H : \E i \in 1..Len(s) : g[i] = e
    BY <1>7
  <2> HIDE DEF g
  <2>3. \A i, j \in 1..Len(s) : g[i] = g[j] => i = j
    <3> SUFFICES ASSUME NEW i \in 1..Len(s), NEW j \in 1..Len(s), g[i] = g[j] PROVE i = j
      OBVIOUS
    <3>1. RecordOf(mem, s[i].off).off = s[i].off /\ RecordOf(mem, s[j].off).off = s[j].off
      BY EntryFields DEF RecordOf
    <3>2. s[i].off = s[j].off
      BY <3>1, <2>1
    <3>3. ~(i < j) /\ ~(j < i)
      BY <3>2, <1>2, <1>6
    <3> QED BY <3>3, <1>5
  <2> HIDE DEF s, H
  <2>4. g \in Bijection(1..Len(s), H)
    BY <2>1, <2>2, <2>3 DEF Bijection, Injection, IsInjective, Surjection
  <2> QED BY <2>4, <1>5, FS_CountingElements DEF ExistsBijection
<1>9. Listed(mem, b) = H
  <2>1. Range(s) = {s[i] : i \in 1..Len(s)}
    BY <1>2 DEF Range
  <2>2. \A e : e \in Listed(mem, b) <=> \E i \in 1..Len(s) : e = E(s[i])
    BY <2>1 DEF Listed
  <2> HIDE DEF s
  <2> QED BY <2>2, <1>6, <1>7
<1> QED BY <1>2, <1>4, <1>5, <1>6, <1>7, <1>8, <1>9

(***************************************************************************)
(* The list of records.                                                    *)
(***************************************************************************)

\* The list has no two records at one offset and no two of one id.
EntryType == [id : Id, len : RecLen, off : Off]
Distinct(s) ==
    /\ s \in Seq(EntryType)
    /\ \A k, m \in 1..Len(s) : k # m => s[k].off # s[m].off /\ s[k].id # s[m].id

\* Min of a set of numbers.
LEMMA MinOf ==
    ASSUME NEW T, T \subseteq Nat, T # {}
    PROVE  Min(T) \in T /\ \A y \in T : Min(T) <= y
BY SmallestIn DEF Min

\* The list of records: its entries and its length.
LEMMA ListIs ==
    ASSUME NEW s, Distinct(s)
    PROVE  /\ Len(s) \in Nat
           /\ \A k \in 1..Len(s) : s[k] \in EntryType /\ s[k].off \in Off /\ s[k].id \in Id /\ s[k].len \in RecLen
           /\ \A e : e \in Range(s) <=> \E k \in 1..Len(s) : s[k] = e
           /\ (s = <<>> <=> Len(s) = 0)
<1>1. s \in Seq(EntryType)
  BY DEF Distinct
<1>2. Len(s) \in Nat /\ \A k \in 1..Len(s) : s[k] \in EntryType
  BY <1>1
<1>3. Range(s) = {s[k] : k \in 1..Len(s)}
  BY <1>1 DEF Range
<1>4. s = <<>> <=> Len(s) = 0
  BY <1>1
<1> QED BY <1>2, <1>3, <1>4 DEF EntryType

\* An offset determines the place in the list (IndexOf, EntryAt).
LEMMA IndexIs ==
    ASSUME NEW t, Distinct(t.list), NEW k \in 1..Len(t.list), NEW o, o = t.list[k].off
    PROVE  IndexOf(t, o) = k /\ EntryAt(t, o) = t.list[k]
<1> DEFINE I == {i \in 1..Len(t.list) : t.list[i].off = o}
<1>1. IndexOf(t, o) = IF I # {} THEN Min(I) ELSE 0
  BY DEF IndexOf, SelectInSeq
<1>2. I = {k}
  BY DEF Distinct
<1>3. Len(t.list) \in Nat
  BY DEF Distinct
<1> HIDE DEF I
<1>4. Min(I) = k
  BY <1>2, <1>3, MinOf
<1> QED BY <1>1, <1>2, <1>4 DEF EntryAt

\* ErstFindRecord finds the record with the id, or there is none.
LEMMA FoundIs ==
    ASSUME NEW t, Distinct(t.list), t.inc = NoOff, t.out = NoOff, NEW i
    PROVE  \/ FindRecord(t, i) = 0 /\ FoundOffset(t, i) = NoOff /\ \A k \in 1..Len(t.list) : t.list[k].id # i
           \/ /\ FindRecord(t, i) \in 1..Len(t.list)
              /\ t.list[FindRecord(t, i)].id = i
              /\ FoundOffset(t, i) = t.list[FindRecord(t, i)].off
              /\ FoundOffset(t, i) \in Off /\ FoundOffset(t, i) # NoOff
<1> DEFINE I == {k \in 1..Len(t.list) : t.list[k].id = i /\ t.list[k].off \notin {t.inc, t.out}}
<1>1. FindRecord(t, i) = IF I # {} THEN Min(I) ELSE 0
  BY DEF FindRecord, SelectInSeq
<1>2. Len(t.list) \in Nat /\ NoOff \notin Off /\ \A k \in 1..Len(t.list) : t.list[k].off \in Off
  BY ListIs, LayoutAssumption
<1>3. \A k \in 1..Len(t.list) : k \in I <=> t.list[k].id = i
  BY <1>2
<1>4. I \subseteq 1..Len(t.list) /\ I \subseteq Nat
  BY <1>2
<1> HIDE DEF I
<1>5. CASE I = {}
  BY <1>1, <1>3, <1>5 DEF FoundOffset
<1>6. CASE I # {}
  <2>1. Min(I) \in I
    BY <1>4, <1>6, MinOf
  <2>2. FindRecord(t, i) \in 1..Len(t.list) /\ FindRecord(t, i) # 0 /\ FindRecord(t, i) \in I
    <3>1. FindRecord(t, i) = Min(I)
      BY <1>1, <1>6
    <3>2. FindRecord(t, i) \in I
      BY <2>1, <3>1
    <3>3. FindRecord(t, i) \in 1..Len(t.list)
      BY <3>2, <1>4
    <3> QED BY <3>2, <3>3, <1>2
  <2> QED BY <2>2, <1>2, <1>3 DEF FoundOffset
<1> QED BY <1>5, <1>6

\* A record is appended (ErstAllocateNewRecord), and dropped again.
LEMMA AppendList ==
    ASSUME NEW s, Distinct(s), NEW e \in EntryType,
           \A k \in 1..Len(s) : s[k].off # e.off /\ s[k].id # e.id
    PROVE  /\ Distinct(Append(s, e)) /\ Len(Append(s, e)) = Len(s) + 1
           /\ Range(Append(s, e)) = Range(s) \cup {e}
           /\ Append(s, e)[Len(s) + 1] = e /\ \A k \in 1..Len(s) : Append(s, e)[k] = s[k]
           /\ RemoveAt(Append(s, e), Len(s) + 1) = s
           /\ Last(Append(s, e)) = e /\ Append(s, e) # <<>>
<1> DEFINE a == Append(s, e)
<1>1. s \in Seq(EntryType) /\ Len(s) \in Nat
  BY DEF Distinct
<1>2. /\ a \in Seq(EntryType) /\ Len(a) = Len(s) + 1 /\ a # <<>>
      /\ \A k \in 1..Len(s) : a[k] = s[k]
      /\ a[Len(s) + 1] = e
  BY <1>1, AppendProperties
<1> HIDE DEF a
<1>3. \A k \in 1..Len(a) : k # Len(s) + 1 => k \in 1..Len(s)
  BY <1>1, <1>2
<1>4. Distinct(a)
  BY <1>2, <1>3 DEF Distinct
<1>5. \A d : d \in Range(a) <=> d \in Range(s) \/ d = e
  <2> TAKE d
  <2>1. d \in Range(a) <=> \E k \in 1..Len(a) : a[k] = d
    BY <1>4, ListIs
  <2>2. d \in Range(s) <=> \E k \in 1..Len(s) : s[k] = d
    BY ListIs
  <2>3. Len(s) + 1 \in 1..Len(a) /\ \A k \in 1..Len(s) : k \in 1..Len(a)
    BY <1>1, <1>2
  <2> QED BY <2>1, <2>2, <2>3, <1>2, <1>3
<1>6. RemoveAt(a, Len(s) + 1) = s
  <2>1. SubSeq(a, Len(s) + 2, Len(a)) = <<>>
    BY <1>1, <1>2
  <2>2. SubSeq(a, 1, Len(s)) \in Seq(EntryType) /\ Len(SubSeq(a, 1, Len(s))) = Len(s)
        /\ \A k \in 1..Len(s) : SubSeq(a, 1, Len(s))[k] = s[k]
    BY <1>1, <1>2
  <2>3. SubSeq(a, 1, Len(s)) = s
    BY <2>2, <1>1, SeqEqual
  <2>4. RemoveAt(a, Len(s) + 1) = SubSeq(a, 1, Len(s)) \o SubSeq(a, Len(s) + 2, Len(a))
    <3>1. (Len(s) + 1) - 1 = Len(s) /\ (Len(s) + 1) + 1 = Len(s) + 2
      BY <1>1
    <3> QED BY <3>1 DEF RemoveAt
  <2> QED BY <2>1, <2>3, <2>4, <1>1, ConcatEmptySeq
<1>7. Last(a) = e
  BY <1>2 DEF Last
<1> QED BY <1>2, <1>4, <1>5, <1>6, <1>7 DEF a

\* A record is removed and those behind it move up (ErstDeallocateRecord).
LEMMA RemoveList ==
    ASSUME NEW s, Distinct(s), NEW k \in 1..Len(s)
    PROVE  Distinct(RemoveAt(s, k)) /\ Range(RemoveAt(s, k)) = Range(s) \ {s[k]}
<1> DEFINE r == RemoveAt(s, k)
<1>1. s \in Seq(EntryType) /\ Len(s) \in Nat /\ k \in Nat
  BY DEF Distinct
<1> DEFINE x == SubSeq(s, 1, k - 1)
           y == SubSeq(s, k + 1, Len(s))
<1>2. x \in Seq(EntryType) /\ Len(x) = k - 1 /\ \A i \in 1..(k - 1) : x[i] = s[i]
  BY <1>1
<1>3. y \in Seq(EntryType) /\ Len(y) = Len(s) - k /\ \A i \in 1..(Len(s) - k) : y[i] = s[i + k]
  BY <1>1
<1>4. r = x \o y
  BY DEF RemoveAt
<1> HIDE DEF r, x, y
<1>5. /\ r \in Seq(EntryType) /\ Len(r) = Len(x) + Len(y)
      /\ \A i \in 1..(Len(x) + Len(y)) : r[i] = IF i <= Len(x) THEN x[i] ELSE y[i - Len(x)]
  BY <1>2, <1>3, <1>4, ConcatProperties
<1>6. Len(r) = Len(s) - 1 /\ \A i \in 1..Len(r) : r[i] = IF i < k THEN s[i] ELSE s[i + 1]
  <2>1. Len(r) = Len(s) - 1 /\ Len(x) + Len(y) = Len(s) - 1
    BY <1>1, <1>2, <1>3, <1>5
  <2>2. ASSUME NEW i \in 1..Len(r) PROVE r[i] = IF i < k THEN s[i] ELSE s[i + 1]
    <3>1. CASE i < k
      BY <3>1, <2>1, <1>1, <1>2, <1>5
    <3>2. CASE ~(i < k)
      <4>1. i - Len(x) \in 1..(Len(s) - k) /\ (i - Len(x)) + k = i + 1 /\ ~(i <= Len(x))
        BY <3>2, <2>1, <1>1, <1>2
      <4> QED BY <4>1, <3>2, <2>1, <1>3, <1>5
    <3> QED BY <3>1, <3>2
  <2> QED BY <2>1, <2>2
<1> DEFINE at(i) == IF i < k THEN i ELSE i + 1
<1>7. \A i \in 1..Len(r) : at(i) \in 1..Len(s) /\ at(i) # k /\ r[i] = s[at(i)]
  BY <1>1, <1>6
<1>8. \A i, j \in 1..Len(r) : i # j => at(i) # at(j)
  BY <1>1, <1>6
<1>9. Distinct(r)
  <2>1. ASSUME NEW i \in 1..Len(r), NEW j \in 1..Len(r), i # j
        PROVE  r[i].off # r[j].off /\ r[i].id # r[j].id
    <3> HIDE DEF at
    <3>1. at(i) \in 1..Len(s) /\ at(j) \in 1..Len(s) /\ r[i] = s[at(i)] /\ r[j] = s[at(j)]
      BY <1>7
    <3>2. at(i) # at(j)
      BY <2>1, <1>8
    <3>3. s[at(i)].off # s[at(j)].off /\ s[at(i)].id # s[at(j)].id
      BY <3>1, <3>2 DEF Distinct
    <3> QED BY <3>1, <3>3
  <2> QED BY <1>5, <2>1 DEF Distinct
<1>10. \A m \in 1..Len(s) : m # k => \E i \in 1..Len(r) : at(i) = m
  <2> SUFFICES ASSUME NEW m \in 1..Len(s), m # k PROVE \E i \in 1..Len(r) : at(i) = m
    OBVIOUS
  <2>1. CASE m < k
    <3>1. m \in 1..Len(r) /\ at(m) = m
      BY <2>1, <1>1, <1>6
    <3> QED BY <3>1
  <2>2. CASE ~(m < k)
    <3>1. m - 1 \in 1..Len(r) /\ at(m - 1) = m
      BY <2>2, <1>1, <1>6
    <3> QED BY <3>1
  <2> QED BY <2>1, <2>2
<1>11. \A d : d \in Range(r) <=> d \in Range(s) /\ d # s[k]
  <2> TAKE d
  <2>1. d \in Range(r) <=> \E i \in 1..Len(r) : r[i] = d
    BY <1>9, ListIs
  <2>2. d \in Range(s) <=> \E i \in 1..Len(s) : s[i] = d
    BY ListIs
  <2>3. \A i \in 1..Len(s) : i # k => s[i] # s[k]
    BY DEF Distinct
  <2> HIDE DEF at
  <2> QED BY <2>1, <2>2, <2>3, <1>7, <1>10
<1> QED BY <1>9, <1>11 DEF r

\* The entry of a record is changed in place, as a relocation does.
LEMMA ReplaceList ==
    ASSUME NEW s, Distinct(s), NEW k \in 1..Len(s), NEW e \in EntryType, e.id = s[k].id,
           \A m \in 1..Len(s) : s[m].off # e.off
    PROVE  /\ Distinct([s EXCEPT ![k] = e])
           /\ Range([s EXCEPT ![k] = e]) = (Range(s) \ {s[k]}) \cup {e}
<1> DEFINE r == [s EXCEPT ![k] = e]
<1>1. s \in Seq(EntryType) /\ Len(s) \in Nat
  BY DEF Distinct
<1>2. /\ r \in Seq(EntryType) /\ Len(r) = Len(s)
      /\ \A j \in 1..Len(s) : r[j] = IF j = k THEN e ELSE s[j]
  BY <1>1, ExceptSeq
<1> HIDE DEF r
<1>3. Distinct(r)
  BY <1>2 DEF Distinct
<1>4. \A d : d \in Range(r) <=> (d \in Range(s) /\ d # s[k]) \/ d = e
  <2> TAKE d
  <2>1. d \in Range(r) <=> \E i \in 1..Len(r) : r[i] = d
    BY <1>3, ListIs
  <2>2. d \in Range(s) <=> \E i \in 1..Len(s) : s[i] = d
    BY ListIs
  <2>3. \A i \in 1..Len(s) : i # k => s[i] # s[k]
    BY DEF Distinct
  <2> QED BY <2>1, <2>2, <2>3, <1>2
<1> QED BY <1>3, <1>4 DEF r

\* The records of another block are appended (ErstAddCperToList).
LEMMA ConcatList ==
    ASSUME NEW s, Distinct(s), NEW t, Distinct(t),
           \A k \in 1..Len(s), m \in 1..Len(t) : s[k].off # t[m].off /\ s[k].id # t[m].id
    PROVE  Distinct(s \o t) /\ Range(s \o t) = Range(s) \cup Range(t)
<1> DEFINE r == s \o t
<1>1. s \in Seq(EntryType) /\ Len(s) \in Nat /\ t \in Seq(EntryType) /\ Len(t) \in Nat
  BY DEF Distinct
<1>2. /\ r \in Seq(EntryType) /\ Len(r) = Len(s) + Len(t)
      /\ \A i \in 1..(Len(s) + Len(t)) : r[i] = IF i <= Len(s) THEN s[i] ELSE t[i - Len(s)]
      /\ Range(r) = Range(s) \cup Range(t)
  BY <1>1, ConcatProperties, RangeConcatenation
<1> HIDE DEF r
<1>3. \A i \in 1..Len(r) : \/ i \in 1..Len(s) /\ i <= Len(s) /\ r[i] = s[i]
                           \/ i - Len(s) \in 1..Len(t) /\ ~(i <= Len(s)) /\ r[i] = t[i - Len(s)]
  BY <1>1, <1>2
<1>4. \A i, j \in 1..Len(r) : i # j => i - Len(s) # j - Len(s)
  BY <1>1, <1>2
<1>5. \A i, j \in 1..Len(r) : i # j => r[i].off # r[j].off /\ r[i].id # r[j].id
  <2> SUFFICES ASSUME NEW i \in 1..Len(r), NEW j \in 1..Len(r), i # j
               PROVE  r[i].off # r[j].off /\ r[i].id # r[j].id
    OBVIOUS
  <2>1. CASE i <= Len(s) /\ j <= Len(s)
    BY <2>1, <1>3 DEF Distinct
  <2>2. CASE i <= Len(s) /\ ~(j <= Len(s))
    BY <2>2, <1>3
  <2>3. CASE ~(i <= Len(s)) /\ j <= Len(s)
    BY <2>3, <1>3
  <2>4. CASE ~(i <= Len(s)) /\ ~(j <= Len(s))
    BY <2>4, <1>3, <1>4 DEF Distinct
  <2> QED BY <2>1, <2>2, <2>3, <2>4
<1> QED BY <1>2, <1>5 DEF Distinct, r

\* The list holds as many records as it is long.
LEMMA RangeCount ==
    ASSUME NEW s, Distinct(s)
    PROVE  IsFiniteSet(Range(s)) /\ Cardinality(Range(s)) = Len(s)
<1>1. Len(s) \in Nat
  BY ListIs
<1> DEFINE g == [i \in 1..Len(s) |-> s[i]]
<1>2. g \in Bijection(1..Len(s), Range(s))
  <2>1. g \in [1..Len(s) -> Range(s)] /\ \A i \in 1..Len(s) : g[i] = s[i]
    BY ListIs
  <2> HIDE DEF g
  <2>2. \A i, j \in 1..Len(s) : g[i] = g[j] => i = j
    BY <2>1 DEF Distinct
  <2>3. \A e \in Range(s) : \E i \in 1..Len(s) : g[i] = e
    BY <2>1, ListIs
  <2> QED BY <2>1, <2>2, <2>3 DEF Bijection, Injection, IsInjective, Surjection
<1>3. ExistsBijection(1..Len(s), Range(s))
  BY <1>2 DEF ExistsBijection
<1> QED BY <1>1, <1>3, FS_CountingElements, FS_NatBijection

(***************************************************************************)
(* The search for space.                                                   *)
(***************************************************************************)

\* ErstFindFreeSpace looks at every block, wherever it starts.
LEMMA ScanCovers ==
    ASSUME NEW t, t.recent \in Block
    PROVE  /\ ScanOrder(t) = [k \in 1..NumBlocks |-> ScanOrder(t)[k]] /\ Len(ScanOrder(t)) = NumBlocks
           /\ \A k \in 1..NumBlocks : ScanOrder(t)[k] \in Block
           /\ \A b \in Block : \E k \in 1..NumBlocks : ScanOrder(t)[k] = b
<1> DEFINE r == t.recent
           N == NumBlocks
<1>1. N \in Nat /\ N >= 2 /\ r \in Nat /\ r < N
  BY Sizes DEF Block
<1>2. \A x \in Nat : x < N => x % N = x /\ (x + N) % N = x
  BY <1>1
<1>3. \A k \in 1..N : ScanOrder(t)[k] = (k - 1 + r) % N
  BY DEF ScanOrder
<1> HIDE DEF r
<1>4. ASSUME NEW k \in 1..N PROVE ScanOrder(t)[k] \in Block
  <2>1. k - 1 + r \in Int
    BY <1>1
  <2>2. (k - 1 + r) % N \in 0..(N - 1)
    BY <2>1, <1>1
  <2> QED BY <2>2, <1>3 DEF Block
<1>5. ASSUME NEW b \in Block PROVE \E k \in 1..N : ScanOrder(t)[k] = b
  <2>1. b \in Nat /\ b < N
    BY <1>1 DEF Block
  <2>2. CASE b >= r
    <3>1. b - r + 1 \in 1..N /\ (b - r + 1) - 1 + r = b
      BY <2>1, <2>2, <1>1
    <3>2. ScanOrder(t)[b - r + 1] = b
      BY <3>1, <1>3, <1>2, <2>1
    <3> QED BY <3>1, <3>2
  <2>3. CASE b < r
    <3>1. b - r + N + 1 \in 1..N /\ (b - r + N + 1) - 1 + r = b + N
      BY <2>1, <2>3, <1>1
    <3>2. ScanOrder(t)[b - r + N + 1] = b
      BY <3>1, <1>3, <1>2, <2>1
    <3> QED BY <3>1, <3>2
  <2> QED BY <2>2, <2>3, <2>1, <1>1
<1>6. ScanOrder(t) = [k \in 1..N |-> ScanOrder(t)[k]] /\ Len(ScanOrder(t)) = N
  BY <1>1 DEF ScanOrder
<1> QED BY <1>4, <1>5, <1>6

\* ReclaimCandidate's recursive function.
Bests(t, n, f) ==
    f = [k \in 0..NumBlocks |->
          IF k = 0 THEN NoOff ELSE BetterCandidate(t, n, f[k - 1], ScanOrder(t)[k])]

\* The recursive function of ReclaimCandidate exists.
LEMMA BestsExist ==
    ASSUME NEW t, NEW n
    PROVE  \E f : Bests(t, n, f)
<1> DEFINE step(k, w) == BetterCandidate(t, n, w, ScanOrder(t)[k])
           Upto(m, f) == f = [k \in 0..m |-> f[k]] /\ \A k \in 0..m : f[k] = IF k = 0 THEN NoOff ELSE step(k, f[k - 1])
           Known(m) == \E f : Upto(m, f)
           Bad == {m \in 0..NumBlocks : ~Known(m)}
<1>0. NumBlocks \in Nat
  BY Sizes
<1>1. ASSUME Bad # {} PROVE FALSE
  <2> HIDE DEF Known, step
  <2>1. PICK m \in Bad : \A j \in Bad : m <= j
    <3>1. Bad \subseteq Nat
      BY <1>0
    <3> QED BY <3>1, <1>1, SmallestIn
  <2>2. m \in 0..NumBlocks /\ m \in Nat /\ ~Known(m)
    BY <1>0
  <2>3. m # 0 => Known(m - 1)
    <3>1. SUFFICES ASSUME m # 0 PROVE m - 1 \in 0..NumBlocks /\ m - 1 \notin Bad
      OBVIOUS
    <3> QED BY <3>1, <2>1, <2>2, <1>0
  <2> HIDE DEF Bad
  <2>4. CASE m = 0
    <3> DEFINE g == [k \in 0..0 |-> NoOff]
    <3>1. g = [k \in 0..0 |-> g[k]] /\ \A k \in 0..0 : k = 0 /\ g[k] = NoOff
      OBVIOUS
    <3> HIDE DEF g
    <3>2. Upto(0, g)
      BY <3>1
    <3> QED BY <3>2, <2>2, <2>4 DEF Known
  <2>5. CASE m # 0
    <3>1. PICK f : Upto(m - 1, f)
      BY <2>3, <2>5 DEF Known
    <3> DEFINE g == [k \in 0..m |-> IF k = m THEN step(m, f[m - 1]) ELSE f[k]]
    <3>2. g = [k \in 0..m |-> g[k]]
      OBVIOUS
    <3>3. ASSUME NEW k \in 0..m PROVE g[k] = IF k = 0 THEN NoOff ELSE step(k, g[k - 1])
      <4>1. k # 0 => k - 1 \in 0..m /\ k - 1 # m
        BY <2>2
      <4>2. k # 0 => g[k - 1] = f[k - 1]
        BY <4>1
      <4>3. CASE k = m
        BY <4>2, <4>3, <2>5
      <4>4. CASE k # m
        <5>1. k \in 0..(m - 1) /\ g[k] = f[k]
          BY <4>4, <2>2
        <5> HIDE DEF g
        <5> QED BY <5>1, <4>2, <3>1
      <4> QED BY <4>3, <4>4
    <3> HIDE DEF g
    <3>4. Upto(m, g)
      BY <3>2, <3>3
    <3> QED BY <3>4, <2>2 DEF Known
  <2> QED BY <2>4, <2>5
<1>2. Known(NumBlocks)
  BY <1>0, <1>1
<1>3. PICK f : Upto(NumBlocks, f)
  BY <1>2
<1>4. Bests(t, n, f)
  BY <1>3 DEF Bests
<1> QED BY <1>4

\* What is reclaimed is a block that is not free and is not being reclaimed;
\* if there is nothing to reclaim, what is live in a block leaves no room.
LEMMA CandidateIs ==
    ASSUME NEW t, t.recent \in Block, NEW n,
           \A b \in Block : t.blk[b].valid \in Int
    PROVE  /\ \/ ReclaimCandidate(t, n) = NoOff
              \/ /\ ReclaimCandidate(t, n) \in Block
                 /\ t.blk[ReclaimCandidate(t, n)].valid >= 0 /\ ~IsFree(t, ReclaimCandidate(t, n))
           /\ ReclaimCandidate(t, n) = NoOff => \A b \in Block :
                /\ t.blk[b].valid = 0 => IsFree(t, b)
                /\ t.blk[b].valid > 0 => ~(Live(t, b) + n <= BlockSize)
<1> DEFINE best == CHOOSE f : Bests(t, n, f)
           Ok(b) == b \in Block /\ t.blk[b].valid >= 0 /\ ~IsFree(t, b)
           No(b) == /\ t.blk[b].valid = 0 => IsFree(t, b)
                    /\ t.blk[b].valid > 0 => ~(Live(t, b) + n <= BlockSize)
           Good(k) == /\ best[k] = NoOff \/ Ok(best[k])
                      /\ best[k] = NoOff => \A j \in 1..k : No(ScanOrder(t)[j])
           Bad == {k \in 0..NumBlocks : ~Good(k)}
<1>1. ReclaimCandidate(t, n) = best[NumBlocks]
  BY DEF ReclaimCandidate, Bests
<1>2. Bests(t, n, best)
  BY BestsExist
<1> HIDE DEF best
<1>3. \A k \in 0..NumBlocks : best[k] = IF k = 0 THEN NoOff ELSE BetterCandidate(t, n, best[k - 1], ScanOrder(t)[k])
  BY <1>2 DEF Bests
<1>4. NumBlocks \in Nat /\ NoOff \notin Block
  <2>1. Block \subseteq Off
    <3> SUFFICES ASSUME NEW b \in Block PROVE b \in Off
      OBVIOUS
    <3>1. b \in Nat /\ Base(b) \in CellsOf(b) /\ CellsOf(b) \subseteq Off
      BY BlockCells, Sizes DEF CellsOf
    <3>2. Base(b) \in Off /\ b <= b * BlockSize /\ BlockSize \in Nat /\ NumBlocks * BlockSize \in Int
      BY <3>1, Sizes DEF Base
    <3> QED BY <3>1, <3>2 DEF Base, Off
  <2> QED BY <2>1, Sizes, LayoutAssumption
<1>5. ASSUME Bad # {} PROVE FALSE
  <2> HIDE DEF Good
  <2>1. PICK k \in Bad : \A j \in Bad : k <= j
    <3>1. Bad \subseteq Nat
      BY <1>4
    <3> QED BY <3>1, <1>5, SmallestIn
  <2>2. k \in 0..NumBlocks /\ k \in Nat /\ ~Good(k)
    BY <1>4
  <2>3. k # 0 => Good(k - 1)
    <3>1. SUFFICES ASSUME k # 0 PROVE k - 1 \in 0..NumBlocks /\ k - 1 \notin Bad
      OBVIOUS
    <3> QED BY <3>1, <2>1, <2>2, <1>4
  <2> HIDE DEF Bad, Ok, No
  <2>4. CASE k = 0
    BY <2>2, <2>4, <1>3 DEF Good
  <2>5. CASE k # 0
    <3> DEFINE b == ScanOrder(t)[k]
               w == best[k - 1]
    <3>1. k \in 1..NumBlocks /\ b \in Block
      BY <2>2, <2>5, ScanCovers
    <3>2. best[k] = BetterCandidate(t, n, w, b)
      BY <2>2, <2>5, <1>3
    <3>3. (w = NoOff \/ Ok(w)) /\ (w = NoOff => \A j \in 1..(k - 1) : No(ScanOrder(t)[j]))
      BY <2>3, <2>5 DEF Good
    <3>4. \A j \in 1..k : j \in 1..(k - 1) \/ j = k
      BY <2>2
    <3>5. t.blk[b].valid \in Int
      BY <3>1
    <3> HIDE DEF b, w
    <3>6. b # NoOff
      BY <3>1, <1>4
    <3>7. (best[k] = w /\ (w = NoOff => No(b))) \/ (best[k] = b /\ Ok(b))
      <4>1. CASE t.blk[b].valid = 0
        <5>1. best[k] = IF IsFree(t, b) THEN w ELSE b
          BY <4>1, <3>2 DEF BetterCandidate
        <5> QED BY <5>1, <4>1, <3>1 DEF Ok, No
      <4>2. CASE t.blk[b].valid > 0
        <5>0. t.blk[b].valid # 0 /\ t.blk[b].valid >= 0
          BY <4>2, <3>5
        <5>1. best[k] = IF \/ w # NoOff /\ Live(t, w) < Live(t, b)
                           \/ Live(t, b) + n <= BlockSize THEN b ELSE w
          BY <4>2, <5>0, <3>2 DEF BetterCandidate
        <5>2. ~IsFree(t, b)
          BY <5>0 DEF IsFree, EmptyBlock
        <5> QED BY <5>0, <5>1, <5>2, <4>2, <3>1 DEF Ok, No
      <4>3. CASE ~(t.blk[b].valid = 0) /\ ~(t.blk[b].valid > 0)
        BY <4>3, <3>2 DEF BetterCandidate, No
      <4> QED BY <4>1, <4>2, <4>3
    <3>8. Good(k)
      BY <3>3, <3>4, <3>6, <3>7 DEF Good, b
    <3> QED BY <3>8, <2>2
  <2> QED BY <2>4, <2>5
<1>6. Good(NumBlocks)
  BY <1>4, <1>5
<1>7. \A b \in Block : \E j \in 1..NumBlocks : ScanOrder(t)[j] = b
  BY ScanCovers
<1> QED BY <1>1, <1>6, <1>7

\* The blocks that are free or will be.
Spare(t) == {b \in Block : IsFree(t, b) \/ t.blk[b].valid < 0}

\* ErstFindFreeSpace: the space is found in a block with room, or in a free
\* block that is not the last spare one; a block is reclaimed or the space
\* refused only when there is neither.
LEMMA SpaceIs ==
    ASSUME NEW t, t.recent \in Block, NEW n, NEW dummy \in BOOLEAN,
           \A b \in Block : t.blk[b].valid \in Int, t.out = NoOff,
           NEW space, space = FindFreeSpace(t, n, dummy)
    PROVE  \/ /\ space.how = "found"
              /\ \E b \in Block : /\ space.at = Base(b) + t.blk[b].used
                                  /\ \/ RoomIn(t, b, n)
                                     \/ /\ IsFree(t, b) /\ Cardinality(Spare(t)) > 1
                                        /\ \A c \in Block : ~RoomIn(t, c, n)
           \/ /\ space.how = "reclaim" /\ ~dummy
              /\ \A b \in Block : ~RoomIn(t, b, n)
              /\ ~(Cardinality(Spare(t)) > 1 /\ \E b \in Block : IsFree(t, b))
              /\ space.at \in Block /\ t.blk[space.at].valid >= 0 /\ ~IsFree(t, space.at)
           \/ /\ space.how = "none"
              /\ \A b \in Block : ~RoomIn(t, b, n)
              /\ ~(Cardinality(Spare(t)) > 1 /\ \E b \in Block : IsFree(t, b))
              /\ dummy \/ \A b \in Block :
                    /\ t.blk[b].valid = 0 => IsFree(t, b)
                    /\ t.blk[b].valid > 0 => ~(Live(t, b) + n <= BlockSize)
<1> DEFINE order == ScanOrder(t)
           R == {k \in 1..Len(order) : RoomIn(t, order[k], n)}
           F == {k \in 1..Len(order) : IsFree(t, order[k])}
           room  == SelectInSeq(order, LAMBDA b : RoomIn(t, b, n))
           free  == SelectInSeq(order, LAMBDA b : IsFree(t, b))
           spare == Cardinality({b \in Block : IsFree(t, b) \/ t.blk[b].valid < 0})
           waste == ReclaimCandidate(t, n)
<1>1. room = (IF R # {} THEN Min(R) ELSE 0) /\ free = (IF F # {} THEN Min(F) ELSE 0)
  BY DEF SelectInSeq
<1>2. spare = Cardinality(Spare(t))
  BY DEF Spare
<1>3. space = CASE room # 0 -> Space("found", Base(order[room]) + t.blk[order[room]].used)
                [] room = 0 /\ spare > 1 /\ free # 0 -> Space("found", Base(order[free]))
                [] room = 0 /\ ~(spare > 1 /\ free # 0)
                     /\ waste # NoOff /\ t.out = NoOff /\ ~dummy -> Space("reclaim", waste)
                [] OTHER -> Space("none", NoOff)
  BY DEF FindFreeSpace
<1>4. /\ \/ waste = NoOff
         \/ waste \in Block /\ t.blk[waste].valid >= 0 /\ ~IsFree(t, waste)
      /\ waste = NoOff => \A b \in Block :
           /\ t.blk[b].valid = 0 => IsFree(t, b)
           /\ t.blk[b].valid > 0 => ~(Live(t, b) + n <= BlockSize)
  BY CandidateIs
<1>5. /\ Len(order) = NumBlocks /\ NumBlocks \in Nat
      /\ \A k \in 1..NumBlocks : order[k] \in Block
      /\ \A b \in Block : \E k \in 1..NumBlocks : order[k] = b
  BY ScanCovers, Sizes
<1> HIDE DEF room, free, spare, waste, order
<1>6. \/ /\ room \in R /\ room # 0 /\ order[room] \in Block /\ RoomIn(t, order[room], n)
      \/ room = 0 /\ \A b \in Block : ~RoomIn(t, b, n)
  <2>1. CASE R = {}
    BY <2>1, <1>1, <1>5
  <2>2. CASE R # {}
    <3>1. R \subseteq Nat
      BY <1>5
    <3>2. room \in R
      BY <2>2, <3>1, <1>1, MinOf
    <3> QED BY <3>2, <1>5
  <2> QED BY <2>1, <2>2
<1>7. \/ /\ free \in F /\ free # 0 /\ order[free] \in Block /\ IsFree(t, order[free])
      \/ free = 0 /\ \A b \in Block : ~IsFree(t, b)
  <2>1. CASE F = {}
    BY <2>1, <1>1, <1>5
  <2>2. CASE F # {}
    <3>1. F \subseteq Nat
      BY <1>5
    <3>2. free \in F
      BY <2>2, <3>1, <1>1, MinOf
    <3> QED BY <3>2, <1>5
  <2> QED BY <2>1, <2>2
<1> HIDE DEF R, F
<1>8. CASE room # 0
  <2>1. space.how = "found" /\ space.at = Base(order[room]) + t.blk[order[room]].used
    BY <1>3, <1>8 DEF Space
  <2> QED BY <2>1, <1>6, <1>8
<1>9. CASE room = 0 /\ spare > 1 /\ free # 0
  <2>1. space.how = "found" /\ space.at = Base(order[free])
    BY <1>3, <1>9 DEF Space
  <2>2. order[free] \in Block /\ IsFree(t, order[free])
    BY <1>7, <1>9
  <2>3. t.blk[order[free]].used = 0
    BY <2>2 DEF IsFree, EmptyBlock
  <2>4. Base(order[free]) + 0 = Base(order[free])
    BY <2>2, BlockCells
  <2>5. \A c \in Block : ~RoomIn(t, c, n)
    BY <1>6, <1>9
  <2>6. Cardinality(Spare(t)) > 1
    BY <1>2, <1>9
  <2> QED BY <2>1, <2>2, <2>3, <2>4, <2>5, <2>6
<1>10. CASE room = 0 /\ ~(spare > 1 /\ free # 0)
  <2>1. /\ \A b \in Block : ~RoomIn(t, b, n)
        /\ ~(Cardinality(Spare(t)) > 1 /\ \E b \in Block : IsFree(t, b))
    BY <1>2, <1>6, <1>7, <1>10
  <2>2. CASE waste # NoOff /\ ~dummy
    <3>1. space.how = "reclaim" /\ space.at = waste
      BY <2>2, <1>3, <1>10 DEF Space
    <3> QED BY <3>1, <2>1, <2>2, <1>4
  <2>3. CASE ~(waste # NoOff /\ ~dummy)
    <3>1. space.how = "none"
      BY <2>3, <1>3, <1>10 DEF Space
    <3> QED BY <3>1, <2>1, <2>3, <1>4
  <2> QED BY <2>2, <2>3
<1> QED BY <1>8, <1>9, <1>10

(***************************************************************************)
(* Changes of the tables.                                                  *)
(***************************************************************************)

\* The types of the tables.
BlockType == [valid : Int, used : Int, wasted : Int]
TabType ==
    [list : Seq(EntryType), blk : [Block -> BlockType], inc : Off \cup {NoOff},
     out : Off \cup {NoOff}, unsynced : Int, recent : Block]

\* The fields of the tables.
LEMMA TabIs ==
    ASSUME NEW t \in TabType
    PROVE  /\ t.list \in Seq(EntryType) /\ t.blk \in [Block -> BlockType]
           /\ t.inc \in Off \cup {NoOff} /\ t.out \in Off \cup {NoOff}
           /\ t.unsynced \in Int /\ t.recent \in Block
           /\ \A b \in Block : t.blk[b].valid \in Int /\ t.blk[b].used \in Int /\ t.blk[b].wasted \in Int
BY DEF TabType, BlockType

\* Two tables that agree but for what is said.
Same(t, s) == t.list = s.list /\ t.inc = s.inc /\ t.out = s.out /\ t.recent = s.recent

\* UnsyncedSpinorChanges changes and nothing else.
LEMMA UnsyncIs ==
    ASSUME NEW t \in TabType, NEW n \in Int
    PROVE  /\ Unsync(t, n) \in TabType /\ Same(Unsync(t, n), t) /\ Unsync(t, n).blk = t.blk
           /\ Unsync(t, n).unsynced = t.unsynced + n
           /\ Unsync(t, n) = [t EXCEPT !.unsynced = t.unsynced + n]
BY DEF TabType, Unsync, Same

\* Two fields of an entry are assigned, the third keeps its value.
LEMMA BlockFields ==
    ASSUME NEW r \in BlockType, NEW v \in Int, NEW n \in Int
    PROVE  /\ [r EXCEPT !.used = n, !.valid = v] = [valid |-> v, used |-> n, wasted |-> r.wasted]
           /\ [r EXCEPT !.wasted = n, !.valid = v] = [valid |-> v, used |-> r.used, wasted |-> n]
<1>1. r = [valid |-> r.valid, used |-> r.used, wasted |-> r.wasted]
  BY DEF BlockType
<1> DEFINE y == [r EXCEPT !.used = n]
           z == [r EXCEPT !.wasted = n]
<1>2. y = [valid |-> r.valid, used |-> n, wasted |-> r.wasted]
  BY <1>1
<1>3. z = [valid |-> r.valid, used |-> r.used, wasted |-> n]
  BY <1>1
<1> HIDE DEF y, z
<1>4. [y EXCEPT !.valid = v] = [valid |-> v, used |-> n, wasted |-> r.wasted]
  BY <1>2
<1>5. [z EXCEPT !.valid = v] = [valid |-> v, used |-> r.used, wasted |-> n]
  BY <1>3
<1> QED BY <1>4, <1>5 DEF y, z

\* ErstPrepareNewRecord: the space is taken.
LEMMA PrepareIs ==
    ASSUME NEW t \in TabType, NEW b \in Block, NEW o \in CellsOf(b), NEW n \in Int,
           NEW p, p = Prepare(t, o, n)
    PROVE  /\ p \in TabType /\ Same(p, t) /\ p.unsynced = t.unsynced + 1
           /\ \A c \in Block : c # b => p.blk[c] = t.blk[c]
           /\ p.blk[b] = [valid |-> t.blk[b].valid + 1, used |-> t.blk[b].used + n,
                          wasted |-> t.blk[b].wasted]
<1>1. BlockOf(o) = b
  BY BlockCells
<1>2. /\ Unsync(t, 1) \in TabType /\ Same(Unsync(t, 1), t) /\ Unsync(t, 1).blk = t.blk
      /\ Unsync(t, 1).unsynced = t.unsynced + 1
  BY UnsyncIs
<1> DEFINE u == Unsync(t, 1)
<1> HIDE DEF u
<1>3. p = [u EXCEPT !.blk[b].used = @ + n, !.blk[b].valid = @ + 1]
  BY <1>1 DEF Prepare, u
<1>4. u \in TabType /\ Same(u, t) /\ u.blk = t.blk /\ u.unsynced = t.unsynced + 1
  BY <1>2 DEF u
<1>5. u.blk[b] \in BlockType
  BY <1>4 DEF TabType
<1> DEFINE x == [valid |-> t.blk[b].valid + 1, used |-> t.blk[b].used + n, wasted |-> t.blk[b].wasted]
<1>6. [u.blk[b] EXCEPT !.used = @ + n, !.valid = @ + 1] = x
  <2> DEFINE r == t.blk[b]
             m == r.used + n
             v == r.valid + 1
  <2>1. r \in BlockType /\ m \in Int /\ v \in Int
    BY <1>4, <1>5 DEF BlockType
  <2> HIDE DEF r, m, v
  <2>2. /\ [r EXCEPT !.used = m, !.valid = v] = [valid |-> v, used |-> m, wasted |-> r.wasted]
        /\ [r EXCEPT !.wasted = m, !.valid = v] = [valid |-> v, used |-> r.used, wasted |-> m]
    BY <2>1, BlockFields
  <2>3. [r EXCEPT !.used = @ + n, !.valid = @ + 1] = [r EXCEPT !.used = m, !.valid = v]
    BY <2>1 DEF m, v, BlockType
  <2>4. u.blk[b] = r
    BY <1>4 DEF r
  <2> QED BY <2>2, <2>3, <2>4 DEF r, m, v
<1>7. p = [u EXCEPT !.blk = [u.blk EXCEPT ![b] = x]]
  BY <1>3, <1>4, <1>5, <1>6 DEF TabType, BlockType
<1>8. x \in BlockType
  BY <1>4, <1>5 DEF BlockType
<1> HIDE DEF x
<1>9. [u.blk EXCEPT ![b] = x] \in [Block -> BlockType]
  BY <1>4, <1>8 DEF TabType
<1>10. p \in TabType /\ Same(p, u) /\ p.unsynced = u.unsynced /\ p.blk = [u.blk EXCEPT ![b] = x]
  BY <1>4, <1>7, <1>9 DEF TabType, Same
<1> QED BY <1>4, <1>10 DEF Same, TabType, x

\* ErstFreeRecord: the space is wasted, the record counted out, towards 0 from
\* either side.
LEMMA FreeRecordIs ==
    ASSUME NEW t \in TabType, NEW b \in Block, NEW e \in EntryType, e.off \in CellsOf(b),
           NEW p, p = FreeRecord(t, e)
    PROVE  /\ p \in TabType /\ Same(p, t) /\ p.unsynced = t.unsynced
           /\ \A c \in Block : c # b => p.blk[c] = t.blk[c]
           /\ p.blk[b] = [valid |-> CASE t.blk[b].valid > 0 -> t.blk[b].valid - 1
                                      [] t.blk[b].valid < 0 -> t.blk[b].valid + 1
                                      [] OTHER -> 0,
                          used |-> t.blk[b].used,
                          wasted |-> t.blk[b].wasted + e.len]
<1>1. BlockOf(e.off) = b
  BY BlockCells
<1>2. e.len \in Int
  BY Sizes DEF EntryType
<1> DEFINE v == CASE t.blk[b].valid > 0 -> t.blk[b].valid - 1
                  [] t.blk[b].valid < 0 -> t.blk[b].valid + 1
                  [] OTHER -> 0
           x == [valid |-> v, used |-> t.blk[b].used, wasted |-> t.blk[b].wasted + e.len]
<1>3. t.blk[b] \in BlockType
  BY DEF TabType
<1>4. v \in Int
  BY <1>3 DEF BlockType
<1>5. p = [t EXCEPT !.blk[b].wasted = @ + e.len,
                    !.blk[b].valid = CASE @ > 0 -> @ - 1 [] @ < 0 -> @ + 1 [] OTHER -> 0]
  BY <1>1 DEF FreeRecord
<1> DEFINE m == t.blk[b].wasted + e.len
<1>6. t.blk[b].valid \in Int /\ m \in Int
  BY <1>2, <1>3 DEF BlockType
<1>7. p = [t EXCEPT !.blk[b].wasted = m, !.blk[b].valid = v]
  BY <1>5, <1>3 DEF TabType, BlockType
<1> HIDE DEF m, v
<1>8. p = [t EXCEPT !.blk = [t.blk EXCEPT ![b] = [t.blk[b] EXCEPT !.wasted = m, !.valid = v]]]
  BY <1>3, <1>7 DEF TabType, BlockType
<1>9. [t.blk[b] EXCEPT !.wasted = m, !.valid = v] = [valid |-> v, used |-> t.blk[b].used, wasted |-> m]
  BY <1>3, <1>4, <1>6, BlockFields
<1>10. x = [valid |-> v, used |-> t.blk[b].used, wasted |-> m] /\ x \in BlockType
  BY <1>3, <1>4, <1>6 DEF m, BlockType
<1> HIDE DEF x
<1>11. p = [t EXCEPT !.blk = [t.blk EXCEPT ![b] = x]] /\ x \in BlockType
  BY <1>8, <1>9, <1>10
<1>12. [t.blk EXCEPT ![b] = x] \in [Block -> BlockType]
  BY <1>11 DEF TabType
<1>13. p \in TabType /\ Same(p, t) /\ p.unsynced = t.unsynced /\ p.blk = [t.blk EXCEPT ![b] = x]
  BY <1>11, <1>12 DEF TabType, Same
<1> QED BY <1>13 DEF TabType, x, v

\* ErstUndoAllocateRecord: the space is given back.
LEMMA UndoIs ==
    ASSUME NEW t \in TabType, NEW b \in Block, NEW o \in CellsOf(b), NEW n \in Int,
           NEW p, p = UndoAllocate(t, o, n)
    PROVE  /\ p \in TabType /\ Same(p, t) /\ p.unsynced = t.unsynced - 1
           /\ \A c \in Block : c # b => p.blk[c] = t.blk[c]
           /\ p.blk[b] = [valid |-> t.blk[b].valid - 1, used |-> t.blk[b].used - n,
                          wasted |-> t.blk[b].wasted]
<1>1. BlockOf(o) = b
  BY BlockCells
<1> DEFINE u == Unsync(t, -1)
<1>2. /\ u \in TabType /\ Same(u, t) /\ u.blk = t.blk
      /\ u.unsynced = t.unsynced + (-1)
  BY UnsyncIs
<1>3. p = [u EXCEPT !.blk[b].used = @ - n, !.blk[b].valid = @ - 1]
  BY <1>1 DEF UndoAllocate
<1> HIDE DEF u
<1>5. u.blk[b] \in BlockType
  BY <1>2 DEF TabType
<1> DEFINE x == [valid |-> t.blk[b].valid - 1, used |-> t.blk[b].used - n, wasted |-> t.blk[b].wasted]
<1>6. [u.blk[b] EXCEPT !.used = @ - n, !.valid = @ - 1] = x
  <2> DEFINE r == t.blk[b]
             m == r.used - n
             v == r.valid - 1
  <2>1. r \in BlockType /\ m \in Int /\ v \in Int
    BY <1>2, <1>5 DEF BlockType
  <2> HIDE DEF r, m, v
  <2>2. [r EXCEPT !.used = m, !.valid = v] = [valid |-> v, used |-> m, wasted |-> r.wasted]
    BY <2>1, BlockFields
  <2>3. [r EXCEPT !.used = @ - n, !.valid = @ - 1] = [r EXCEPT !.used = m, !.valid = v]
    BY <2>1 DEF m, v, BlockType
  <2>4. u.blk[b] = r
    BY <1>2 DEF r
  <2> QED BY <2>2, <2>3, <2>4 DEF r, m, v
<1>7. p = [u EXCEPT !.blk = [u.blk EXCEPT ![b] = x]]
  BY <1>3, <1>2, <1>5, <1>6 DEF TabType, BlockType
<1>8. x \in BlockType
  BY <1>2, <1>5 DEF BlockType
<1> HIDE DEF x
<1>9. [u.blk EXCEPT ![b] = x] \in [Block -> BlockType]
  BY <1>2, <1>8 DEF TabType
<1>10. p \in TabType /\ Same(p, u) /\ p.unsynced = u.unsynced /\ p.blk = [u.blk EXCEPT ![b] = x]
  BY <1>2, <1>7, <1>9 DEF TabType, Same
<1>11. p.unsynced = t.unsynced - 1
  BY <1>2, <1>10, TabIs
<1> QED BY <1>2, <1>10, <1>11 DEF Same, TabType, x

\* ErstAllocateNewRecord: the list has an entry more.
LEMMA AllocateIs ==
    ASSUME NEW t \in TabType, NEW e \in EntryType, NEW p, p = AllocateNew(t, e)
    PROVE  /\ p \in TabType /\ p.list = Append(t.list, e) /\ p.unsynced = t.unsynced + 1
           /\ p.inc = t.inc /\ p.out = t.out /\ p.recent = t.recent /\ p.blk = t.blk
<1>1. Append(t.list, e) \in Seq(EntryType)
  BY DEF TabType
<1> DEFINE a == Append(t.list, e)
<1>2. p = [t EXCEPT !.unsynced = t.unsynced + 1, !.list = a]
  BY DEF AllocateNew, Unsync, TabType
<1> HIDE DEF a
<1>3. p = [list |-> a, blk |-> t.blk, inc |-> t.inc, out |-> t.out,
           unsynced |-> t.unsynced + 1, recent |-> t.recent]
  BY <1>2 DEF TabType
<1> QED BY <1>1, <1>3 DEF TabType, a

\* ErstDeallocateRecord: the list has an entry less, and no pointer to it is
\* left.
LEMMA DeallocateIs ==
    ASSUME NEW t \in TabType, NEW k \in 1..Len(t.list), NEW p, p = DeallocateAt(t, k),
           RemoveAt(t.list, k) \in Seq(EntryType)
    PROVE  /\ p \in TabType /\ p.list = RemoveAt(t.list, k) /\ p.unsynced = t.unsynced - 1
           /\ p.recent = t.recent /\ p.blk = t.blk
           /\ p.inc = (IF t.inc = t.list[k].off THEN NoOff ELSE t.inc)
           /\ p.out = (IF t.out = t.list[k].off THEN NoOff ELSE t.out)
<1> DEFINE r == RemoveAt(t.list, k)
           o == t.list[k].off
<1>2. p = [t EXCEPT !.unsynced = t.unsynced + (-1), !.list = r,
                    !.inc = IF t.inc = o THEN NoOff ELSE t.inc,
                    !.out = IF t.out = o THEN NoOff ELSE t.out]
  BY DEF DeallocateAt, Unsync, TabType
<1>3. r \in Seq(EntryType)
  OBVIOUS
<1> DEFINE i == IF t.inc = o THEN NoOff ELSE t.inc
           u == IF t.out = o THEN NoOff ELSE t.out
           n == t.unsynced + (-1)
<1>4. i \in Off \cup {NoOff} /\ u \in Off \cup {NoOff} /\ n \in Int /\ n = t.unsynced - 1
  BY DEF TabType
<1> HIDE DEF r, i, u, n
<1>5. p = [t EXCEPT !.unsynced = n, !.list = r, !.inc = i, !.out = u]
  BY <1>2 DEF i, u, n
<1>6. p = [list |-> r, blk |-> t.blk, inc |-> i, out |-> u, unsynced |-> n, recent |-> t.recent]
  BY <1>5 DEF TabType
<1> QED BY <1>3, <1>4, <1>6 DEF TabType, r, i, u

\* A block is marked as being reclaimed: its count of records is negative.
LEMMA ReclaimingIs ==
    ASSUME NEW t \in TabType, NEW b \in Block, t.blk[b].valid >= 0, NEW p, p = Reclaiming(t, b)
    PROVE  /\ p \in TabType /\ Same(p, t) /\ p.unsynced = t.unsynced
           /\ \A c \in Block : c # b => p.blk[c] = t.blk[c]
           /\ p.blk[b] = [valid |-> -t.blk[b].valid, used |-> t.blk[b].used, wasted |-> t.blk[b].wasted]
<1> DEFINE x == [valid |-> -t.blk[b].valid, used |-> t.blk[b].used, wasted |-> t.blk[b].wasted]
<1>3. t.blk[b] \in BlockType
  BY DEF TabType
<1>5. p = [t EXCEPT !.blk[b].valid = IF @ > 0 THEN -@ ELSE @]
  BY DEF Reclaiming
<1>6. [t.blk[b] EXCEPT !.valid = IF @ > 0 THEN -@ ELSE @] = x
  BY <1>3 DEF BlockType
<1>7. p = [t EXCEPT !.blk = [t.blk EXCEPT ![b] = x]]
  BY <1>5, <1>6, <1>3 DEF TabType, BlockType
<1>8. x \in BlockType
  BY <1>3 DEF BlockType
<1> HIDE DEF x
<1>9. [t.blk EXCEPT ![b] = x] \in [Block -> BlockType]
  BY <1>8 DEF TabType
<1>10. p \in TabType /\ Same(p, t) /\ p.unsynced = t.unsynced /\ p.blk = [t.blk EXCEPT ![b] = x]
  BY <1>7, <1>9 DEF TabType, Same
<1> QED BY <1>10 DEF TabType, x

\* What ErstWriteCperStatus tracks of a status byte.
LEMMA TrackedIs ==
    ASSUME NEW t \in TabType, NEW o \in Off, NEW st, NEW p, p = Tracked(t, o, st)
    PROVE  /\ p \in TabType /\ p.list = t.list /\ p.blk = t.blk /\ p.recent = t.recent
           /\ p.unsynced = t.unsynced
           /\ st = "INCOMING" => p.inc = o /\ p.out = t.out
           /\ st = "OUTGOING" => p.inc = t.inc /\ p.out = o
           /\ st \notin {"INCOMING", "OUTGOING"} =>
                 /\ p.inc = (IF t.inc = o THEN NoOff ELSE t.inc)
                 /\ p.out = (IF t.out = o THEN NoOff ELSE t.out)
<1>1. CASE st = "INCOMING"
  <2>1. p = [t EXCEPT !.inc = o]
    BY <1>1 DEF Tracked
  <2> QED BY <1>1, <2>1 DEF TabType
<1>2. CASE st = "OUTGOING"
  <2>1. p = [t EXCEPT !.out = o]
    BY <1>2 DEF Tracked
  <2> QED BY <1>2, <2>1 DEF TabType
<1>3. CASE st \notin {"INCOMING", "OUTGOING"}
  <2>1. p = [t EXCEPT !.inc = IF t.inc = o THEN NoOff ELSE t.inc,
                      !.out = IF t.out = o THEN NoOff ELSE t.out]
    BY <1>3 DEF Tracked, TabType
  <2> QED BY <1>3, <2>1 DEF TabType
<1> QED BY <1>1, <1>2, <1>3

(***************************************************************************)
(* Flash operations.                                                       *)
(***************************************************************************)

\* The order in which status bytes can be written.
LEMMA RankIs ==
    Rank("INCOMING") = 2 /\ Rank("VALID") = 3 /\ Rank("OUTGOING") = 4 /\ Rank("DELETED") = 5
<1> DEFINE s == StatusOrder
<1>1. /\ s[1] = "FREE" /\ s[2] = "INCOMING" /\ s[3] = "VALID" /\ s[4] = "OUTGOING"
      /\ s[5] = "DELETED" /\ s[6] = "INVALID"
  BY DEF StatusOrder
<1>2. /\ "FREE" # "INCOMING" /\ "FREE" # "VALID" /\ "FREE" # "OUTGOING" /\ "FREE" # "DELETED"
      /\ "INVALID" # "INCOMING" /\ "INVALID" # "VALID" /\ "INVALID" # "OUTGOING"
      /\ "INVALID" # "DELETED"
  OBVIOUS
<1>3. /\ "INCOMING" # "VALID" /\ "INCOMING" # "OUTGOING" /\ "INCOMING" # "DELETED"
      /\ "VALID" # "OUTGOING" /\ "VALID" # "DELETED" /\ "OUTGOING" # "DELETED"
  OBVIOUS
<1>4. \A n \in 1..6 : n = 1 \/ n = 2 \/ n = 3 \/ n = 4 \/ n = 5 \/ n = 6
  OBVIOUS
<1> HIDE DEF s
<1>5. /\ \A n \in 1..6 : s[n] = "INCOMING" => n = 2
      /\ \A n \in 1..6 : s[n] = "VALID" => n = 3
      /\ \A n \in 1..6 : s[n] = "OUTGOING" => n = 4
      /\ \A n \in 1..6 : s[n] = "DELETED" => n = 5
  BY <1>1, <1>2, <1>3, <1>4
<1>6. \A st : Rank(st) = CHOOSE n \in 1..6 : s[n] = st
  BY DEF Rank, s
<1>7. Rank("INCOMING") = 2
  BY <1>1, <1>5, <1>6
<1>8. Rank("VALID") = 3
  BY <1>1, <1>5, <1>6
<1>9. Rank("OUTGOING") = 4
  BY <1>1, <1>5, <1>6
<1>10. Rank("DELETED") = 5
  BY <1>1, <1>5, <1>6
<1> QED BY <1>7, <1>8, <1>9, <1>10

\* A flash is a function of its cells.
Flashes(mem) == mem = [o \in Off |-> mem[o]]

\* A status byte is written over a header, or over erased space.
LEMMA SetStatusIs ==
    ASSUME NEW mem, Flashes(mem), NEW at \in Off, NEW st, NEW new, new = SetStatus(mem, at, st)
    PROVE  /\ Flashes(new) /\ \A p \in Off : p # at => new[p] = mem[p]
           /\ IsHeader(mem[at]) => new[at] = Header(st, IdOf(mem[at]), LenOf(mem[at]))
           /\ mem[at] = Erased => new[at] = Header(st, NoId, 0)
<1> DEFINE c == IF IsHeader(mem[at]) THEN Header(st, IdOf(mem[at]), LenOf(mem[at]))
                ELSE IF mem[at] = Erased THEN Header(st, NoId, 0) ELSE Junk
<1>1. new = [mem EXCEPT ![at] = c]
  BY DEF SetStatus
<1>2. /\ IsHeader(mem[at]) => c = Header(st, IdOf(mem[at]), LenOf(mem[at]))
      /\ mem[at] = Erased => c = Header(st, NoId, 0)
  BY HeaderFields
<1> HIDE DEF c
<1>3. new = [o \in Off |-> IF o = at THEN c ELSE mem[o]]
  BY <1>1 DEF Flashes
<1> QED BY <1>2, <1>3 DEF Flashes

\* The cells of a record: a header and its content.
LEMMA RecordCellsAre ==
    ASSUME NEW i, NEW n \in RecLen, NEW v, NEW cells, cells = RecordCells(i, n, v)
    PROVE  /\ Len(cells) = n /\ cells[1] = Header("INCOMING", i, n)
           /\ \A k \in 2..n : cells[k] = Body(v)
<1>1. n \in Nat /\ n >= 1
  BY Sizes
<1>2. cells = [k \in 1..n |-> IF k = 1 THEN Header("INCOMING", i, n) ELSE Body(v)]
  BY DEF RecordCells
<1> QED BY <1>1, <1>2

\* A record is copied into a flash.
LEMMA CopiedIs ==
    ASSUME NEW mem, NEW i, NEW n \in RecLen, NEW v, NEW at \in Off,
           NEW new, new = Copied(mem, at, RecordCells(i, n, v))
    PROVE  /\ Flashes(new) /\ new[at] = Header("INCOMING", i, n)
           /\ \A o \in Off : o < at \/ o >= at + n => new[o] = mem[o]
           /\ \A o \in Off : o > at /\ o < at + n => new[o] = Body(v)
<1> DEFINE cells == RecordCells(i, n, v)
<1>1. /\ Len(cells) = n /\ cells[1] = Header("INCOMING", i, n)
      /\ \A k \in 2..n : cells[k] = Body(v)
  BY RecordCellsAre
<1>2. new = [o \in Off |-> IF o >= at /\ o < at + Len(cells) THEN cells[o - at + 1] ELSE mem[o]]
  BY DEF Copied, Within
<1>3. n \in Nat /\ n >= 1 /\ at \in Nat /\ Off \subseteq Nat
  BY Sizes DEF Off
<1> HIDE DEF cells
<1>4. \A o \in Off : new[o] = IF o >= at /\ o < at + n THEN cells[o - at + 1] ELSE mem[o]
  BY <1>1, <1>2
<1>5. new[at] = cells[at - at + 1]
  BY <1>3, <1>4
<1>6. ASSUME NEW o \in Off, o > at, o < at + n PROVE new[o] = Body(v)
  <2>1. o - at + 1 \in 2..n
    BY <1>3, <1>6
  <2> QED BY <2>1, <1>4, <1>1, <1>3, <1>6
<1>7. \A o \in Off : o < at \/ o >= at + n => new[o] = mem[o]
  BY <1>3, <1>4
<1>8. at - at + 1 = 1
  BY <1>3
<1> QED BY <1>1, <1>2, <1>5, <1>6, <1>7, <1>8 DEF Flashes

\* A cell that is erased, or a header of which only the status byte is
\* written, takes what is programmed over it.
LEMMA ProgramIs ==
    ASSUME NEW old, NEW new
    PROVE  /\ old = Erased => Program(old, new) = new
           /\ old # Erased /\ new # Erased /\ IsHeader(old) /\ IsHeader(new) /\ IdOf(old) = NoId
                /\ IdOf(new) # NoId /\ StatusOf(old) = StatusOf(new)
                => Program(old, new) = Header(StatusOf(new), IdOf(new), LenOf(new))
<1> DEFINE st == IF Rank(StatusOf(old)) > Rank(StatusOf(new)) THEN StatusOf(old) ELSE StatusOf(new)
           hh == CASE IdOf(old) = NoId -> Header(st, IdOf(new), LenOf(new))
                   [] IdOf(new) = NoId -> Header(st, IdOf(old), LenOf(old))
                   [] IdOf(old) = IdOf(new) -> Header(st, IdOf(old), BitAnd(LenOf(old), LenOf(new)))
                   [] OTHER -> Junk
           bb == Body(old[2] \cap new[2])
           ob == old[1] = "body" /\ new[1] = "body"
<1>1. Program(old, new) = CASE old = Erased -> new
                            [] new = Erased -> old
                            [] IsHeader(old) /\ IsHeader(new) -> hh
                            [] ob -> bb
                            [] OTHER -> Junk
  BY DEF Program
<1>2. IsHeader(old) => ~ob
  BY DEF IsHeader
<1>3. IdOf(old) = NoId /\ IdOf(new) # NoId => hh = Header(st, IdOf(new), LenOf(new))
  OBVIOUS
<1>4. StatusOf(old) = StatusOf(new) => st = StatusOf(new)
  OBVIOUS
<1> HIDE DEF hh, bb, ob, st
<1>5. old = Erased => Program(old, new) = new
  <2>1. old = Erased => ~IsHeader(old) /\ ~ob
    BY HeaderFields DEF Erased, ob
  <2> QED BY <1>1, <2>1
<1>6. ASSUME old # Erased, new # Erased, IsHeader(old), IsHeader(new)
      PROVE  Program(old, new) = hh
  BY <1>1, <1>2, <1>6
<1> QED BY <1>3, <1>4, <1>5, <1>6

\* Programming a record over erased space, but for the status byte, leaves
\* what a copy of it leaves: the shadow and the flash agree.
LEMMA ProgrammedIs ==
    ASSUME NEW mem, NEW i \in Id, NEW n \in RecLen, NEW v, NEW at \in Off,
           mem[at] = Header("INCOMING", NoId, 0),
           \A o \in Off : o > at /\ o < at + n => mem[o] = Erased
    PROVE  Programmed(mem, at, RecordCells(i, n, v)) = Copied(mem, at, RecordCells(i, n, v))
<1> DEFINE cells == RecordCells(i, n, v)
<1>0. n \in RecLen
  OBVIOUS
<1>1. /\ Len(cells) = n /\ cells[1] = Header("INCOMING", i, n)
      /\ \A k \in 2..n : cells[k] = Body(v)
  BY ONLY <1>0, RecordCellsAre
<1>3. n \in Nat /\ n >= 1 /\ at \in Nat /\ Off \subseteq Nat
  BY Sizes DEF Off
<1> HIDE DEF cells
<1>4. Program(mem[at], cells[1]) = cells[1]
  <2> DEFINE old == mem[at]
             new == cells[1]
  <2>1. /\ old # Erased /\ new # Erased /\ IsHeader(old) /\ IsHeader(new) /\ IdOf(old) = NoId
        /\ StatusOf(old) = "INCOMING" /\ StatusOf(new) = "INCOMING"
        /\ IdOf(new) = i /\ LenOf(new) = n /\ new = Header("INCOMING", i, n)
    BY <1>1, HeaderFields
  <2> HIDE DEF old, new
  <2>2. Program(old, new) =
           Header(StatusOf(new), IdOf(new), LenOf(new))
    BY <2>1, ProgramIs, LayoutAssumption
  <2>3. Program(old, new) = Header("INCOMING", i, n)
    BY <2>1, <2>2
  <2> QED BY <2>1, <2>3 DEF old, new
<1>5. ASSUME NEW o \in Off, o >= at, o < at + n
      PROVE  Program(mem[o], cells[o - at + 1]) = cells[o - at + 1]
  <2>1. CASE o = at
    <3>1. o - at + 1 = 1
      BY <2>1, <1>3
    <3> QED BY <3>1, <1>4, <2>1
  <2>2. CASE o # at
    <3>1. mem[o] = Erased
      BY <2>2, <1>5, <1>3
    <3> QED BY <3>1, ProgramIs
  <2> QED BY <2>1, <2>2
<1>6. \A o \in Off : Within(o, at, cells) <=> o >= at /\ o < at + n
  BY <1>1 DEF Within
<1>7. Programmed(mem, at, cells) = [o \in Off |-> IF o >= at /\ o < at + n THEN cells[o - at + 1] ELSE mem[o]]
  BY <1>5, <1>6 DEF Programmed
<1>8. Copied(mem, at, cells) = [o \in Off |-> IF o >= at /\ o < at + n THEN cells[o - at + 1] ELSE mem[o]]
  BY <1>6 DEF Copied
<1> QED BY <1>7, <1>8 DEF cells

\* A block is erased and the others are left.
LEMMA EraseIs ==
    ASSUME NEW mem, NEW b \in Block, NEW new, new = EraseAll(mem, b)
    PROVE  /\ Flashes(new) /\ \A o \in CellsOf(b) : new[o] = Erased
           /\ \A o \in Off : o \notin CellsOf(b) => new[o] = mem[o]
<1>1. CellsOf(b) \subseteq Off /\ Base(b) \in Nat /\ BlockSize \in Nat /\ Off \subseteq Nat
  BY Sizes, BlockCells DEF Off
<1>2. new = [o \in Off |-> IF o >= Base(b) /\ o < Base(b) + BlockSize THEN Erased ELSE mem[o]]
  BY DEF EraseAll, ErasedPrefix
<1>3. \A o \in Off : o \in CellsOf(b) <=> o >= Base(b) /\ o < Base(b) + BlockSize
  BY <1>1 DEF CellsOf
<1> QED BY <1>1, <1>2, <1>3 DEF Flashes

(***************************************************************************)
(* The invariant.                                                          *)
(***************************************************************************)

\* No power loss and no flash error has happened.
Untroubled == crashes = 0 /\ faults = 0

\* The frame of a record.
PutType ==
    [f : {"put"}, who : {"write", "move"}, id : Id, len : RecLen, val : Val \cup {NoVal},
     cur : Off \cup {NoOff}, new : Off \cup {NoOff}, step : Steps]

\* A record is being written; its content is not yet; the block that is
\* reclaimed; the entry that the record gets.
Busy(s)     == s # <<>> /\ s[1].f = "put" /\ s[1].step # "space"
Begins(s)   == Busy(s) /\ s[1].step \in {"INCOMING", "data"}
Reclaims(s) == IF Len(s) >= 2 THEN {s[Len(s) - 1].b} ELSE {}
NewEntry(f) == Entry(f.id, f.len, f.new)

\* The flash, the tracked record, the blocks and the entries without a record
\* in the making: until the content of a record is written the tables are
\* ahead of the flash, and while a block is reclaimed its count is negative.
BareFlash(fl, s) == IF Busy(s) /\ s[1].step = "data" THEN [fl EXCEPT ![s[1].new] = Erased] ELSE fl
BareInc(t, s)    == IF Begins(s) THEN NoOff ELSE t.inc
BareBlock(t, s, b) ==
    LET x   == t.blk[b]
        new == Begins(s) /\ s[1].new \in CellsOf(b)
    IN [valid  |-> (IF b \in Reclaims(s) THEN -x.valid ELSE x.valid) - (IF new THEN 1 ELSE 0),
        used   |-> x.used - (IF new THEN s[1].len ELSE 0),
        wasted |-> x.wasted]
BareBlocks(t, s) == [b \in Block |-> BareBlock(t, s, b)]
BareEntries(t, s) ==
    IF Begins(s) THEN Range(t.list) \ {NewEntry(s[1])}
    ELSE IF Busy(s) THEN Range(t.list) \cup {NewEntry(s[1])} ELSE Range(t.list)

\* The tables without them are what the flash holds.
Bare(fl, t, s) == Store(BareFlash(fl, s), BareInc(t, s), t.out, BareBlocks(t, s), BareEntries(t, s))

\* A record that has its space replaces the record that its entry names, or
\* has an entry of its own.
PutOK(f, list) ==
    /\ f \in PutType
    /\ f.step # "space" =>
         /\ f.new \in Off
         /\ f.cur = NoOff =>
              /\ f.step \in {"INCOMING", "data", "VALID"}
              /\ NewEntry(f) \in Range(list)
         /\ f.cur # NoOff =>
              /\ \E k \in 1..Len(list) : list[k].off = f.cur /\ list[k].id = f.id
              /\ \A k \in 1..Len(list) : list[k].off # f.new

\* The frame of the record that the OS writes.
WriteFrame(f, list, p) ==
    /\ PutOK(f, list) /\ f.who = "write"
    /\ p \in Request /\ p.op = "write" /\ f.id = p.id /\ f.len = p.len

\* The frame of a record that is moved out of block b.
MoveFrame(f, b, list) ==
    /\ PutOK(f, list) /\ f.who = "move"
    /\ f.cur \in CellsOf(b)
    /\ \E k \in 1..Len(list) : list[k] = Entry(f.id, f.len, f.cur)
    /\ f.step # "space" => f.new \notin CellsOf(b)

\* A reclaim of a block for a write.
Behind(r, w, list, p) ==
    /\ r.b \in Block /\ r = ReclaimFrame(r.b)
    /\ WriteFrame(w, list, p) /\ w.step = "space"

\* The stacks of a running store: at most one reclaim at a time, and one
\* relocation for it.
Shape(s, list, p) ==
    \/ s = <<>>
    \/ Len(s) = 1 /\ s = <<s[1]>> /\ WriteFrame(s[1], list, p)
    \/ Len(s) = 2 /\ s = <<s[1], s[2]>> /\ Behind(s[1], s[2], list, p)
    \/ /\ Len(s) = 3 /\ s = <<s[1], s[2], s[3]>>
       /\ Behind(s[2], s[3], list, p) /\ MoveFrame(s[1], s[2].b, list)

\* What is tracked of the record being written, and how many changes are not
\* in sync.
Tracking(t, s, p) ==
    /\ t.inc = IF Busy(s) /\ s[1].step \in {"data", "OUTGOING", "VALID"} THEN s[1].new ELSE NoOff
    /\ t.out = IF Busy(s) /\ s[1].step \in {"VALID", "DELETED"} THEN s[1].cur ELSE NoOff
    /\ t.unsynced \in Nat
    /\ s # <<>> \/ p # NoReq =>
         t.unsynced = IF ~Busy(s) THEN 0 ELSE IF s[1].step = "INCOMING" THEN 2 ELSE 3

\* The cells of block b that a reclaim has to move, but for the record that is
\* moving.
Rest(list, skip, b) ==
    UNION {Extent(e) : e \in {x \in Range(list) : x.off \in CellsOf(b) /\ x.off # skip}}
Skip(s) == IF Busy(s) THEN s[1].cur ELSE NoOff

\* Block b can take all of them.
Room(t, s, b) ==
    /\ t.blk[b].valid > 0
    /\ \A c \in Reclaims(s) : t.blk[b].used + Cardinality(Rest(t.list, Skip(s), c)) <= BlockSize

\* A block is free, or there is room for what the reclaim in progress still
\* has to move.
FreeKept(t, s) ==
    \/ \E b \in Block : IsFree(t, b)
    \/ Len(s) >= 2 /\ \E b \in Block : Room(t, s, b)

\* A record whose content is not written yet lies behind the last record of a
\* block that is not being reclaimed.
BehindLast(fl, t, s) ==
    Begins(s) => \E b \in Block :
      /\ b \notin Reclaims(s)
      /\ s[1].new = Base(b) + t.blk[b].used - s[1].len
      /\ Base(b) <= s[1].new /\ t.blk[b].used <= BlockSize
      /\ t.blk[b].valid >= 1
      /\ s[1].step = "data" => fl[s[1].new] = Header("INCOMING", NoId, 0)

\* A store that handles requests.
Running(fl, t, s, p) ==
    /\ Bare(fl, t, s) /\ Distinct(t.list) /\ Shape(s, t.list, p)
    /\ Tracking(t, s, p) /\ FreeKept(t, s) /\ BehindLast(fl, t, s)

\* A store that is being initialized: the first n blocks have been scanned.
Starts(fl, t, s) ==
    LET f == s[1]
        n == IF f.phase = "scan" THEN f.b ELSE NumBlocks
    IN /\ Len(s) = 1 /\ s = <<f>> /\ f = InitFrame(f.phase, f.b, "none")
       /\ f.phase \in {"scan", "incoming", "reclaim"} /\ f.b \in Block
       /\ t.inc = NoOff /\ t.out = NoOff /\ t.unsynced \in Nat \ {0}
       /\ \A b \in Block : IF b < n THEN BlockOK(fl, b, t.blk[b])
                           ELSE t.blk[b] = EmptyBlock /\ \E u \in 0..BlockSize : Laid(fl, b, u)
       /\ \E b \in Block : IsFree(t, b) /\ Laid(fl, b, 0)
       /\ StatusesOK(fl, NoOff, NoOff)
       /\ HeldBelow(fl, n) = Range(t.list)
       /\ \A d, e \in HeldBelow(fl, NumBlocks) : d # e => d.id # e.id
       /\ Distinct(t.list)

\* The state of a store that has met no error.
StoreInv ==
    /\ pending \in Request \cup {NoReq} /\ done \in BOOLEAN
    /\ reply.status \in {"none", "ok", "notfound", "error"}
    /\ mode \in {"off", "up", "failed"} /\ tab \in TabType
    /\ flash = [o \in Off |-> flash[o]]
    /\ mode = "off" => stack = <<>> /\ tab = EmptyTables /\ pending = NoReq
    /\ mode = "off" => \A o \in Off : flash[o] = Erased
    /\ mode = "failed" => stack = <<>> /\ tab = EmptyTables /\ NumBlocks >= 256
    /\ mode = "up" =>
         /\ shadow = flash
         /\ IF Initing THEN Starts(flash, tab, stack) ELSE Running(flash, tab, stack, pending)

\* The inductive invariant, with Bounds.
SpaceInv == Untroubled => StoreInv

(***************************************************************************)
(* Stacks.                                                                 *)
(***************************************************************************)

\* Sequences of one, two and three frames.
LEMMA OneLong ==
    ASSUME NEW a
    PROVE  /\ Len(<<a>>) = 1 /\ <<a>>[1] = a /\ <<a>> # <<>> /\ Last(<<a>>) = a
           /\ Tail(<<a>>) = <<>>
<1>1. Len(<<a>>) = 1 /\ <<a>>[1] = a /\ <<a>> # <<>>
  OBVIOUS
<1> DEFINE s == <<a>>
<1>2. s \in Seq({a})
  OBVIOUS
<1>3. Tail(s) \in Seq({a}) /\ Len(Tail(s)) = 0
  <2>1. s # <<>> /\ Len(s) = 1
    OBVIOUS
  <2> HIDE DEF s
  <2> QED BY <1>2, <2>1, HeadTailProperties
<1>4. Tail(s) = <<>>
  <2> DEFINE q == Tail(s)
  <2>1. q \in Seq({a}) /\ Len(q) = 0
    BY <1>3
  <2> HIDE DEF q
  <2>2. q = <<>>
    BY <2>1, EmptySeq
  <2> QED BY <2>2 DEF q
<1>5. Last(<<a>>) = a
  BY DEF Last
<1> QED BY <1>1, <1>4, <1>5

\* ... of two,
LEMMA TwoLong ==
    ASSUME NEW a, NEW b
    PROVE  /\ Len(<<a, b>>) = 2 /\ <<a, b>>[1] = a /\ <<a, b>>[2] = b /\ <<a, b>> # <<>>
           /\ Tail(<<a, b>>) = <<b>> /\ Last(<<a, b>>) = b
<1>1. Len(<<a, b>>) = 2 /\ <<a, b>>[1] = a /\ <<a, b>>[2] = b /\ <<a, b>> # <<>>
  OBVIOUS
<1>2. Tail(<<a, b>>) = <<b>>
  OBVIOUS
<1>3. Last(<<a, b>>) = b
  BY DEF Last
<1> QED BY <1>1, <1>2, <1>3

\* ... and pushing onto them.
LEMMA PushThird ==
    ASSUME NEW a, NEW b, NEW c
    PROVE  <<a>> \o <<b, c>> = <<a, b, c>>
<1> DEFINE s == <<a>> \o <<b, c>>
           S == {a, b, c}
<1>1. s \in Seq(S) /\ Len(s) = 3 /\ s[1] = a /\ s[2] = b /\ s[3] = c
  <2>1. <<a>> \in Seq(S) /\ <<b, c>> \in Seq(S) /\ Len(<<a>>) = 1 /\ Len(<<b, c>>) = 2
        /\ <<a>>[1] = a /\ <<b, c>>[1] = b /\ <<b, c>>[2] = c
    OBVIOUS
  <2> DEFINE p == <<a>>
             q == <<b, c>>
  <2>2. p \in Seq(S) /\ q \in Seq(S) /\ Len(p) = 1 /\ Len(q) = 2 /\ p[1] = a /\ q[1] = b /\ q[2] = c
    BY <2>1
  <2> HIDE DEF p, q
  <2>3. /\ p \o q \in Seq(S) /\ Len(p \o q) = 3
        /\ (p \o q)[1] = p[1] /\ (p \o q)[2] = q[1] /\ (p \o q)[3] = q[2]
    <3> HIDE DEF S
    <3>0. Len(p \o q) = Len(p) + Len(q) /\ p \o q \in Seq(S)
      BY <2>2, ConcatProperties, Zenon
    <3>1. /\ p \o q \in Seq(S) /\ Len(p \o q) = 3
          /\ \A i \in 1..3 : (p \o q)[i] = IF i <= 1 THEN p[i] ELSE q[i - 1]
      BY <2>2, <3>0, ConcatProperties
    <3>2. /\ (p \o q)[1] = (IF 1 <= 1 THEN p[1] ELSE q[1 - 1])
          /\ (p \o q)[2] = (IF 2 <= 1 THEN p[2] ELSE q[2 - 1])
          /\ (p \o q)[3] = (IF 3 <= 1 THEN p[3] ELSE q[3 - 1])
      BY <3>1
    <3> QED BY <3>1, <3>2
  <2> QED BY <2>2, <2>3 DEF p, q
<1> DEFINE r == <<a, b, c>>
<1>2. r \in Seq(S) /\ Len(r) = 3 /\ r[1] = a /\ r[2] = b /\ r[3] = c
  OBVIOUS
<1> HIDE DEF r, s
<1>3. s = r
  BY <1>1, <1>2, SeqEqual
<1> QED BY <1>3 DEF s, r

\* Pushing a frame onto another.
LEMMA PushSecond ==
    ASSUME NEW a, NEW b
    PROVE  <<a>> \o <<b>> = <<a, b>>
<1> DEFINE s == <<a>> \o <<b>>
           S == {a, b}
<1>1. s \in Seq(S) /\ Len(s) = 2 /\ s[1] = a /\ s[2] = b
  <2>1. <<a>> \in Seq(S) /\ <<b>> \in Seq(S) /\ Len(<<a>>) = 1 /\ Len(<<b>>) = 1
        /\ <<a>>[1] = a /\ <<b>>[1] = b
    OBVIOUS
  <2> DEFINE p == <<a>>
             q == <<b>>
  <2>2. p \in Seq(S) /\ q \in Seq(S) /\ Len(p) = 1 /\ Len(q) = 1 /\ p[1] = a /\ q[1] = b
    BY <2>1
  <2> HIDE DEF p, q, S
  <2>3. /\ p \o q \in Seq(S) /\ Len(p \o q) = Len(p) + Len(q)
        /\ \A i \in 1..(Len(p) + Len(q)) : (p \o q)[i] = IF i <= Len(p) THEN p[i] ELSE q[i - Len(p)]
    BY <2>2, ConcatProperties
  <2>4. /\ (p \o q)[1] = (IF 1 <= 1 THEN p[1] ELSE q[1 - 1])
        /\ (p \o q)[2] = (IF 2 <= 1 THEN p[2] ELSE q[2 - 1])
    BY <2>2, <2>3
  <2> QED BY <2>2, <2>3, <2>4 DEF p, q
<1> DEFINE r == <<a, b>>
<1>2. r \in Seq(S) /\ Len(r) = 2 /\ r[1] = a /\ r[2] = b
  OBVIOUS
<1> HIDE DEF r, s
<1>3. s = r
  BY <1>1, <1>2, SeqEqual
<1> QED BY <1>3 DEF s, r

\* Pushing a frame onto the empty stack.
LEMMA PushFirst ==
    ASSUME NEW a
    PROVE  <<a>> \o <<>> = <<a>>
<1> DEFINE p == <<a>>
<1>1. p \in Seq({a})
  OBVIOUS
<1> HIDE DEF p
<1>2. p \o <<>> = p
  BY <1>1, ConcatEmptySeq
<1> QED BY <1>2 DEF p

\* The stacks of a running store, from the innermost frame.
PushOn(g, s)     == <<g>> \o s
Stack1(f)        == <<f>>
Stack2(b, w)     == <<ReclaimFrame(b), w>>
Stack3(f, b, w)  == <<f, ReclaimFrame(b), w>>

\* A record of the OS looks for space or is written.
LEMMA Stack1Is ==
    ASSUME NEW f, NEW s, s = Stack1(f)
    PROVE  /\ s[1] = f /\ Len(s) = 1 /\ Last(s) = f /\ s # <<>> /\ Tail(s) = <<>>
           /\ Reclaims(s) = {} /\ PushOn(f, <<>>) = s
<1>1. s[1] = f /\ Len(s) = 1 /\ Last(s) = f /\ s # <<>> /\ Tail(s) = <<>>
  BY OneLong DEF Stack1
<1>2. PushOn(f, <<>>) = s
  BY PushFirst DEF PushOn, Stack1
<1> QED BY <1>1, <1>2 DEF Reclaims

\* ... a block is reclaimed for it,
LEMMA Stack2Is ==
    ASSUME NEW b, NEW w, NEW s, s = Stack2(b, w)
    PROVE  /\ s[1] = ReclaimFrame(b) /\ Len(s) = 2 /\ Last(s) = w /\ s # <<>>
           /\ Tail(s) = Stack1(w)
           /\ Reclaims(s) = {b} /\ PushOn(ReclaimFrame(b), Stack1(w)) = s
<1> DEFINE r == ReclaimFrame(b)
<1>1. r.b = b
  BY DEF ReclaimFrame
<1>2. s = <<r, w>>
  BY DEF Stack2
<1>3. PushOn(r, Stack1(w)) = s
  BY <1>2, PushSecond DEF PushOn, Stack1
<1> HIDE DEF r
<1>4. s[1] = r /\ Len(s) = 2 /\ Last(s) = w /\ s # <<>> /\ Tail(s) = <<w>>
  BY <1>2, TwoLong
<1>5. Reclaims(s) = {b}
  BY <1>1, <1>4 DEF Reclaims
<1> QED BY <1>3, <1>4, <1>5 DEF Stack1, r

\* ... and a record moved out of this block.
LEMMA Stack3Is ==
    ASSUME NEW f, NEW b, NEW w, NEW s, s = Stack3(f, b, w)
    PROVE  /\ s[1] = f /\ Len(s) = 3 /\ Last(s) = w /\ s # <<>>
           /\ Tail(s) = Stack2(b, w)
           /\ Reclaims(s) = {b} /\ PushOn(f, Stack2(b, w)) = s
<1> DEFINE r == ReclaimFrame(b)
<1>1. r.b = b
  BY DEF ReclaimFrame
<1>2. s = <<f, r, w>>
  BY DEF Stack3
<1>3. PushOn(f, Stack2(b, w)) = s
  BY <1>2, PushThird DEF PushOn, Stack2
<1> HIDE DEF r
<1>4. s[1] = f /\ s[2] = r /\ Len(s) = 3 /\ s[3] = w /\ s # <<>>
  BY <1>2
<1>5. Tail(s) = <<r, w>> /\ Last(s) = w
  BY <1>2, <1>4 DEF Last
<1>6. Reclaims(s) = {b}
  BY <1>1, <1>4 DEF Reclaims
<1> QED BY <1>3, <1>4, <1>5, <1>6 DEF Stack2, r

\* A store that is running has one of these three stacks, or none.
LEMMA ShapeIs ==
    ASSUME NEW s, NEW list, NEW p, Shape(s, list, p), s # <<>>
    PROVE  \/ \E f \in PutType : s = Stack1(f) /\ WriteFrame(f, list, p)
           \/ \E b \in Block, w \in PutType :
                s = Stack2(b, w) /\ WriteFrame(w, list, p) /\ w.step = "space"
           \/ \E b \in Block, w \in PutType, f \in PutType :
                /\ s = Stack3(f, b, w) /\ WriteFrame(w, list, p) /\ w.step = "space"
                /\ MoveFrame(f, b, list)
<1>2. CASE Len(s) = 1 /\ s = <<s[1]>> /\ WriteFrame(s[1], list, p)
  <2>1. s[1] \in PutType
    BY <1>2 DEF WriteFrame, PutOK
  <2> QED BY <1>2, <2>1 DEF Stack1
<1>3. CASE Len(s) = 2 /\ s = <<s[1], s[2]>> /\ Behind(s[1], s[2], list, p)
  <2> DEFINE b == s[1].b
             w == s[2]
  <2>1. s[1] = ReclaimFrame(b) /\ b \in Block /\ WriteFrame(w, list, p) /\ w.step = "space" /\ w \in PutType
    BY <1>3 DEF Behind, WriteFrame, PutOK
  <2>2. s = Stack2(b, w)
    BY <2>1, <1>3 DEF Stack2
  <2> QED BY <2>1, <2>2
<1>4. CASE /\ Len(s) = 3 /\ s = <<s[1], s[2], s[3]>>
           /\ Behind(s[2], s[3], list, p) /\ MoveFrame(s[1], s[2].b, list)
  <2> DEFINE f == s[1]
             b == s[2].b
             w == s[3]
  <2>1. s[2] = ReclaimFrame(b) /\ b \in Block /\ WriteFrame(w, list, p) /\ w.step = "space" /\ w \in PutType
    BY <1>4 DEF Behind, WriteFrame, PutOK
  <2>2. s = Stack3(f, b, w)
    BY <2>1, <1>4 DEF Stack3
  <2>3. MoveFrame(f, b, list) /\ f \in PutType
    BY <1>4 DEF MoveFrame, PutOK
  <2> QED BY <2>1, <2>2, <2>3
<1> QED BY <1>2, <1>3, <1>4 DEF Shape

\* The first of them is one that a running store may have.
LEMMA ShapeOne ==
    ASSUME NEW list, NEW p, NEW f, WriteFrame(f, list, p)
    PROVE  Shape(Stack1(f), list, p)
<1> DEFINE s == Stack1(f)
<1>1. s[1] = f /\ Len(s) = 1 /\ s = <<f>>
  BY Stack1Is DEF Stack1
<1> HIDE DEF s
<1>2. Shape(s, list, p)
  BY <1>1 DEF Shape
<1> QED BY <1>2 DEF s

\* ... so is the second,
LEMMA ShapeTwo ==
    ASSUME NEW list, NEW p, NEW b \in Block, NEW w, WriteFrame(w, list, p), w.step = "space"
    PROVE  Shape(Stack2(b, w), list, p)
<1> DEFINE s == Stack2(b, w)
           r == ReclaimFrame(b)
<1>1. s = <<r, w>> /\ r.b = b /\ r = ReclaimFrame(r.b)
  BY DEF Stack2, ReclaimFrame
<1> HIDE DEF s, r
<1>2. s[1] = r /\ s[2] = w /\ Len(s) = 2
  BY <1>1
<1>3. Behind(s[1], s[2], list, p) /\ s = <<s[1], s[2]>>
  BY <1>1, <1>2 DEF Behind
<1>4. Shape(s, list, p)
  BY <1>2, <1>3 DEF Shape
<1> QED BY <1>4 DEF s

\* ... and the third.
LEMMA ShapeThree ==
    ASSUME NEW list, NEW p, NEW b \in Block, NEW w, WriteFrame(w, list, p), w.step = "space",
           NEW f, MoveFrame(f, b, list)
    PROVE  Shape(Stack3(f, b, w), list, p)
<1> DEFINE s == Stack3(f, b, w)
           r == ReclaimFrame(b)
<1>1. s = <<f, r, w>> /\ r.b = b /\ r = ReclaimFrame(r.b)
  BY DEF Stack3, ReclaimFrame
<1> HIDE DEF s, r
<1>2. s[1] = f /\ s[2] = r /\ s[3] = w /\ Len(s) = 3
  BY <1>1
<1>3. Behind(s[2], s[3], list, p) /\ s = <<s[1], s[2], s[3]>> /\ MoveFrame(s[1], s[2].b, list)
  BY <1>1, <1>2 DEF Behind
<1>4. Shape(s, list, p)
  BY <1>2, <1>3 DEF Shape
<1> QED BY <1>4 DEF s

(***************************************************************************)
(* What the invariant says of a state.                                     *)
(***************************************************************************)

\* The store depends on the entries of the blocks only.
LEMMA StoreBlocks ==
    ASSUME NEW m, NEW i, NEW o, NEW blk, NEW es, Store(m, i, o, blk, es),
           NEW blk2, \A b \in Block : blk2[b] = blk[b]
    PROVE  Store(m, i, o, blk2, es)
BY DEF Store

\* The entry of a block when its record in the making is not counted and a
\* reclaim has not turned its sign.
LEMMA BareBlockIs ==
    ASSUME NEW t \in TabType, NEW s, NEW b \in Block
    PROVE  /\ BareBlocks(t, s)[b] = BareBlock(t, s, b)
           /\ ~Begins(s) /\ b \notin Reclaims(s) => BareBlock(t, s, b) = t.blk[b]
           /\ ~Begins(s) /\ b \in Reclaims(s) =>
                BareBlock(t, s, b) = [valid |-> -t.blk[b].valid, used |-> t.blk[b].used,
                                      wasted |-> t.blk[b].wasted]
           /\ BareBlock(t, s, b).wasted = t.blk[b].wasted
<1> DEFINE x == t.blk[b]
<1>1. x \in BlockType
  BY DEF TabType
<1>2. x = [valid |-> x.valid, used |-> x.used, wasted |-> x.wasted] /\ x.valid \in Int /\ x.used \in Int
  BY <1>1 DEF BlockType
<1>3. BareBlock(t, s, b) =
        [valid  |-> (IF b \in Reclaims(s) THEN -x.valid ELSE x.valid)
                      - (IF Begins(s) /\ s[1].new \in CellsOf(b) THEN 1 ELSE 0),
         used   |-> x.used - (IF Begins(s) /\ s[1].new \in CellsOf(b) THEN s[1].len ELSE 0),
         wasted |-> x.wasted]
  BY DEF BareBlock
<1> HIDE DEF x
<1>4. x.valid - 0 = x.valid /\ x.used - 0 = x.used /\ (-x.valid) - 0 = -x.valid
  BY <1>2
<1>5. BareBlocks(t, s)[b] = BareBlock(t, s, b)
  BY DEF BareBlocks
<1>6. CASE ~Begins(s) /\ b \notin Reclaims(s)
  <2>1. BareBlock(t, s, b) = [valid |-> x.valid, used |-> x.used, wasted |-> x.wasted]
    BY <1>3, <1>4, <1>6
  <2> QED BY <2>1, <1>2, <1>3, <1>5, <1>6 DEF x
<1>7. CASE ~Begins(s) /\ b \in Reclaims(s)
  <2>1. BareBlock(t, s, b) = [valid |-> -x.valid, used |-> x.used, wasted |-> x.wasted]
    BY <1>3, <1>4, <1>7
  <2> QED BY <2>1, <1>2, <1>3, <1>5, <1>7 DEF x
<1>8. CASE Begins(s)
  BY <1>3, <1>5, <1>8 DEF x
<1> QED BY <1>6, <1>7, <1>8

\* Two stacks under which the same is left out of the blocks.
LEMMA BareBlocksSame ==
    ASSUME NEW t, NEW s, NEW s2, NEW t2, t2.blk = t.blk, Reclaims(s2) = Reclaims(s),
           Begins(s2) <=> Begins(s), Begins(s) => s2[1].new = s[1].new /\ s2[1].len = s[1].len
    PROVE  BareBlocks(t2, s2) = BareBlocks(t, s)
<1>1. ASSUME NEW b \in Block PROVE BareBlock(t2, s2, b) = BareBlock(t, s, b)
  BY DEF BareBlock
<1> QED BY <1>1 DEF BareBlocks

\* When nothing is written, nothing is left out.
LEMMA QuietIs ==
    ASSUME NEW fl, NEW t, NEW s, ~Busy(s)
    PROVE  /\ Bare(fl, t, s) <=> Store(fl, t.inc, t.out, BareBlocks(t, s), Range(t.list))
           /\ ~Begins(s) /\ Skip(s) = NoOff
BY DEF Bare, BareFlash, BareInc, BareEntries, Begins, Skip

\* Between two requests the tables are what the flash holds, and a block is
\* free.
LEMMA IdleIs ==
    ASSUME NEW fl, NEW t \in TabType, NEW p, Running(fl, t, <<>>, p)
    PROVE  /\ Store(fl, NoOff, NoOff, t.blk, Range(t.list)) /\ Distinct(t.list)
           /\ t.inc = NoOff /\ t.out = NoOff /\ t.unsynced \in Nat
           /\ p # NoReq => t.unsynced = 0
           /\ \E b \in Block : IsFree(t, b)
<1>1. ~Busy(<<>>)
  BY DEF Busy
<1>2. /\ Bare(fl, t, <<>>) /\ Distinct(t.list) /\ Tracking(t, <<>>, p) /\ FreeKept(t, <<>>)
  BY DEF Running
<1>3. t.inc = NoOff /\ t.out = NoOff /\ t.unsynced \in Nat /\ (p # NoReq => t.unsynced = 0)
  BY <1>1, <1>2 DEF Tracking
<1>4. \A b \in Block : BareBlocks(t, <<>>)[b] = t.blk[b]
  <2>1. Reclaims(<<>>) = {}
    BY DEF Reclaims
  <2> QED BY <2>1, <1>1, QuietIs, BareBlockIs
<1>5. Store(fl, NoOff, NoOff, BareBlocks(t, <<>>), Range(t.list))
  BY <1>1, <1>2, <1>3, QuietIs
<1>6. Store(fl, NoOff, NoOff, t.blk, Range(t.list))
  BY <1>4, <1>5, StoreBlocks
<1> QED BY <1>2, <1>3, <1>6 DEF FreeKept

\* ... and this is all that the invariant says of such a state.
LEMMA IdleMade ==
    ASSUME NEW fl, NEW t \in TabType, NEW p, Store(fl, NoOff, NoOff, t.blk, Range(t.list)),
           Distinct(t.list), t.inc = NoOff, t.out = NoOff, t.unsynced \in Nat,
           p # NoReq => t.unsynced = 0, \E b \in Block : IsFree(t, b)
    PROVE  Running(fl, t, <<>>, p)
<1>1. ~Busy(<<>>)
  BY DEF Busy
<1>2. \A b \in Block : t.blk[b] = BareBlocks(t, <<>>)[b]
  <2>1. Reclaims(<<>>) = {}
    BY DEF Reclaims
  <2> QED BY <2>1, <1>1, QuietIs, BareBlockIs
<1>3. Bare(fl, t, <<>>)
  <2>1. Store(fl, NoOff, NoOff, BareBlocks(t, <<>>), Range(t.list))
    BY <1>2, StoreBlocks
  <2> QED BY <2>1, <1>1, QuietIs
<1>4. Tracking(t, <<>>, p) /\ FreeKept(t, <<>>) /\ BehindLast(fl, t, <<>>) /\ Shape(<<>>, t.list, p)
  BY <1>1 DEF Tracking, FreeKept, BehindLast, Begins, Shape
<1> QED BY <1>3, <1>4 DEF Running

\* A stack without the frame of an initialization.
PutBelow(s) == s # <<>> /\ Last(s).f = "put"

\* One put frame on top of the stack for another of the same record.
LEMMA Refaced ==
    ASSUME NEW s, NEW list, NEW p, Shape(s, list, p), s # <<>>, s[1].f = "put",
           NEW g, NEW list2, PutOK(g, list2),
           g.who = s[1].who, g.id = s[1].id, g.len = s[1].len,
           s[1].who = "move" =>
             /\ g.cur = s[1].cur
             /\ \E k \in 1..Len(list2) : list2[k] = Entry(g.id, g.len, g.cur)
             /\ g.step # "space" => \A b \in Reclaims(s) : g.new \notin CellsOf(b),
           NEW s2, s2 = PushOn(g, Tail(s))
    PROVE  /\ Shape(s2, list2, p) /\ Reclaims(s2) = Reclaims(s) /\ Len(s2) = Len(s)
           /\ s2[1] = g /\ PutBelow(s2)
<1>1. ASSUME NEW f \in PutType, s = Stack1(f), WriteFrame(f, list, p)
      PROVE  /\ Shape(s2, list2, p) /\ Reclaims(s2) = Reclaims(s) /\ Len(s2) = Len(s)
             /\ s2[1] = g /\ PutBelow(s2)
  <2>1. s[1] = f /\ Reclaims(s) = {} /\ Len(s) = 1 /\ s2 = Stack1(g)
    <3>1. s = Stack1(f) /\ s2 = PushOn(g, Tail(s))
      BY <1>1
    <3>2. s[1] = f /\ Reclaims(s) = {} /\ Len(s) = 1 /\ Tail(s) = <<>>
      BY ONLY <3>1, Stack1Is
    <3>3. PushOn(g, <<>>) = Stack1(g)
      BY ONLY Stack1Is
    <3> QED BY ONLY <3>1, <3>2, <3>3
  <2>2. WriteFrame(g, list2, p) /\ g.f = "put"
    BY <1>1, <2>1 DEF WriteFrame, PutOK, PutType
  <2>3. Shape(s2, list2, p)
    BY <2>1, <2>2, ShapeOne
  <2> QED BY <2>1, <2>2, <2>3, Stack1Is DEF PutBelow
<1>2. ASSUME NEW b \in Block, NEW w \in PutType, s = Stack2(b, w) PROVE FALSE
  <2>1. s[1] = ReclaimFrame(b)
    BY <1>2, Stack2Is
  <2> QED BY <2>1 DEF ReclaimFrame
<1>3. ASSUME NEW b \in Block, NEW w \in PutType, NEW f \in PutType, s = Stack3(f, b, w),
             WriteFrame(w, list, p), w.step = "space", MoveFrame(f, b, list)
      PROVE  /\ Shape(s2, list2, p) /\ Reclaims(s2) = Reclaims(s) /\ Len(s2) = Len(s)
             /\ s2[1] = g /\ PutBelow(s2)
  <2>1. s[1] = f /\ Reclaims(s) = {b} /\ Len(s) = 3 /\ s2 = Stack3(g, b, w)
    <3>1. s[1] = f /\ Reclaims(s) = {b} /\ Len(s) = 3 /\ Tail(s) = Stack2(b, w)
      BY <1>3, Stack3Is
    <3>2. PushOn(g, Stack2(b, w)) = Stack3(g, b, w)
      BY Stack3Is
    <3> QED BY <3>1, <3>2, Zenon
  <2>2. WriteFrame(w, list2, p) /\ w.f = "put"
    BY <1>3 DEF WriteFrame, PutOK, PutType
  <2>3. MoveFrame(g, b, list2)
    BY <1>3, <2>1 DEF MoveFrame
  <2>4. Shape(s2, list2, p)
    BY <2>1, <2>2, <2>3, <1>3, ShapeThree
  <2> QED BY <2>1, <2>2, <2>4, Stack3Is DEF PutBelow
<1> QED BY <1>1, <1>2, <1>3, ShapeIs

\* Every entry of the list is a record on the flash.
LEMMA EntryHeld ==
    ASSUME NEW m, NEW i, NEW o, NEW blk, NEW es, Store(m, i, o, blk, es), NEW e \in es
    PROVE  \E b \in Block :
             /\ e \in Held(m, b) /\ e.off \in CellsOf(b) /\ e.off \in Off /\ BlockOf(e.off) = b
             /\ IsHeader(m[e.off]) /\ StatusOf(m[e.off]) # "DELETED"
             /\ e = RecordOf(m, e.off) /\ e.id = IdOf(m[e.off]) /\ e.len = LenOf(m[e.off])
             /\ e.id \in Id /\ e.len \in RecLen
             /\ blk[b].valid >= 1 /\ blk[b].valid \in Nat
<1>1. PICK b \in Block : e \in Held(m, b)
  BY AllHeld DEF Store
<1>2. /\ e.off \in CellsOf(b) /\ IsHeader(m[e.off]) /\ StatusOf(m[e.off]) # "DELETED"
      /\ e = RecordOf(m, e.off) /\ e.id = IdOf(m[e.off]) /\ e.len = LenOf(m[e.off])
  BY <1>1, HeldIs
<1>3. e.off \in Off /\ BlockOf(e.off) = b
  BY <1>2, BlockCells
<1>4. BlockOK(m, b, blk[b])
  BY DEF Store
<1>5. blk[b].valid \in Nat /\ blk[b].valid = Cardinality(Held(m, b)) /\ Laid(m, b, blk[b].used)
  BY <1>4 DEF BlockOK
<1>6. IsFiniteSet(Held(m, b))
  BY HeldFinite
<1>7. blk[b].valid # 0
  BY <1>1, <1>5, <1>6, FS_EmptySet
<1>8. e.id \in Id /\ e.len \in RecLen
  BY <1>2, <1>5, LaidRecord
<1> QED BY <1>1, <1>2, <1>3, <1>5, <1>7, <1>8

\* The cells that a reclaim still has to move: finitely many, of that block
\* only, and fewer by its length without the record that is moving.
LEMMA RestIs ==
    ASSUME NEW m, NEW i, NEW o, NEW blk, NEW list, Store(m, i, o, blk, Range(list)), NEW b \in Block,
           NEW skip
    PROVE  /\ Rest(list, skip, b) \subseteq Rest(list, NoOff, b)
           /\ Rest(list, NoOff, b) \subseteq CellsOf(b)
           /\ IsFiniteSet(Rest(list, skip, b)) /\ IsFiniteSet(Rest(list, NoOff, b))
           /\ Cardinality(Rest(list, NoOff, b)) \in Nat /\ Cardinality(Rest(list, skip, b)) \in Nat
           /\ Cardinality(Rest(list, NoOff, b)) <= BlockSize
           /\ Cardinality(Rest(list, skip, b)) <= Cardinality(Rest(list, NoOff, b))
           /\ \A e \in Range(list) : e.off \in CellsOf(b) /\ e.off = skip =>
                Cardinality(Rest(list, NoOff, b)) = Cardinality(Rest(list, skip, b)) + e.len
<1> DEFINE all  == Rest(list, NoOff, b)
           some == Rest(list, skip, b)
<1>1. CellsOf(b) \subseteq Off /\ NoOff \notin Off
  BY BlockCells, LayoutAssumption
<1>2. \A x : x \in all <=> \E e \in Range(list) : e.off \in CellsOf(b) /\ x \in Extent(e)
  BY <1>1 DEF Rest
<1>3. \A x : x \in some <=> \E e \in Range(list) : e.off \in CellsOf(b) /\ e.off # skip /\ x \in Extent(e)
  BY DEF Rest
<1> HIDE DEF all, some
<1>4. some \subseteq all
  BY <1>2, <1>3
<1>5. Laid(m, b, blk[b].used)
  BY DEF Store, BlockOK
<1>6. ASSUME NEW e \in Range(list), e.off \in CellsOf(b)
      PROVE  /\ IsHeader(m[e.off]) /\ e = RecordOf(m, e.off) /\ e.len = LenOf(m[e.off])
             /\ e.off \in Nat /\ e.len \in Nat /\ Extent(e) \subseteq CellsOf(b)
             /\ \A p \in CellsOf(b) : IsHeader(m[p]) /\ p > e.off => p >= e.off + e.len
  <2>1. /\ IsHeader(m[e.off]) /\ e = RecordOf(m, e.off) /\ e.len = LenOf(m[e.off])
    BY EntryHeld
  <2> QED BY <1>5, <1>6, <2>1, LaidRecord DEF Extent
<1>7. all \subseteq CellsOf(b)
  BY <1>2, <1>6
<1>8. IsFiniteSet(CellsOf(b)) /\ Cardinality(CellsOf(b)) = BlockSize /\ BlockSize \in Nat
  BY HeldFinite, Sizes
<1>9. /\ IsFiniteSet(all) /\ Cardinality(all) \in Nat /\ Cardinality(all) <= BlockSize
  BY <1>7, <1>8, FS_Subset, FS_CardinalityType
<1>10. IsFiniteSet(some) /\ Cardinality(some) \in Nat /\ Cardinality(some) <= Cardinality(all)
  BY <1>4, <1>9, FS_Subset, FS_CardinalityType
<1>11. ASSUME NEW e \in Range(list), e.off \in CellsOf(b), e.off = skip
       PROVE  Cardinality(all) = Cardinality(some) + e.len
  <2> DEFINE ext == Extent(e)
  <2>1. /\ e = RecordOf(m, e.off) /\ e.off \in Nat /\ e.len \in Nat /\ ext \subseteq CellsOf(b)
        /\ IsHeader(m[e.off])
        /\ \A p \in CellsOf(b) : IsHeader(m[p]) /\ p > e.off => p >= e.off + e.len
    BY <1>6, <1>11
  <2>2. ext = e.off..(e.off + e.len - 1)
    BY DEF Extent
  <2>3. IsFiniteSet(ext) /\ Cardinality(ext) = e.len
    <3>1. e.off \in Int /\ e.off + e.len - 1 \in Int
      BY <2>1
    <3>2. IsFiniteSet(ext) /\ Cardinality(ext) = IF e.off > e.off + e.len - 1 THEN 0 ELSE (e.off + e.len - 1) - e.off + 1
      BY <3>1, <2>2, FS_Interval
    <3> QED BY <3>2, <2>1
  <2> HIDE DEF ext
  <2>4. all = some \cup ext
    <3>1. \A x : x \in all <=> x \in some \/ x \in ext
      <4>1. ASSUME NEW x \in all PROVE x \in some \/ x \in ext
        <5>1. PICK d \in Range(list) : d.off \in CellsOf(b) /\ x \in Extent(d)
          BY <4>1, <1>2
        <5>2. CASE d.off = skip
          <6>1. d = e
            BY <5>1, <5>2, <1>6, <1>11, <2>1
          <6> QED BY <6>1, <5>1 DEF ext
        <5>3. CASE d.off # skip
          BY <5>1, <5>3, <1>3
        <5> QED BY <5>2, <5>3
      <4>2. \A x \in ext : x \in all
        BY <1>2, <1>11 DEF ext
      <4> QED BY <4>1, <4>2, <1>4
    <3> QED BY <3>1
  <2>5. some \cap ext = {}
    <3>1. ASSUME NEW x \in some, x \in ext PROVE FALSE
      <4>1. PICK d \in Range(list) : d.off \in CellsOf(b) /\ d.off # skip /\ x \in Extent(d)
        BY <3>1, <1>3
      <4>2. /\ IsHeader(m[d.off]) /\ d.off \in Nat /\ d.len \in Nat
            /\ \A p \in CellsOf(b) : IsHeader(m[p]) /\ p > d.off => p >= d.off + d.len
        BY <4>1, <1>6
      <4>3. x \in d.off..(d.off + d.len - 1)
        BY <4>1 DEF Extent
      <4>4. x \in e.off..(e.off + e.len - 1)
        BY <3>1, <2>2
      <4>5. d.off > e.off => d.off >= e.off + e.len
        BY <2>1, <4>1, <4>2
      <4>6. e.off > d.off => e.off >= d.off + d.len
        BY <2>1, <4>2, <1>11
      <4>7. d.off # e.off
        BY <4>1, <1>11
      <4> QED BY <4>2, <4>3, <4>4, <4>5, <4>6, <4>7, <2>1
    <3> QED BY <3>1
  <2>6. Cardinality(all) = Cardinality(some) + Cardinality(ext) - Cardinality(some \cap ext)
    BY <2>3, <2>4, <1>10, FS_Union
  <2>7. Cardinality(some \cap ext) = 0
    <3>1. some \cap ext = {} /\ IsFiniteSet({}) /\ Cardinality({}) = 0
      BY <2>5, FS_EmptySet
    <3> QED BY <3>1
  <2> DEFINE ca == Cardinality(all)
             cs == Cardinality(some)
             ce == Cardinality(ext)
             ci == Cardinality(some \cap ext)
  <2>8. ca = cs + ce - ci /\ ce = e.len /\ ci = 0 /\ cs \in Nat /\ e.len \in Nat
    BY <2>3, <2>6, <2>7, <2>1, <1>10
  <2> HIDE DEF ca, cs, ce, ci
  <2>9. ca = cs + e.len
    BY <2>8
  <2> QED BY <2>9 DEF ca, cs
<1> QED BY <1>4, <1>7, <1>9, <1>10, <1>11 DEF all, some

\* The frame of a record is that of a write with nothing below it, or that of
\* a relocation below which are the reclaim and the write that needs it.
LEMMA TopIs ==
    ASSUME NEW s, NEW list, NEW p, Shape(s, list, p), s # <<>>, s[1].f = "put"
    PROVE  /\ PutOK(s[1], list) /\ s[1] \in PutType
           /\ \/ /\ s[1].who = "write" /\ WriteFrame(s[1], list, p) /\ s = Stack1(s[1])
                 /\ Reclaims(s) = {} /\ Len(s) = 1 /\ Tail(s) = <<>>
              \/ \E b \in Block, w \in PutType :
                    /\ s[1].who = "move" /\ MoveFrame(s[1], b, list) /\ s = Stack3(s[1], b, w)
                    /\ WriteFrame(w, list, p) /\ w.step = "space"
                    /\ Reclaims(s) = {b} /\ Len(s) = 3 /\ Tail(s) = Stack2(b, w)
<1>1. ASSUME NEW f \in PutType, s = Stack1(f), WriteFrame(f, list, p)
      PROVE  /\ PutOK(s[1], list) /\ s[1].who = "write" /\ WriteFrame(s[1], list, p) /\ s = Stack1(s[1])
             /\ Reclaims(s) = {} /\ Len(s) = 1 /\ Tail(s) = <<>>
  <2>1. s[1] = f /\ Reclaims(s) = {} /\ Len(s) = 1 /\ Tail(s) = <<>>
    BY <1>1, Stack1Is
  <2> QED BY <2>1, <1>1 DEF WriteFrame
<1>2. ASSUME NEW b \in Block, NEW w \in PutType, s = Stack2(b, w) PROVE FALSE
  <2>1. s[1] = ReclaimFrame(b)
    BY <1>2, Stack2Is
  <2> QED BY <2>1 DEF ReclaimFrame
<1>3. ASSUME NEW b \in Block, NEW w \in PutType, NEW f \in PutType, s = Stack3(f, b, w),
             WriteFrame(w, list, p), w.step = "space", MoveFrame(f, b, list)
      PROVE  /\ PutOK(s[1], list) /\ s[1].who = "move" /\ MoveFrame(s[1], b, list) /\ s = Stack3(s[1], b, w)
             /\ Reclaims(s) = {b} /\ Len(s) = 3 /\ Tail(s) = Stack2(b, w)
  <2>1. s[1] = f /\ Reclaims(s) = {b} /\ Len(s) = 3 /\ Tail(s) = Stack2(b, w)
    BY <1>3, Stack3Is
  <2> QED BY <2>1, <1>3 DEF MoveFrame
<1>4. \A g : PutOK(g, list) => g \in PutType
  BY DEF PutOK
<1> QED BY <1>1, <1>2, <1>3, <1>4, ShapeIs

\* The frame at another step.
Faced(f, st) == [f EXCEPT !.step = st]

\* The frame of a record at another step.
LEMMA FaceIs ==
    ASSUME NEW f \in PutType, NEW st \in Steps, NEW g, g = Faced(f, st)
    PROVE  /\ g \in PutType /\ g.f = "put" /\ g.who = f.who /\ g.id = f.id /\ g.len = f.len /\ g.val = f.val
           /\ g.cur = f.cur /\ g.new = f.new /\ g.step = st /\ NewEntry(g) = NewEntry(f)
<1>1. /\ g.f = "put" /\ g.who = f.who /\ g.id = f.id /\ g.len = f.len /\ g.val = f.val
      /\ g.cur = f.cur /\ g.new = f.new /\ g.step = st /\ g \in PutType
  BY DEF PutType, Faced
<1> QED BY <1>1 DEF NewEntry

\* The steps of ErstWriteRecord.
LEMMA StepsAre ==
    /\ "data" \in Steps /\ "OUTGOING" \in Steps /\ "VALID" \in Steps /\ "DELETED" \in Steps
    /\ "INCOMING" \in Steps /\ "space" \in Steps
    /\ \A st \in Steps : \/ st = "space" \/ st = "INCOMING" \/ st = "data" \/ st = "OUTGOING"
                         \/ st = "VALID" \/ st = "DELETED"
  BY DEF Steps

\* The record that is being written.
PutIs(f, list) ==
    /\ f \in PutType /\ PutOK(f, list) /\ f.step # "space" /\ f.f = "put"
    /\ f.new \in Off /\ f.cur \in Off \cup {NoOff} /\ f.id \in Id /\ f.len \in RecLen
    /\ NewEntry(f) \in EntryType /\ NewEntry(f).off = f.new /\ NewEntry(f).id = f.id
    /\ NewEntry(f).len = f.len
    /\ f.who \in {"write", "move"}
    /\ f.cur = NoOff => f.step \in {"INCOMING", "data", "VALID"} /\ NewEntry(f) \in Range(list)
    /\ f.cur # NoOff =>
         /\ \E k \in 1..Len(list) : list[k].off = f.cur /\ list[k].id = f.id
         /\ \A k \in 1..Len(list) : list[k].off # f.new

\* What is known of the record that is being written.
LEMMA BusyIs ==
    ASSUME NEW fl, NEW t \in TabType, NEW s, NEW p, Running(fl, t, s, p), Busy(s)
    PROVE  PutIs(s[1], t.list) /\ Distinct(t.list) /\ Shape(s, t.list, p) /\ s # <<>>
<1> DEFINE f == s[1]
<1>1. s # <<>> /\ f.f = "put" /\ f.step # "space"
  BY DEF Busy
<1>2. Shape(s, t.list, p) /\ Distinct(t.list) /\ Tracking(t, s, p)
  BY DEF Running
<1>3. PutOK(f, t.list) /\ f \in PutType
  BY <1>1, <1>2, TopIs
<1>4. f.id \in Id /\ f.len \in RecLen /\ f.who \in {"write", "move"} /\ f.cur \in Off \cup {NoOff}
  BY <1>3 DEF PutType
<1>5. /\ f.new \in Off
      /\ f.cur = NoOff =>
           /\ f.step \in {"INCOMING", "data", "VALID"} /\ NewEntry(f) \in Range(t.list)
      /\ f.cur # NoOff =>
           /\ \E k \in 1..Len(t.list) : t.list[k].off = f.cur /\ t.list[k].id = f.id
           /\ \A k \in 1..Len(t.list) : t.list[k].off # f.new
  BY <1>1, <1>3 DEF PutOK
<1>6. NewEntry(f) \in EntryType /\ NewEntry(f).off = f.new /\ NewEntry(f).id = f.id /\ NewEntry(f).len = f.len
  BY <1>4, <1>5 DEF NewEntry, Entry, EntryType
<1> QED BY <1>1, <1>2, <1>3, <1>4, <1>5, <1>6 DEF PutIs

\* IncomingCperInfo, OutgoingCperInfo and UnsyncedSpinorChanges at each step.
LEMMA TrackIs ==
    ASSUME NEW fl, NEW t, NEW s, NEW p, Running(fl, t, s, p), Busy(s), NEW f, f = s[1]
    PROVE  /\ f.step = "INCOMING" => t.inc = NoOff /\ t.out = NoOff /\ t.unsynced = 2
           /\ f.step = "data" => t.inc = f.new /\ t.out = NoOff /\ t.unsynced = 3
           /\ f.step = "OUTGOING" => t.inc = f.new /\ t.out = NoOff /\ t.unsynced = 3
           /\ f.step = "VALID" => t.inc = f.new /\ t.out = f.cur /\ t.unsynced = 3
           /\ f.step = "DELETED" => t.inc = NoOff /\ t.out = f.cur /\ t.unsynced = 3
<1>1. s # <<>> /\ Tracking(t, s, p)
  BY DEF Busy, Running
<1>2. /\ t.inc = IF f.step \in {"data", "OUTGOING", "VALID"} THEN f.new ELSE NoOff
      /\ t.out = IF f.step \in {"VALID", "DELETED"} THEN f.cur ELSE NoOff
      /\ t.unsynced = IF f.step = "INCOMING" THEN 2 ELSE 3
  BY <1>1 DEF Tracking
<1> QED BY <1>2

\* The next step of the same record.
Follows(f, st) ==
    /\ st = "data" \/ st = "VALID" \/ st = "OUTGOING" \/ st = "DELETED"
    /\ f.cur = NoOff => st = "data" \/ st = "VALID"

\* The record on top of the stack is at this step.
AtStep(s, st) == s[1].step = st

\* The stack with the same record at another step.
Onward(t, s, p, s2) ==
    /\ Shape(s2, t.list, p) /\ Reclaims(s2) = Reclaims(s) /\ Len(s2) = Len(s)
    /\ PutBelow(s2) /\ Busy(s2)
    /\ s2[1].new = s[1].new /\ s2[1].cur = s[1].cur /\ s2[1].len = s[1].len /\ s2[1].id = s[1].id
    /\ NewEntry(s2[1]) = NewEntry(s[1]) /\ Skip(s2) = Skip(s)

\* The next step of the same record.
LEMMA StepOn ==
    ASSUME NEW t \in TabType, NEW s, NEW p, Shape(s, t.list, p), Busy(s),
           NEW st, Follows(s[1], st),
           NEW s2, s2 = PushOn(Faced(s[1], st), Tail(s))
    PROVE  Onward(t, s, p, s2) /\ AtStep(s2, st)
<1> DEFINE f == s[1]
           g == Faced(f, st)
<1>1. s # <<>> /\ f.f = "put" /\ f.step # "space"
  BY DEF Busy
<1>2. PutOK(f, t.list) /\ f \in PutType
  BY <1>1, TopIs
<1>3. st \in Steps /\ st # "space" /\ (f.cur = NoOff => st \in {"INCOMING", "data", "VALID"})
  BY StepsAre DEF Follows
<1>4. /\ g \in PutType /\ g.f = "put" /\ g.who = f.who /\ g.id = f.id /\ g.len = f.len
      /\ g.cur = f.cur /\ g.new = f.new /\ g.step = st /\ NewEntry(g) = NewEntry(f)
  <2>1. g = Faced(f, st)
    OBVIOUS
  <2> HIDE DEF g, f
  <2> QED BY <2>1, <1>2, <1>3, FaceIs
<1> HIDE DEF g
<1>5. PutOK(g, t.list)
  BY <1>1, <1>2, <1>3, <1>4 DEF PutOK
<1>6. f.who = "move" =>
        /\ \E k \in 1..Len(t.list) : t.list[k] = Entry(g.id, g.len, g.cur)
        /\ \A b \in Reclaims(s) : g.new \notin CellsOf(b)
  <2>1. ASSUME f.who = "move"
        PROVE  /\ \E k \in 1..Len(t.list) : t.list[k] = Entry(g.id, g.len, g.cur)
               /\ \A b \in Reclaims(s) : g.new \notin CellsOf(b)
    <3>1. PICK b \in Block : MoveFrame(f, b, t.list) /\ Reclaims(s) = {b}
      BY <1>1, <2>1, TopIs
    <3> QED BY <3>1, <1>1, <1>4 DEF MoveFrame
  <2> QED BY <2>1
<1>7. s2 = PushOn(g, Tail(s))
  BY DEF g
<1>8. /\ Shape(s2, t.list, p) /\ Reclaims(s2) = Reclaims(s) /\ Len(s2) = Len(s)
      /\ s2[1] = g /\ PutBelow(s2)
  BY <1>1, <1>4, <1>5, <1>6, <1>7, Refaced
<1>9. Busy(s2) /\ AtStep(s2, st)
  BY <1>3, <1>4, <1>8 DEF Busy, AtStep
<1>10. Skip(s2) = Skip(s)
  BY <1>4, <1>8, <1>9 DEF Skip
<1> QED BY <1>4, <1>8, <1>9, <1>10 DEF Onward

(***************************************************************************)
(* The write sequence (ErstWriteRecord).                                   *)
(***************************************************************************)

\* The place of a record whose content is not written yet.
Placed(fl, t, s, b) ==
    /\ b \notin Reclaims(s) /\ s[1].new \in CellsOf(b) /\ s[1].new = Base(b) + BareBlock(t, s, b).used
    /\ BareBlock(t, s, b).used \in Nat
    /\ BareBlock(t, s, b).used + s[1].len <= BlockSize
    /\ BareBlock(t, s, b).used = t.blk[b].used - s[1].len
    /\ BareBlock(t, s, b).valid = t.blk[b].valid - 1
    /\ s[1].step = "data" => fl[s[1].new] = Header("INCOMING", NoId, 0)
    /\ \A o \in CellsOf(b) : o >= s[1].new => BareFlash(fl, s)[o] = Erased
    /\ \A c \in Block : c # b => s[1].new \notin CellsOf(c)

\* A record whose content is not written lies behind the last record of a
\* block that is not being reclaimed.
LEMMA PlaceIs ==
    ASSUME NEW fl, NEW t \in TabType, NEW s, NEW p, Running(fl, t, s, p), Begins(s),
           NEW f, f = s[1]
    PROVE  \E b \in Block : Placed(fl, t, s, b)
<1>1. Busy(s)
  BY DEF Begins
<1>2. f.new \in Off /\ f.len \in RecLen
  BY <1>1, BusyIs, Zenon DEF PutIs
<1>3. f.len \in Nat /\ f.len >= 1
  BY <1>2, Sizes
<1>4. BehindLast(fl, t, s) /\ Bare(fl, t, s)
  BY DEF Running
<1>5. PICK b \in Block :
        /\ b \notin Reclaims(s) /\ f.new = Base(b) + t.blk[b].used - f.len
        /\ Base(b) <= f.new /\ t.blk[b].used <= BlockSize /\ t.blk[b].valid >= 1
        /\ f.step = "data" => fl[f.new] = Header("INCOMING", NoId, 0)
  BY <1>4 DEF BehindLast
<1>6. Base(b) \in Nat /\ t.blk[b].used \in Int /\ t.blk[b].valid \in Int /\ BlockSize \in Nat /\ f.new \in Nat
  BY <1>2, BlockCells, TabIs, Sizes DEF Off
<1>7. f.new \in CellsOf(b)
  BY <1>3, <1>5, <1>6 DEF CellsOf
<1>8. BareBlock(t, s, b).used = t.blk[b].used - f.len /\ BareBlock(t, s, b).valid = t.blk[b].valid - 1
  BY <1>5, <1>7 DEF BareBlock
<1> DEFINE u == BareBlock(t, s, b).used
<1>9. u = t.blk[b].used - f.len
  BY <1>8
<1> HIDE DEF u
<1>10. u \in Int /\ f.new = Base(b) + u /\ u >= 0 /\ u + f.len <= BlockSize
  BY <1>3, <1>5, <1>6, <1>9
<1>11. Laid(BareFlash(fl, s), b, u)
  <2>1. BlockOK(BareFlash(fl, s), b, BareBlocks(t, s)[b])
    BY <1>4 DEF Bare, Store
  <2>2. BareBlocks(t, s)[b] = BareBlock(t, s, b)
    BY DEF BareBlocks
  <2> QED BY <2>1, <2>2 DEF BlockOK, u
<1>12. \A o \in CellsOf(b) : o >= f.new => BareFlash(fl, s)[o] = Erased
  BY <1>10, <1>11 DEF Laid
<1>13. \A c \in Block : c # b => f.new \notin CellsOf(c)
  BY <1>7, BlocksApart
<1> QED BY <1>5, <1>7, <1>8, <1>9, <1>10, <1>12, <1>13 DEF u, Placed

\* What ErstWriteRecord is about to write on is erased, but for the status
\* byte of the record itself.
LEMMA PlaceFree ==
    ASSUME NEW fl, NEW t \in TabType, NEW s, NEW p, Running(fl, t, s, p), Begins(s),
           NEW f, f = s[1]
    PROVE  /\ f.step = "INCOMING" => fl[f.new] = Erased
           /\ f.step = "data" => fl[f.new] = Header("INCOMING", NoId, 0)
           /\ \A o \in Off : o > f.new /\ o < f.new + f.len => fl[o] = Erased
<1> DEFINE m == BareFlash(fl, s)
<1>1. Busy(s)
  BY DEF Begins
<1>2. f.new \in Off /\ f.len \in RecLen
  BY <1>1, BusyIs, Zenon DEF PutIs
<1>0. PICK b \in Block : Placed(fl, t, s, b)
  BY PlaceIs
<1>3.        /\ f.new \in CellsOf(b) /\ f.new = Base(b) + BareBlock(t, s, b).used
             /\ BareBlock(t, s, b).used \in Nat
             /\ BareBlock(t, s, b).used + f.len <= BlockSize
             /\ f.step = "data" => fl[f.new] = Header("INCOMING", NoId, 0)
             /\ \A o \in CellsOf(b) : o >= f.new => m[o] = Erased
  BY <1>0 DEF Placed
<1>4. \A o \in Off : o # f.new => m[o] = fl[o]
  BY DEF BareFlash
<1>5. f.step = "INCOMING" => m = fl
  BY DEF BareFlash
<1> HIDE DEF m
<1>6. f.step = "INCOMING" => fl[f.new] = Erased
  <2>1. f.new >= f.new
    BY <1>2 DEF Off
  <2> QED BY <1>3, <1>5, <2>1
<1>7. ASSUME NEW o \in Off, o > f.new, o < f.new + f.len PROVE fl[o] = Erased
  <2> DEFINE u == BareBlock(t, s, b).used
  <2>1. f.new = Base(b) + u /\ u \in Nat /\ u + f.len <= BlockSize
    BY <1>3
  <2> HIDE DEF u
  <2>2. o \in Nat /\ Base(b) \in Nat /\ f.len \in Nat /\ BlockSize \in Nat
    BY <1>2, Sizes, BlockCells DEF Off
  <2>3. o \in CellsOf(b)
    BY <2>1, <2>2, <1>7 DEF CellsOf
  <2>4. o >= f.new /\ o # f.new
    BY <2>1, <2>2, <1>7
  <2> QED BY <2>3, <2>4, <1>3, <1>4
<1> QED BY <1>3, <1>6, <1>7

\* The write sequence, first step: the status byte INCOMING. It is accepted,
\* and the store keeps the invariant.
LEMMA WriteIncoming ==
    ASSUME NEW fl, Flashes(fl), NEW t \in TabType, NEW s, NEW p, Running(fl, t, s, p), Busy(s),
           NEW f, f = s[1], f.step = "INCOMING",
           NEW fl2, fl2 = SetStatus(fl, f.new, "INCOMING"),
           NEW t2, t2 = Unsync(Tracked(t, f.new, "INCOMING"), 1),
           NEW s2, s2 = PushOn(Faced(f, "data"), Tail(s))
    PROVE  /\ Running(fl2, t2, s2, p) /\ Flashes(fl2) /\ t2 \in TabType
           /\ PutBelow(s2)
           /\ TrackingAllows(t, f.new, "INCOMING") /\ fl[f.new] = Erased
<1>1. /\ f.new \in Off /\ f.len \in RecLen /\ t.inc = NoOff /\ t.out = NoOff /\ t.unsynced = 2
      /\ Distinct(t.list) /\ Shape(s, t.list, p)
  <2>1. /\ f.new \in Off /\ f.len \in RecLen
        /\ Distinct(t.list) /\ Shape(s, t.list, p)
    BY BusyIs, Zenon DEF PutIs
  <2>2. t.inc = NoOff /\ t.out = NoOff /\ t.unsynced = 2
    BY TrackIs
  <2> QED BY <2>1, <2>2
<1>2. Begins(s)
  BY DEF Begins
<1>3. /\ Shape(s2, t.list, p) /\ Reclaims(s2) = Reclaims(s) /\ Len(s2) = Len(s)
      /\ PutBelow(s2) /\ Busy(s2)
      /\ s2[1].new = f.new /\ s2[1].len = f.len
      /\ NewEntry(s2[1]) = NewEntry(f) /\ s2[1].step = "data" /\ Skip(s2) = Skip(s)
      /\ Begins(s2)
  <2>1. Follows(s[1], "data")
    BY DEF Follows
  <2>2. Onward(t, s, p, s2) /\ AtStep(s2, "data")
    BY <1>1, <2>1, StepOn, Zenon
  <2> QED BY <2>2 DEF AtStep, Begins, Onward
<1>4. /\ t2 \in TabType /\ t2.list = t.list /\ t2.blk = t.blk /\ t2.inc = f.new /\ t2.out = NoOff
      /\ t2.unsynced = 3
  <2> DEFINE t1 == Tracked(t, f.new, "INCOMING")
  <2>1. t1 \in TabType /\ t1.list = t.list /\ t1.blk = t.blk /\ t1.unsynced = 2 /\ t1.inc = f.new
        /\ t1.out = NoOff
    BY <1>1, TrackedIs
  <2> HIDE DEF t1
  <2>2. t2 = Unsync(t1, 1)
    BY DEF t1
  <2> QED BY <2>1, <2>2, UnsyncIs DEF Same
<1>5. fl[f.new] = Erased
  BY <1>2, PlaceFree
<1>6. /\ Flashes(fl2) /\ \A o \in Off : o # f.new => fl2[o] = fl[o]
      /\ fl2[f.new] = Header("INCOMING", NoId, 0)
  BY <1>1, <1>5, SetStatusIs
<1>7. BareFlash(fl2, s2) = BareFlash(fl, s)
  <2>1. BareFlash(fl, s) = fl
    BY DEF BareFlash
  <2>2. BareFlash(fl2, s2) = [fl2 EXCEPT ![f.new] = Erased]
    BY <1>3 DEF BareFlash
  <2>3. [fl2 EXCEPT ![f.new] = Erased] = [o \in Off |-> IF o = f.new THEN Erased ELSE fl2[o]]
    BY <1>6 DEF Flashes
  <2>4. fl = [o \in Off |-> IF o = f.new THEN Erased ELSE fl2[o]]
    BY <1>5, <1>6 DEF Flashes
  <2> QED BY <2>1, <2>2, <2>3, <2>4
<1>8. BareBlocks(t2, s2) = BareBlocks(t, s)
  BY <1>2, <1>3, <1>4, BareBlocksSame
<1>9. BareInc(t2, s2) = BareInc(t, s) /\ BareEntries(t2, s2) = BareEntries(t, s)
  BY <1>2, <1>3, <1>4 DEF BareInc, BareEntries
<1>10. Bare(fl2, t2, s2)
  <2>1. Bare(fl, t, s)
    BY DEF Running
  <2> QED BY <2>1, <1>1, <1>4, <1>7, <1>8, <1>9 DEF Bare
<1>11. Tracking(t2, s2, p)
  BY <1>3, <1>4 DEF Tracking
<1>12. FreeKept(t2, s2)
  <2>1. FreeKept(t, s)
    BY DEF Running
  <2> QED BY <2>1, <1>3, <1>4 DEF FreeKept, Room, IsFree
<1>13. BehindLast(fl2, t2, s2)
  <2>1. BehindLast(fl, t, s)
    BY DEF Running
  <2> QED BY <2>1, <1>2, <1>3, <1>4, <1>6 DEF BehindLast
<1>14. Running(fl2, t2, s2, p)
  BY <1>1, <1>3, <1>4, <1>10, <1>11, <1>12, <1>13 DEF Running
<1>15. TrackingAllows(t, f.new, "INCOMING")
  BY <1>1 DEF TrackingAllows
<1> QED BY <1>3, <1>4, <1>5, <1>6, <1>14, <1>15

\* A record more in a block.
Grows(blk, blk2, b, n) ==
    /\ \A c \in Block : c # b => blk2[c] = blk[c]
    /\ blk2[b] = [valid |-> blk[b].valid + 1, used |-> blk[b].used + n, wasted |-> blk[b].wasted]

\* The cells of a record of which only the status byte is written.
Unwritten(fl, m, at, n) ==
    /\ fl[at] = Header("INCOMING", NoId, 0)
    /\ \A o \in Off : o > at /\ o < at + n => fl[o] = Erased
    /\ \A o \in Off : o # at => m[o] = fl[o]

\* The record of n cells at offset at fits block b.
Fits(blk, b, at, n) == at = Base(b) + blk[b].used /\ blk[b].used + n <= BlockSize

\* The content of a record is programmed: the store has a record more.
LEMMA AddRecord ==
    ASSUME NEW m, NEW blk, NEW es, Store(m, NoOff, NoOff, blk, es),
           NEW b \in Block, NEW i \in Id, NEW n \in RecLen, NEW v,
           NEW at \in Off, Fits(blk, b, at, n),
           NEW fl, Unwritten(fl, m, at, n),
           NEW fl2, fl2 = Programmed(fl, at, RecordCells(i, n, v)),
           NEW blk2, Grows(blk, blk2, b, n)
    PROVE  /\ Store(fl2, at, NoOff, blk2, es \cup {Entry(i, n, at)})
           /\ Flashes(fl2) /\ fl2 = Copied(fl, at, RecordCells(i, n, v))
<1>1. /\ fl[at] = Header("INCOMING", NoId, 0)
      /\ \A o \in Off : o > at /\ o < at + n => fl[o] = Erased
      /\ \A o \in Off : o # at => m[o] = fl[o]
  BY DEF Unwritten
<1>2. fl2 = Copied(fl, at, RecordCells(i, n, v))
  BY <1>1, ProgrammedIs
<1>3. Copied(m, at, RecordCells(i, n, v)) = Copied(fl, at, RecordCells(i, n, v))
  <2> DEFINE cells == RecordCells(i, n, v)
  <2>0. n \in RecLen
    OBVIOUS
  <2>1. Len(cells) = n /\ n \in Nat /\ n >= 1 /\ at \in Nat
    <3>1. Len(cells) = n
      BY ONLY <2>0, RecordCellsAre, Zenon
    <3>2. n \in Nat /\ n >= 1 /\ at \in Nat
      BY Sizes DEF Off
    <3> QED BY <3>1, <3>2
  <2> HIDE DEF cells
  <2>2. Within(at, at, cells)
    BY <2>1 DEF Within
  <2>3. \A o \in Off : ~Within(o, at, cells) => m[o] = fl[o]
    BY <2>2, <1>1
  <2>4. Copied(m, at, cells) = Copied(fl, at, cells)
    BY <2>3 DEF Copied
  <2> QED BY <2>4 DEF cells
<1>4. Store(fl2, at, NoOff, blk2, es \cup {Entry(i, n, at)})
  <2>1. fl2 = Copied(m, at, RecordCells(i, n, v))
    BY <1>2, <1>3
  <2>2. /\ \A c \in Block : c # b => blk2[c] = blk[c]
        /\ blk2[b] = [valid |-> blk[b].valid + 1, used |-> blk[b].used + n, wasted |-> blk[b].wasted]
    BY DEF Grows
  <2> QED BY <2>1, <2>2, StoreAdded, SMTT(60) DEF Fits
<1>5. Flashes(fl2)
  BY <1>2, CopiedIs
<1> QED BY <1>2, <1>4, <1>5

\* The blocks, once the content is written and counted.
LEMMA BareGrows ==
    ASSUME NEW t \in TabType, NEW s, NEW b \in Block, NEW fl, Placed(fl, t, s, b), Begins(s),
           s[1].len \in Nat,
           NEW s2, Reclaims(s2) = Reclaims(s), ~Begins(s2)
    PROVE  Grows(BareBlocks(t, s), BareBlocks(t, s2), b, s[1].len)
<1>1. /\ b \notin Reclaims(s) /\ s[1].new \in CellsOf(b)
      /\ BareBlock(t, s, b).used = t.blk[b].used - s[1].len
      /\ BareBlock(t, s, b).valid = t.blk[b].valid - 1
      /\ \A c \in Block : c # b => s[1].new \notin CellsOf(c)
  BY DEF Placed
<1>2. \A c \in Block : c # b => BareBlocks(t, s2)[c] = BareBlocks(t, s)[c]
  <2>1. ASSUME NEW c \in Block, c # b PROVE BareBlock(t, s2, c) = BareBlock(t, s, c)
    BY <2>1, <1>1 DEF BareBlock
  <2> QED BY <2>1, BareBlockIs
<1> DEFINE x == t.blk[b]
           y == BareBlock(t, s, b)
<1>3. x \in BlockType /\ x.valid \in Int /\ x.used \in Int
  BY TabIs DEF TabType
<1>4. x = [valid |-> x.valid, used |-> x.used, wasted |-> x.wasted]
  BY <1>3 DEF BlockType
<1>5. y.used = x.used - s[1].len /\ y.valid = x.valid - 1 /\ y.wasted = x.wasted
  BY <1>1, BareBlockIs
<1>6. BareBlocks(t, s2)[b] = x /\ BareBlocks(t, s)[b] = y
  BY <1>1, BareBlockIs
<1> HIDE DEF x, y
<1> DEFINE n == s[1].len
<1>7. n \in Nat /\ y.used = x.used - n
  BY <1>5
<1> HIDE DEF n
<1>8. x.valid = y.valid + 1 /\ x.used = y.used + n
  BY <1>3, <1>5, <1>7
<1>9. x = [valid |-> y.valid + 1, used |-> y.used + n, wasted |-> y.wasted]
  BY <1>4, <1>5, <1>8
<1> QED BY <1>2, <1>6, <1>9 DEF Grows, n

\* The step behind that of the content.
AfterData(s, st) == st = IF s[1].cur # NoOff THEN "OUTGOING" ELSE "VALID"

\* Second step: header and content are written; the record is the INCOMING
\* one, and the shadow is still what the flash holds.
LEMMA WriteData ==
    ASSUME NEW fl, Flashes(fl), NEW t \in TabType, NEW s, NEW p, Running(fl, t, s, p), Busy(s),
           AtStep(s, "data"),
           NEW fl2, fl2 = Programmed(fl, s[1].new, RecordCells(s[1].id, s[1].len, s[1].val)),
           NEW st, AfterData(s, st),
           NEW s2, s2 = PushOn(Faced(s[1], st), Tail(s))
    PROVE  /\ Running(fl2, t, s2, p) /\ Flashes(fl2)
           /\ PutBelow(s2)
           /\ fl2 = Copied(fl, s[1].new, RecordCells(s[1].id, s[1].len, s[1].val))
<1>1. /\ s[1].new \in Off /\ s[1].len \in RecLen /\ s[1].id \in Id /\ Distinct(t.list)
      /\ Shape(s, t.list, p) /\ NewEntry(s[1]) \in EntryType
  BY BusyIs, Zenon DEF PutIs
<1>2. t.inc = s[1].new /\ t.out = NoOff /\ t.unsynced = 3
  BY TrackIs DEF AtStep
<1>3. Begins(s)
  BY DEF Begins, AtStep
<1>4. Follows(s[1], st)
  BY DEF Follows, AfterData
<1>5. Onward(t, s, p, s2) /\ AtStep(s2, st)
  BY <1>1, <1>4, StepOn, Zenon
<1>6. /\ Shape(s2, t.list, p) /\ Reclaims(s2) = Reclaims(s) /\ Len(s2) = Len(s)
      /\ PutBelow(s2) /\ Busy(s2)
      /\ s2[1].new = s[1].new /\ s2[1].len = s[1].len /\ s2[1].cur = s[1].cur
      /\ NewEntry(s2[1]) = NewEntry(s[1]) /\ Skip(s2) = Skip(s)
  BY <1>5 DEF Onward
<1>7. ~Begins(s2)
  BY <1>5, <1>6 DEF Begins, AtStep, AfterData
<1> DEFINE m == BareFlash(fl, s)
           blk == BareBlocks(t, s)
           es  == Range(t.list) \ {NewEntry(s[1])}
<1>8. PICK b \in Block : Placed(fl, t, s, b)
  BY <1>3, PlaceIs
<1>9. s[1].len \in Nat
  BY <1>1, Sizes
<1>10. Grows(blk, BareBlocks(t, s2), b, s[1].len)
  BY <1>3, <1>6, <1>7, <1>8, <1>9, BareGrows
<1>11. Unwritten(fl, m, s[1].new, s[1].len)
  <2>1. /\ fl[s[1].new] = Header("INCOMING", NoId, 0)
        /\ \A o \in Off : o > s[1].new /\ o < s[1].new + s[1].len => fl[o] = Erased
    BY <1>3, PlaceFree DEF AtStep
  <2>2. \A o \in Off : o # s[1].new => m[o] = fl[o]
    BY DEF BareFlash
  <2> QED BY <2>1, <2>2 DEF Unwritten
<1>12. Store(m, NoOff, NoOff, blk, es)
  <2>1. Bare(fl, t, s)
    BY DEF Running
  <2>2. BareInc(t, s) = NoOff /\ BareEntries(t, s) = es
    BY <1>3 DEF BareInc, BareEntries
  <2> QED BY <2>1, <2>2, <1>2 DEF Bare, m
<1>13. Fits(blk, b, s[1].new, s[1].len)
  BY <1>8 DEF Placed, BareBlocks, Fits
<1> HIDE DEF m, blk, es
<1>14. /\ Store(fl2, s[1].new, NoOff, BareBlocks(t, s2), es \cup {Entry(s[1].id, s[1].len, s[1].new)})
       /\ Flashes(fl2) /\ fl2 = Copied(fl, s[1].new, RecordCells(s[1].id, s[1].len, s[1].val))
  <2>1. fl2 = Programmed(fl, s[1].new, RecordCells(s[1].id, s[1].len, s[1].val))
    OBVIOUS
  <2>2. s[1].new \in Off /\ s[1].len \in RecLen /\ s[1].id \in Id
    BY <1>1
  <2>3. b \in Block
    OBVIOUS
  <2> DEFINE blk2 == BareBlocks(t, s2)
             f == s[1]
  <2>4. Grows(blk, blk2, b, f.len)
    BY <1>10
  <2> HIDE DEF blk2, f
  <2> QED BY ONLY <2>1, <2>2, <2>3, <2>4, <1>11, <1>12, <1>13, AddRecord DEF f, blk2
<1>15. Bare(fl2, t, s2)
  <2>1. BareFlash(fl2, s2) = fl2 /\ BareInc(t, s2) = s[1].new
    BY <1>2, <1>7 DEF BareFlash, BareInc, Begins
  <2>2. BareEntries(t, s2) = es \cup {Entry(s[1].id, s[1].len, s[1].new)}
    <3>1. BareEntries(t, s2) = Range(t.list) \cup {NewEntry(s[1])}
      BY <1>6, <1>7 DEF BareEntries
    <3>2. NewEntry(s[1]) = Entry(s[1].id, s[1].len, s[1].new)
      BY DEF NewEntry
    <3> QED BY <3>1, <3>2 DEF es
  <2> QED BY <2>1, <2>2, <1>14, <1>2 DEF Bare
<1>16. Tracking(t, s2, p)
  BY <1>2, <1>5, <1>6 DEF Tracking, AtStep, AfterData
<1>17. FreeKept(t, s2)
  <2>1. FreeKept(t, s)
    BY DEF Running
  <2> QED BY <2>1, <1>6 DEF FreeKept, Room
<1>18. BehindLast(fl2, t, s2)
  BY <1>7 DEF BehindLast
<1> QED BY <1>1, <1>6, <1>14, <1>15, <1>16, <1>17, <1>18 DEF Running

\* Once its content is written, the record counts.
LEMMA WrittenIs ==
    ASSUME NEW fl, NEW t, NEW s, Busy(s), ~Begins(s)
    PROVE  /\ Bare(fl, t, s) <=> Store(fl, t.inc, t.out, BareBlocks(t, s),
                                       Range(t.list) \cup {NewEntry(s[1])})
           /\ BehindLast(fl, t, s)
BY DEF Bare, BareFlash, BareInc, BareEntries, Begins, BehindLast

\* The record at place k of the list is the one that is replaced.
Replacing(fl, t, s, k) ==
    /\ k \in 1..Len(t.list) /\ t.list[k].off = s[1].cur /\ t.list[k].id = s[1].id
    /\ t.list[k] \in Range(t.list) /\ t.list[k] \in EntryType
    /\ s[1].cur \in Off /\ s[1].cur # s[1].new /\ t.list[k] # NewEntry(s[1])
    /\ IsHeader(fl[s[1].cur]) /\ StatusOf(fl[s[1].cur]) # "DELETED"
    /\ t.list[k] = RecordOf(fl, s[1].cur) /\ t.list[k].len = LenOf(fl[s[1].cur])
    /\ BlockOf(s[1].cur) \in Block /\ s[1].cur \in CellsOf(BlockOf(s[1].cur))
    /\ BareBlocks(t, s)[BlockOf(s[1].cur)].valid >= 1

\* The record that is replaced is on the flash, has an entry, and is not the
\* new one.
LEMMA ReplacingIs ==
    ASSUME NEW fl, NEW t \in TabType, NEW s, NEW p, Running(fl, t, s, p), Busy(s), ~Begins(s),
           s[1].cur # NoOff
    PROVE  \E k \in 1..Len(t.list) : Replacing(fl, t, s, k)
<1>1. /\ s[1].new \in Off /\ NewEntry(s[1]) \in EntryType /\ NewEntry(s[1]).off = s[1].new
      /\ \E k \in 1..Len(t.list) : t.list[k].off = s[1].cur /\ t.list[k].id = s[1].id
      /\ \A k \in 1..Len(t.list) : t.list[k].off # s[1].new
  <2>1. \E f : f = s[1]
    OBVIOUS
  <2>2. PICK f : f = s[1]
    BY <2>1
  <2>3. /\ f.new \in Off /\ NewEntry(f) \in EntryType /\ NewEntry(f).off = f.new
    BY <2>2, BusyIs, Zenon DEF PutIs
  <2>4. /\ \E k \in 1..Len(t.list) : t.list[k].off = f.cur /\ t.list[k].id = f.id
        /\ \A k \in 1..Len(t.list) : t.list[k].off # f.new
    BY <2>2, BusyIs DEF PutIs
  <2> QED BY <2>2, <2>3, <2>4
<1>2. PICK k \in 1..Len(t.list) : t.list[k].off = s[1].cur /\ t.list[k].id = s[1].id
  BY <1>1
<1>3. Distinct(t.list)
  BY DEF Running
<1>4. t.list[k] \in EntryType /\ t.list[k] \in Range(t.list)
  BY <1>3, ListIs
<1>5. s[1].cur # s[1].new
  BY <1>1, <1>2
<1>6. t.list[k] # NewEntry(s[1])
  BY <1>1, <1>2, <1>5
<1>7. Store(fl, t.inc, t.out, BareBlocks(t, s), Range(t.list) \cup {NewEntry(s[1])})
  BY WrittenIs, Zenon DEF Running
<1> DEFINE e == t.list[k]
<1>8. e \in Range(t.list) \cup {NewEntry(s[1])} /\ e.off = s[1].cur
  BY <1>2, <1>4
<1> HIDE DEF e
<1>9. PICK b \in Block :
             /\ e.off \in CellsOf(b) /\ e.off \in Off /\ BlockOf(e.off) = b
             /\ IsHeader(fl[e.off]) /\ StatusOf(fl[e.off]) # "DELETED"
             /\ e = RecordOf(fl, e.off) /\ e.len = LenOf(fl[e.off])
             /\ BareBlocks(t, s)[b].valid >= 1
  BY ONLY <1>7, <1>8, EntryHeld
<1> QED BY <1>2, <1>4, <1>5, <1>6, <1>8, <1>9 DEF Replacing, e

\* The status bytes of a record in the order of the write sequence are
\* accepted.
LEMMA StatusAllowedIs ==
    ASSUME NEW mem, NEW at, IsHeader(mem[at]), NEW st,
           \/ StatusOf(mem[at]) = "INCOMING" /\ st = "VALID"
           \/ StatusOf(mem[at]) = "VALID" /\ st = "OUTGOING"
           \/ StatusOf(mem[at]) = "OUTGOING" /\ st = "DELETED"
           \/ StatusOf(mem[at]) = "VALID" /\ st = "DELETED"
    PROVE  StatusAccepted(mem, at, st)
BY RankIs DEF StatusAccepted

\* Two stacks under which the same room is left.
LEMMA FreeKeptSame ==
    ASSUME NEW t, NEW s, FreeKept(t, s), NEW t2, t2.blk = t.blk, t2.list = t.list,
           NEW s2, Reclaims(s2) = Reclaims(s), Len(s2) = Len(s), Skip(s2) = Skip(s)
    PROVE  FreeKept(t2, s2)
BY DEF FreeKept, Room, IsFree

\* Third step, where a record is replaced: it becomes OUTGOING.
LEMMA WriteOutgoing ==
    ASSUME NEW fl, Flashes(fl), NEW t \in TabType, NEW s, NEW p, Running(fl, t, s, p), Busy(s),
           AtStep(s, "OUTGOING"),
           NEW fl2, fl2 = SetStatus(fl, s[1].cur, "OUTGOING"),
           NEW t2, t2 = Tracked(t, s[1].cur, "OUTGOING"),
           NEW s2, s2 = PushOn(Faced(s[1], "VALID"), Tail(s))
    PROVE  /\ Running(fl2, t2, s2, p) /\ Flashes(fl2) /\ t2 \in TabType
           /\ PutBelow(s2)
           /\ TrackingAllows(t, s[1].cur, "OUTGOING") /\ StatusAccepted(fl, s[1].cur, "OUTGOING")
<1>1. /\ Distinct(t.list) /\ Shape(s, t.list, p) /\ s[1].cur # NoOff
  BY BusyIs, Zenon DEF PutIs, AtStep
<1>2. t.inc = s[1].new /\ t.out = NoOff /\ t.unsynced = 3
  BY TrackIs DEF AtStep
<1>3. ~Begins(s)
  BY DEF Begins, AtStep
<1>4. Follows(s[1], "VALID")
  BY DEF Follows
<1>5. Onward(t, s, p, s2) /\ AtStep(s2, "VALID")
  BY <1>1, <1>4, StepOn, Zenon
<1>6. /\ Shape(s2, t.list, p) /\ Reclaims(s2) = Reclaims(s) /\ Len(s2) = Len(s)
      /\ PutBelow(s2) /\ Busy(s2)
      /\ s2[1].new = s[1].new /\ s2[1].len = s[1].len /\ s2[1].cur = s[1].cur
      /\ NewEntry(s2[1]) = NewEntry(s[1]) /\ Skip(s2) = Skip(s)
  BY <1>5 DEF Onward
<1>7. ~Begins(s2)
  BY <1>5, <1>6 DEF Begins, AtStep
<1>8. PICK k \in 1..Len(t.list) : Replacing(fl, t, s, k)
  BY <1>1, <1>3, ReplacingIs
<1>9. s[1].cur \in Off /\ s[1].cur # s[1].new /\ IsHeader(fl[s[1].cur]) /\ StatusOf(fl[s[1].cur]) # "DELETED"
  BY <1>8 DEF Replacing
<1>10. Store(fl, t.inc, NoOff, BareBlocks(t, s), Range(t.list) \cup {NewEntry(s[1])})
  BY <1>2, <1>3, WrittenIs, Zenon DEF Running
<1>11. StatusOf(fl[s[1].cur]) = "VALID"
  <2>1. NoOff \notin Off
    BY LayoutAssumption
  <2> QED BY <2>1, <1>2, <1>9, <1>10 DEF Store, StatusesOK
<1>12. /\ Flashes(fl2) /\ \A o \in Off : o # s[1].cur => fl2[o] = fl[o]
       /\ fl2[s[1].cur] = Header("OUTGOING", IdOf(fl[s[1].cur]), LenOf(fl[s[1].cur]))
  BY <1>9, SetStatusIs
<1>13. Store(fl2, t.inc, s[1].cur, BareBlocks(t, s), Range(t.list) \cup {NewEntry(s[1])})
  BY <1>9, <1>10, <1>11, <1>12, StoreOutgoing, Zenon
<1>14. /\ t2 \in TabType /\ t2.list = t.list /\ t2.blk = t.blk /\ t2.inc = t.inc /\ t2.out = s[1].cur
       /\ t2.unsynced = 3
  BY <1>2, <1>9, TrackedIs
<1>15. BareBlocks(t2, s2) = BareBlocks(t, s)
  BY <1>3, <1>6, <1>7, <1>14, BareBlocksSame
<1>16. Bare(fl2, t2, s2) /\ BehindLast(fl2, t2, s2)
  BY <1>6, <1>7, <1>13, <1>14, <1>15, WrittenIs, Zenon
<1>17. Tracking(t2, s2, p)
  BY <1>2, <1>5, <1>6, <1>14 DEF Tracking, AtStep
<1>18. FreeKept(t2, s2)
  BY <1>6, <1>14, FreeKeptSame, Zenon DEF Running
<1>19. StatusAccepted(fl, s[1].cur, "OUTGOING")
  BY <1>9, <1>11, StatusAllowedIs
<1>20. TrackingAllows(t, s[1].cur, "OUTGOING")
  BY <1>2 DEF TrackingAllows
<1>21. Running(fl2, t2, s2, p)
  BY <1>1, <1>6, <1>14, <1>16, <1>17, <1>18 DEF Running
<1> QED BY <1>6, <1>12, <1>14, <1>19, <1>20, <1>21

\* The tables at the end of a write sequence.
Ended(t, o) == Unsync([Unsync(t, -2) EXCEPT !.recent = BlockOf(o)], -1)

\* The end of the write sequence: the three changes are in sync.
LEMMA EndedIs ==
    ASSUME NEW t \in TabType, NEW o \in Off, NEW t2, t2 = Ended(t, o)
    PROVE  /\ t2 \in TabType /\ t2.list = t.list /\ t2.blk = t.blk /\ t2.inc = t.inc /\ t2.out = t.out
           /\ t2.unsynced = t.unsynced - 3
<1> DEFINE u == Unsync(t, -2)
           r == [u EXCEPT !.recent = BlockOf(o)]
<1>1. BlockOf(o) \in Block
  BY CellsBlock
<1>2. u \in TabType /\ u.list = t.list /\ u.blk = t.blk /\ u.inc = t.inc /\ u.out = t.out
      /\ u.unsynced = t.unsynced + (-2)
  BY UnsyncIs DEF Same
<1> HIDE DEF u
<1>3. r \in TabType /\ r.list = u.list /\ r.blk = u.blk /\ r.inc = u.inc /\ r.out = u.out
      /\ r.unsynced = u.unsynced
  BY <1>1, <1>2 DEF TabType
<1>4. t2 = Unsync(r, -1)
  BY DEF Ended, u
<1> HIDE DEF r
<1>5. t2 \in TabType /\ t2.list = r.list /\ t2.blk = r.blk /\ t2.inc = r.inc /\ t2.out = r.out
      /\ t2.unsynced = r.unsynced + (-1)
  BY <1>3, <1>4, UnsyncIs DEF Same
<1>6. t.unsynced \in Int
  BY TabIs
<1> QED BY <1>2, <1>3, <1>5, <1>6

\* The new record becomes VALID.
Promoted(fl, fl2, t, s, t1) ==
    /\ Store(fl2, NoOff, s[1].cur, BareBlocks(t, s), Range(t.list) \cup {NewEntry(s[1])})
    /\ Flashes(fl2) /\ t1 \in TabType /\ t1.list = t.list /\ t1.blk = t.blk
    /\ t1.inc = NoOff /\ t1.out = s[1].cur /\ t1.unsynced = 3 /\ s[1].new \in Off
    /\ TrackingAllows(t, s[1].new, "VALID") /\ StatusAccepted(fl, s[1].new, "VALID")

\* The new record becomes VALID, which is accepted.
LEMMA NowValid ==
    ASSUME NEW fl, Flashes(fl), NEW t \in TabType, NEW s, NEW p, Running(fl, t, s, p), Busy(s),
           AtStep(s, "VALID"),
           NEW fl2, fl2 = SetStatus(fl, s[1].new, "VALID"),
           NEW t1, t1 = Tracked(t, s[1].new, "VALID")
    PROVE  Promoted(fl, fl2, t, s, t1)
<1>1. t.inc = s[1].new /\ t.out = s[1].cur /\ t.unsynced = 3
  BY TrackIs DEF AtStep
<1>2. ~Begins(s)
  BY DEF Begins, AtStep
<1>3. Store(fl, s[1].new, s[1].cur, BareBlocks(t, s), Range(t.list) \cup {NewEntry(s[1])})
  BY <1>1, <1>2, WrittenIs DEF Running
<1>4. s[1].new \in Off /\ NewEntry(s[1]).off = s[1].new
  BY BusyIs, Zenon DEF PutIs
<1> DEFINE e == NewEntry(s[1])
           es == Range(t.list) \cup {e}
           blk == BareBlocks(t, s)
           new == s[1].new
           cur == s[1].cur
<1>5. e \in es /\ e.off = new /\ Store(fl, new, cur, blk, es)
  BY <1>3, <1>4
<1> HIDE DEF e, es, blk, new, cur
<1>6. IsHeader(fl[e.off]) /\ StatusOf(fl[e.off]) # "DELETED" /\ e.off \in Off
  BY ONLY <1>5, EntryHeld
<1>7. IsHeader(fl[new]) /\ new \in Off
  BY <1>5, <1>6
<1>8. StatusOf(fl[new]) = "INCOMING"
  BY <1>5, <1>7 DEF Store, StatusesOK
<1>9. fl2 = SetStatus(fl, new, "VALID")
  BY DEF new
<1>10. /\ Flashes(fl2) /\ \A o \in Off : o # new => fl2[o] = fl[o]
       /\ fl2[new] = Header("VALID", IdOf(fl[new]), LenOf(fl[new]))
  BY <1>7, <1>9, SetStatusIs
<1>11. Store(fl2, NoOff, cur, blk, es)
  BY <1>5, <1>7, <1>8, <1>10, StoreValid
<1>12. t.inc = new /\ t.out = cur /\ t1 = Tracked(t, new, "VALID") /\ new # cur
  <2>1. s[1].cur # s[1].new
    <3>1. NoOff \notin Off
      BY LayoutAssumption
    <3>2. CASE s[1].cur # NoOff
      BY <1>2, <3>2, ReplacingIs, Zenon DEF Replacing
    <3> QED BY <3>1, <3>2, <1>4
  <2> QED BY <2>1, <1>1 DEF new, cur
<1>13. t1 \in TabType /\ t1.list = t.list /\ t1.blk = t.blk /\ t1.unsynced = t.unsynced
       /\ t1.inc = NoOff /\ t1.out = cur
  <2>1. /\ t1 \in TabType /\ t1.list = t.list /\ t1.blk = t.blk /\ t1.unsynced = t.unsynced
        /\ t1.inc = (IF t.inc = new THEN NoOff ELSE t.inc)
        /\ t1.out = (IF t.out = new THEN NoOff ELSE t.out)
    BY <1>7, <1>12, TrackedIs
  <2> QED BY <2>1, <1>12
<1>14. StatusAccepted(fl, new, "VALID")
  BY <1>7, <1>8, StatusAllowedIs
<1>15. TrackingAllows(t, new, "VALID")
  BY DEF TrackingAllows
<1> QED BY <1>1, <1>4, <1>10, <1>11, <1>13, <1>14, <1>15 DEF new, cur, es, e, blk, Promoted

\* Fourth step, where a record is replaced.
LEMMA WriteValid ==
    ASSUME NEW fl, Flashes(fl), NEW t \in TabType, NEW s, NEW p, Running(fl, t, s, p), Busy(s),
           AtStep(s, "VALID"), s[1].cur # NoOff,
           NEW fl2, fl2 = SetStatus(fl, s[1].new, "VALID"),
           NEW t2, t2 = Tracked(t, s[1].new, "VALID"),
           NEW s2, s2 = PushOn(Faced(s[1], "DELETED"), Tail(s))
    PROVE  Running(fl2, t2, s2, p) /\ PutBelow(s2)
<1>1. Distinct(t.list) /\ Shape(s, t.list, p)
  BY BusyIs
<1>2. /\ Store(fl2, NoOff, s[1].cur, BareBlocks(t, s), Range(t.list) \cup {NewEntry(s[1])})
      /\ t2 \in TabType /\ t2.list = t.list /\ t2.blk = t.blk
      /\ t2.inc = NoOff /\ t2.out = s[1].cur /\ t2.unsynced = 3
  BY NowValid DEF Promoted
<1>3. ~Begins(s)
  BY DEF Begins, AtStep
<1>4. Follows(s[1], "DELETED")
  BY DEF Follows
<1>5. Onward(t, s, p, s2) /\ AtStep(s2, "DELETED")
  BY <1>1, <1>4, StepOn, Zenon
<1>6. /\ Shape(s2, t.list, p) /\ Reclaims(s2) = Reclaims(s) /\ Len(s2) = Len(s)
      /\ PutBelow(s2) /\ Busy(s2)
      /\ s2[1].new = s[1].new /\ s2[1].len = s[1].len /\ s2[1].cur = s[1].cur
      /\ NewEntry(s2[1]) = NewEntry(s[1]) /\ Skip(s2) = Skip(s)
  BY <1>5 DEF Onward
<1>7. ~Begins(s2)
  BY <1>5, <1>6 DEF Begins, AtStep
<1>8. BareBlocks(t2, s2) = BareBlocks(t, s)
  BY <1>2, <1>3, <1>6, <1>7, BareBlocksSame
<1>9. Bare(fl2, t2, s2) /\ BehindLast(fl2, t2, s2)
  BY <1>2, <1>6, <1>7, <1>8, WrittenIs, Zenon
<1>10. Tracking(t2, s2, p)
  BY <1>2, <1>5, <1>6 DEF Tracking, AtStep
<1>11. FreeKept(t2, s2)
  BY <1>2, <1>6, FreeKeptSame DEF Running
<1> QED BY <1>1, <1>2, <1>6, <1>9, <1>10, <1>11 DEF Running

\* ... and where none is: the write is over.
LEMMA WriteLast ==
    ASSUME NEW fl, Flashes(fl), NEW t \in TabType, NEW s, NEW p, Running(fl, t, s, p), Busy(s),
           AtStep(s, "VALID"), s[1].cur = NoOff,
           NEW fl2, fl2 = SetStatus(fl, s[1].new, "VALID"),
           NEW t2, t2 = Ended(Tracked(t, s[1].new, "VALID"), s[1].new)
    PROVE  Running(fl2, t2, <<>>, p) /\ t2 \in TabType /\ Tail(s) = <<>>
<1>1. /\ Distinct(t.list) /\ Shape(s, t.list, p) /\ s # <<>> /\ s[1].f = "put"
      /\ NewEntry(s[1]) \in Range(t.list)
  BY BusyIs, Zenon DEF PutIs
<1> DEFINE t1 == Tracked(t, s[1].new, "VALID")
<1>0. Promoted(fl, fl2, t, s, t1)
  BY NowValid
<1>2. /\ Store(fl2, NoOff, NoOff, BareBlocks(t, s), Range(t.list) \cup {NewEntry(s[1])})
  BY <1>0 DEF Promoted
<1>3. /\ t1 \in TabType /\ t1.list = t.list /\ t1.blk = t.blk
      /\ t1.inc = NoOff /\ t1.out = NoOff /\ t1.unsynced = 3 /\ s[1].new \in Off
  BY <1>0 DEF Promoted
<1> HIDE DEF t1
<1>4. t2 = Ended(t1, s[1].new)
  BY DEF t1
<1>5. /\ t2 \in TabType /\ t2.list = t.list /\ t2.blk = t.blk /\ t2.inc = NoOff /\ t2.out = NoOff
      /\ t2.unsynced = t1.unsynced - 3
  BY <1>3, <1>4, EndedIs
<1>6. Reclaims(s) = {} /\ Len(s) = 1 /\ Tail(s) = <<>>
  <2>1. NoOff \notin Off /\ \A b \in Block : CellsOf(b) \subseteq Off
    BY LayoutAssumption, BlockCells
  <2>2. \A b \in Block : ~MoveFrame(s[1], b, t.list)
    BY <2>1 DEF MoveFrame
  <2> QED BY <1>1, <2>2, TopIs
<1>7. ~Begins(s) /\ ~Busy(<<>>) /\ Reclaims(<<>>) = {}
  BY DEF Begins, AtStep, Busy, Reclaims
<1>8. ~Begins(<<>>)
  BY <1>7 DEF Begins
<1>9. BareBlocks(t2, <<>>) = BareBlocks(t, s)
  <2> DEFINE z == <<>>
  <2>1. ~Begins(s) /\ ~Begins(z) /\ Reclaims(z) = Reclaims(s) /\ t2.blk = t.blk
    BY <1>5, <1>6, <1>7, <1>8
  <2> HIDE DEF z
  <2>2. BareBlocks(t2, z) = BareBlocks(t, s)
    BY <2>1, BareBlocksSame
  <2> QED BY <2>2 DEF z
<1>10. Range(t.list) \cup {NewEntry(s[1])} = Range(t.list)
  BY <1>1
<1>11. Bare(fl2, t2, <<>>)
  <2>1. Store(fl2, t2.inc, t2.out, BareBlocks(t2, <<>>), Range(t2.list))
    BY <1>2, <1>5, <1>9, <1>10, Zenon
  <2> QED BY <2>1, <1>7, QuietIs
<1>12. Tracking(t2, <<>>, p)
  <2>1. t2.unsynced = 0
    BY <1>3, <1>5
  <2> QED BY <2>1, <1>5, <1>7 DEF Tracking
<1>13. FreeKept(t2, <<>>)
  <2>1. FreeKept(t, s)
    BY DEF Running
  <2> QED BY <2>1, <1>5, <1>6 DEF FreeKept, IsFree
<1>14. BehindLast(fl2, t2, <<>>)
  BY <1>8 DEF BehindLast
<1>15. Shape(<<>>, t2.list, p)
  BY DEF Shape
<1> QED BY <1>1, <1>5, <1>6, <1>11, <1>12, <1>13, <1>14, <1>15 DEF Running

\* A record of a block is gone, as the tables count it.
Freed(blk, blk2, b, n) ==
    /\ \A c \in Block : c # b => blk2[c] = blk[c]
    /\ blk2[b] = [valid |-> CASE blk[b].valid > 0 -> blk[b].valid - 1
                              [] blk[b].valid < 0 -> blk[b].valid + 1
                              [] OTHER -> 0,
                  used |-> blk[b].used, wasted |-> blk[b].wasted + n]

\* The new record takes the entry of the one it replaces.
TakenOver(t, cur, e) ==
    LET u == FreeRecord(Unsync(t, 1), EntryAt(t, cur))
    IN [Unsync(u, -1) EXCEPT !.list = [@ EXCEPT ![IndexOf(u, cur)] = e]]

\* The entry of the replaced record becomes that of the new one, and its space
\* is wasted.
LEMMA ReplacedIs ==
    ASSUME NEW t \in TabType, Distinct(t.list), NEW k \in 1..Len(t.list), NEW cur, cur = t.list[k].off,
           NEW b \in Block, cur \in CellsOf(b),
           NEW e \in EntryType, e.id = t.list[k].id, \A m \in 1..Len(t.list) : t.list[m].off # e.off,
           NEW t2, t2 = TakenOver(t, cur, e)
    PROVE  /\ t2 \in TabType /\ t2.list = [t.list EXCEPT ![k] = e]
           /\ t2.inc = t.inc /\ t2.out = t.out /\ t2.unsynced = t.unsynced
           /\ Freed(t.blk, t2.blk, b, t.list[k].len)
<1> DEFINE t1 == Unsync(t, 1)
           d == t.list[k]
           u == FreeRecord(t1, d)
           v == Unsync(u, -1)
<1>1. t1 \in TabType /\ Same(t1, t) /\ t1.blk = t.blk /\ t1.unsynced = t.unsynced + 1
  BY UnsyncIs
<1>2. EntryAt(t, cur) = d
  BY IndexIs
<1>3. d \in EntryType /\ d.off \in CellsOf(b)
  BY ListIs
<1> HIDE DEF t1, d
<1>4. /\ u \in TabType /\ Same(u, t1) /\ u.unsynced = t1.unsynced
      /\ Freed(t1.blk, u.blk, b, d.len)
  BY <1>1, <1>3, FreeRecordIs DEF Freed
<1> HIDE DEF u
<1>5. u.list = t.list
  BY <1>1, <1>4 DEF Same
<1>6. IndexOf(u, cur) = k
  BY <1>5, IndexIs
<1>7. /\ v \in TabType /\ Same(v, u) /\ v.blk = u.blk /\ v.unsynced = u.unsynced + (-1)
  BY <1>4, UnsyncIs
<1>8. t2 = [v EXCEPT !.list = [@ EXCEPT ![k] = e]]
  BY <1>2, <1>6 DEF TakenOver, t1, u, v
<1> HIDE DEF v
<1>9. v.list = t.list
  BY <1>5, <1>7 DEF Same
<1>10. [t.list EXCEPT ![k] = e] \in Seq(EntryType)
  BY ReplaceList DEF Distinct
<1>11. t2 = [v EXCEPT !.list = [t.list EXCEPT ![k] = e]]
  BY <1>7, <1>8, <1>9 DEF TabType
<1>12. /\ t2 \in TabType /\ t2.list = [t.list EXCEPT ![k] = e]
       /\ t2.inc = v.inc /\ t2.out = v.out /\ t2.unsynced = v.unsynced /\ t2.blk = v.blk
  BY <1>7, <1>10, <1>11, Zenon DEF TabType
<1>13. t.unsynced \in Int
  BY TabIs
<1>14. t2.unsynced = t.unsynced
  BY <1>1, <1>4, <1>7, <1>12, <1>13
<1> QED BY <1>1, <1>4, <1>7, <1>12, <1>14 DEF Same, d

\* What was counted less is what is stored less.
Drops(blk, blk2, b, n) ==
    /\ \A c \in Block : c # b => blk2[c] = blk[c]
    /\ blk2[b] = [valid |-> blk[b].valid - 1, used |-> blk[b].used, wasted |-> blk[b].wasted + n]

\* What was counted less is what is stored less.
LEMMA BareDrops ==
    ASSUME NEW t \in TabType, NEW t2 \in TabType, NEW s, NEW s2, ~Begins(s), ~Begins(s2),
           Reclaims(s2) = Reclaims(s), NEW b \in Block, NEW n \in Nat, Freed(t.blk, t2.blk, b, n),
           BareBlocks(t, s)[b].valid >= 1
    PROVE  Drops(BareBlocks(t, s), BareBlocks(t2, s2), b, n)
<1>1. ASSUME NEW c \in Block, c # b PROVE BareBlocks(t2, s2)[c] = BareBlocks(t, s)[c]
  <2>1. t2.blk[c] = t.blk[c]
    BY <1>1 DEF Freed
  <2>2. BareBlock(t2, s2, c) = BareBlock(t, s, c)
    BY <2>1 DEF BareBlock
  <2> QED BY <2>2, BareBlockIs
<1> DEFINE x == t.blk[b]
           y == t2.blk[b]
<1>2. x.valid \in Int /\ x.used \in Int /\ x.wasted \in Int
  BY TabIs
<1>3. /\ y.valid = CASE x.valid > 0 -> x.valid - 1
                     [] x.valid < 0 -> x.valid + 1
                     [] OTHER -> 0
      /\ y.used = x.used /\ y.wasted = x.wasted + n
      /\ y = [valid |-> y.valid, used |-> y.used, wasted |-> y.wasted]
  BY DEF Freed
<1> DEFINE v == BareBlocks(t, s)[b]
           w == BareBlocks(t2, s2)[b]
<1>4. /\ b \notin Reclaims(s) => v = x /\ w = y
      /\ b \in Reclaims(s) => /\ v.valid = -x.valid /\ v.used = x.used /\ v.wasted = x.wasted
                              /\ w = [valid |-> -y.valid, used |-> y.used, wasted |-> y.wasted]
  BY BareBlockIs
<1>5. v.valid >= 1
  OBVIOUS
<1> HIDE DEF x, y, v, w
<1>6. CASE b \notin Reclaims(s)
  <2>1. y.valid = x.valid - 1
    BY <1>2, <1>3, <1>4, <1>5, <1>6
  <2>2. w = [valid |-> v.valid - 1, used |-> v.used, wasted |-> v.wasted + n]
    BY <2>1, <1>3, <1>4, <1>6
  <2> QED BY <1>1, <2>2 DEF Drops, v, w
<1>7. CASE b \in Reclaims(s)
  <2>1. y.valid = x.valid + 1
    BY <1>2, <1>3, <1>4, <1>5, <1>7
  <2>2. -y.valid = v.valid - 1
    BY <2>1, <1>2, <1>4, <1>7
  <2>3. w = [valid |-> v.valid - 1, used |-> v.used, wasted |-> v.wasted + n]
    BY <2>2, <1>3, <1>4, <1>7
  <2> QED BY <1>1, <2>3 DEF Drops, v, w
<1> QED BY <1>6, <1>7

\* The replaced record becomes DELETED.
Demoted(fl, fl2, t, s, k, t1, blk2) ==
    /\ Store(fl2, NoOff, NoOff, blk2, (Range(t.list) \cup {NewEntry(s[1])}) \ {t.list[k]})
    /\ Flashes(fl2) /\ t1 \in TabType /\ t1.list = t.list /\ t1.blk = t.blk
    /\ t1.inc = NoOff /\ t1.out = NoOff /\ t1.unsynced = 3
    /\ TrackingAllows(t, s[1].cur, "DELETED") /\ StatusAccepted(fl, s[1].cur, "DELETED")

\* The replaced record becomes DELETED, which is accepted.
LEMMA NowDeleted ==
    ASSUME NEW fl, Flashes(fl), NEW t \in TabType, NEW s, NEW p, Running(fl, t, s, p), Busy(s),
           AtStep(s, "DELETED"),
           NEW k, Replacing(fl, t, s, k),
           NEW fl2, fl2 = SetStatus(fl, s[1].cur, "DELETED"),
           NEW t1, t1 = Tracked(t, s[1].cur, "DELETED"),
           NEW blk2, Drops(BareBlocks(t, s), blk2, BlockOf(s[1].cur), t.list[k].len)
    PROVE  Demoted(fl, fl2, t, s, k, t1, blk2)
<1>1. t.inc = NoOff /\ t.out = s[1].cur /\ t.unsynced = 3
  BY TrackIs DEF AtStep
<1>2. ~Begins(s)
  BY DEF Begins, AtStep
<1> DEFINE es == Range(t.list) \cup {NewEntry(s[1])}
           blk == BareBlocks(t, s)
           cur == s[1].cur
           b == BlockOf(cur)
           n == t.list[k].len
<1>3. Store(fl, NoOff, cur, blk, es)
  BY <1>1, <1>2, WrittenIs DEF Running
<1>4. /\ cur \in Off /\ IsHeader(fl[cur]) /\ StatusOf(fl[cur]) # "DELETED"
      /\ t.list[k] = RecordOf(fl, cur) /\ n = LenOf(fl[cur])
      /\ b \in Block /\ cur \in CellsOf(b)
  BY DEF Replacing
<1>5. /\ fl2 = SetStatus(fl, cur, "DELETED") /\ t1 = Tracked(t, cur, "DELETED") /\ Drops(blk, blk2, b, n)
      /\ t.inc = NoOff /\ t.out = cur
  BY <1>1
<1> HIDE DEF es, blk, cur, b, n
<1>6. /\ Flashes(fl2) /\ \A o \in Off : o # cur => fl2[o] = fl[o]
      /\ fl2[cur] = Header("DELETED", IdOf(fl[cur]), LenOf(fl[cur]))
  BY <1>4, <1>5, SetStatusIs
<1>7. NoOff \notin Off
  BY LayoutAssumption
<1>8. StatusOf(fl[cur]) = "OUTGOING"
  BY <1>3, <1>4 DEF Store, StatusesOK
<1>9. Store(fl2, NoOff, IF cur = cur THEN NoOff ELSE cur, blk2, es \ {RecordOf(fl, cur)})
  <2>1. /\ \A c \in Block : c # b => blk2[c] = blk[c]
        /\ blk2[b] = [valid |-> blk[b].valid - 1, used |-> blk[b].used, wasted |-> blk[b].wasted + LenOf(fl[cur])]
    BY <1>4, <1>5 DEF Drops
  <2>2. cur # NoOff
    BY <1>4, <1>7
  <2>3. /\ b \in Block /\ cur \in CellsOf(b) /\ IsHeader(fl[cur]) /\ StatusOf(fl[cur]) # "DELETED"
        /\ fl2[cur] = Header("DELETED", IdOf(fl[cur]), LenOf(fl[cur]))
        /\ \A o \in Off : o # cur => fl2[o] = fl[o]
    BY <1>4, <1>6
  <2> QED BY ONLY <2>1, <2>2, <2>3, <1>3, StoreDeleted, ZenonT(60)
<1>10. Store(fl2, NoOff, NoOff, blk2, es \ {t.list[k]})
  BY <1>4, <1>9
<1>11. t1 \in TabType /\ t1.list = t.list /\ t1.blk = t.blk /\ t1.unsynced = t.unsynced
       /\ t1.inc = NoOff /\ t1.out = NoOff
  <2>1. /\ t1 \in TabType /\ t1.list = t.list /\ t1.blk = t.blk /\ t1.unsynced = t.unsynced
        /\ t1.inc = (IF t.inc = cur THEN NoOff ELSE t.inc)
        /\ t1.out = (IF t.out = cur THEN NoOff ELSE t.out)
    BY <1>4, <1>5, TrackedIs
  <2> QED BY <2>1, <1>5
<1>12. StatusAccepted(fl, cur, "DELETED")
  BY <1>4, <1>8, StatusAllowedIs
<1>13. TrackingAllows(t, cur, "DELETED")
  BY DEF TrackingAllows
<1> QED BY <1>1, <1>6, <1>10, <1>11, <1>12, <1>13 DEF Demoted, es, cur

\* The frame of a record that is written is done.
Below(s, z, list, list2, p) ==
    /\ Shape(z, list2, p) /\ Reclaims(z) = Reclaims(s) /\ ~Busy(z) /\ ~Begins(z) /\ Skip(z) = NoOff
    /\ \/ z = <<>> /\ Len(s) = 1 /\ Reclaims(s) = {}
       \/ /\ PutBelow(z) /\ Len(s) = 3 /\ Len(z) = 2
          /\ \E b \in Block : Reclaims(s) = {b} /\ MoveFrame(s[1], b, list)

\* The frame of the record is done: nothing is left, or the reclaim that moved
\* it.
LEMMA BelowIs ==
    ASSUME NEW s, NEW list, NEW p, Shape(s, list, p), s # <<>>, s[1].f = "put", NEW list2
    PROVE  Below(s, Tail(s), list, list2, p)
<1> DEFINE z == Tail(s)
<1>1. ASSUME Reclaims(s) = {}, Len(s) = 1, z = <<>>
      PROVE  Below(s, z, list, list2, p)
  <2>1. Reclaims(z) = {} /\ ~Busy(z) /\ Shape(z, list2, p)
    BY <1>1 DEF Reclaims, Busy, Shape
  <2> HIDE DEF z
  <2>2. ~Begins(z) /\ Skip(z) = NoOff
    BY <2>1 DEF Begins, Skip
  <2> QED BY <1>1, <2>1, <2>2 DEF Below
<1>2. ASSUME NEW b \in Block, NEW w \in PutType,
             MoveFrame(s[1], b, list), WriteFrame(w, list, p), w.step = "space",
             Reclaims(s) = {b}, Len(s) = 3, z = Stack2(b, w)
      PROVE  Below(s, z, list, list2, p)
  <2> HIDE DEF z
  <2>1. WriteFrame(w, list2, p)
    BY <1>2 DEF WriteFrame, PutOK
  <2>2. Shape(Stack2(b, w), list2, p)
    BY <1>2, <2>1, ShapeTwo
  <2>3. z[1] = ReclaimFrame(b) /\ Len(z) = 2 /\ Last(z) = w /\ z # <<>> /\ Reclaims(z) = {b}
    BY <1>2, Stack2Is
  <2>4. w.f = "put"
    BY DEF PutType
  <2>5. PutBelow(z) /\ ~Busy(z)
    BY <2>3, <2>4 DEF PutBelow, Busy, ReclaimFrame
  <2>6. ~Begins(z) /\ Skip(z) = NoOff
    BY <2>5 DEF Begins, Skip
  <2> QED BY <1>2, <2>2, <2>3, <2>5, <2>6 DEF Below
<1>3. \/ Reclaims(s) = {} /\ Len(s) = 1 /\ z = <<>>
      \/ \E b \in Block, w \in PutType :
             /\ MoveFrame(s[1], b, list) /\ WriteFrame(w, list, p) /\ w.step = "space"
             /\ Reclaims(s) = {b} /\ Len(s) = 3 /\ z = Stack2(b, w)
  BY TopIs
<1> HIDE DEF z
<1>4. Below(s, z, list, list2, p)
  BY <1>1, <1>2, <1>3
<1> QED BY <1>4 DEF z

\* Moving a record out of the block being reclaimed leaves less to move.
LEMMA RestMoved ==
    ASSUME NEW list, Distinct(list), NEW k \in 1..Len(list), NEW e \in EntryType, NEW b,
           e.off \notin CellsOf(b), NEW list2, Range(list2) = (Range(list) \ {list[k]}) \cup {e}
    PROVE  Rest(list2, NoOff, b) = Rest(list, list[k].off, b)
<1>1. NoOff \notin Off /\ \A x \in Range(list) : x \in EntryType /\ x.off # NoOff
  BY ListIs, LayoutAssumption
<1>2. \A x \in Range(list) : x.off = list[k].off <=> x = list[k]
  BY ListIs DEF Distinct
<1>3. {x \in Range(list2) : x.off \in CellsOf(b) /\ x.off # NoOff}
        = {x \in Range(list) : x.off \in CellsOf(b) /\ x.off # list[k].off}
  BY <1>1, <1>2
<1> QED BY <1>3 DEF Rest

\* A record has moved from block b to its new place.
MovedOver(t, t2, s, b) ==
    /\ Busy(s) /\ Distinct(t.list) /\ b \in Block /\ s[1].cur \in CellsOf(b)
    /\ \E k \in 1..Len(t.list), e \in EntryType :
         /\ t.list[k].off = s[1].cur /\ e.off = s[1].new
         /\ Range(t2.list) = (Range(t.list) \ {t.list[k]}) \cup {e}
    /\ \E n : Freed(t.blk, t2.blk, b, n)
    /\ t.blk[b].valid # 0 /\ (Reclaims(s) # {} => t.blk[b].valid <= 0)

\* ... so what is left still has room.
LEMMA FreeKeptMoved ==
    ASSUME NEW t \in TabType, NEW t2 \in TabType, NEW s, NEW z, NEW p, FreeKept(t, s),
           Below(s, z, t.list, t2.list, p), NEW b, MovedOver(t, t2, s, b)
    PROVE  FreeKept(t2, z)
<1>a. PICK k \in 1..Len(t.list), e \in EntryType :
         /\ t.list[k].off = s[1].cur /\ e.off = s[1].new
         /\ Range(t2.list) = (Range(t.list) \ {t.list[k]}) \cup {e}
  BY DEF MovedOver
<1>b. PICK n : Freed(t.blk, t2.blk, b, n)
  BY DEF MovedOver
<1>c. /\ Busy(s) /\ Distinct(t.list) /\ b \in Block /\ s[1].cur \in CellsOf(b)
      /\ t.blk[b].valid # 0 /\ (Reclaims(s) # {} => t.blk[b].valid <= 0)
  BY DEF MovedOver
<1>d. s[1].step # "space"
  BY <1>c DEF Busy
<1>1. \A c \in Block : IsFree(t, c) => IsFree(t2, c)
  <2>1. TAKE c \in Block
  <2>2. HAVE IsFree(t, c)
  <2>3. t.blk[c].valid = 0
    BY <2>2 DEF IsFree, EmptyBlock
  <2>4. c # b
    BY <2>3, <1>c
  <2> QED BY <2>2, <2>4, <1>b DEF IsFree, Freed
<1>2. CASE \E c \in Block : IsFree(t, c)
  BY <1>1, <1>2 DEF FreeKept
<1>3. CASE ~\E c \in Block : IsFree(t, c)
  <2>1. PICK c \in Block : Room(t, s, c)
    BY <1>3 DEF FreeKept
  <2>2. Len(s) >= 2
    BY <1>3 DEF FreeKept
  <2>3. PICK d \in Block : Reclaims(s) = {d} /\ MoveFrame(s[1], d, t.list) /\ Len(z) = 2
                           /\ Reclaims(z) = {d} /\ Skip(z) = NoOff
    <3>1. Below(s, z, t.list, t2.list, p)
      OBVIOUS
    <3>2. \/ z = <<>> /\ Len(s) = 1 /\ Reclaims(s) = {}
          \/ Len(z) = 2 /\ \E d \in Block : Reclaims(s) = {d} /\ MoveFrame(s[1], d, t.list)
      BY ONLY <3>1 DEF Below
    <3>3. Reclaims(z) = Reclaims(s) /\ Skip(z) = NoOff
      BY ONLY <3>1 DEF Below
    <3>4. Len(s) # 1
      <4>1. ASSUME NEW len, len = 1 PROVE ~(len >= 2)
        BY <4>1
      <4> QED BY <2>2, <4>1, Zenon
    <3> QED BY ONLY <3>2, <3>3, <3>4
  <2>4. e.off \notin CellsOf(d)
    BY <2>3, <1>a, <1>d DEF MoveFrame
  <2>5. Rest(t2.list, NoOff, d) = Rest(t.list, t.list[k].off, d)
    BY <2>4, <1>a, <1>c, RestMoved
  <2>6. Skip(s) = t.list[k].off
    BY <1>a, <1>c DEF Skip
  <2>7. t.blk[c].valid > 0 /\ t.blk[c].used + Cardinality(Rest(t.list, Skip(s), d)) <= BlockSize
    BY <2>1, <2>3 DEF Room
  <2>8. c # b /\ t2.blk[c] = t.blk[c]
    <3>1. t.blk[b].valid <= 0 /\ t.blk[b].valid \in Int /\ t.blk[c].valid \in Int
      BY <2>3, <1>c, TabIs
    <3> QED BY <3>1, <2>7, <1>b DEF Freed
  <2>9. Room(t2, z, c)
    BY <2>3, <2>5, <2>6, <2>7, <2>8 DEF Room
  <2> QED BY <2>3, <2>9 DEF FreeKept
<1> QED BY <1>2, <1>3

\* Last step, where a record is replaced: the write is over.
LEMMA WriteDeleted ==
    ASSUME NEW fl, Flashes(fl), NEW t \in TabType, NEW s, NEW p, Running(fl, t, s, p), Busy(s),
           AtStep(s, "DELETED"),
           NEW fl2, fl2 = SetStatus(fl, s[1].cur, "DELETED"),
           NEW t1, t1 = Tracked(t, s[1].cur, "DELETED"),
           NEW t2, t2 = Ended(TakenOver(t1, s[1].cur, NewEntry(s[1])), s[1].new)
    PROVE  /\ Running(fl2, t2, Tail(s), p) /\ Flashes(fl2) /\ t2 \in TabType
           /\ Tail(s) # <<>> => PutBelow(Tail(s))
           /\ TrackingAllows(t, s[1].cur, "DELETED") /\ StatusAccepted(fl, s[1].cur, "DELETED")
<1>1. /\ Distinct(t.list) /\ Shape(s, t.list, p) /\ s # <<>> /\ s[1].f = "put" /\ s[1].step # "space"
      /\ NewEntry(s[1]) \in EntryType
      /\ NewEntry(s[1]).off = s[1].new /\ NewEntry(s[1]).id = s[1].id
      /\ s[1].cur # NoOff
  BY BusyIs, Zenon DEF PutIs, AtStep
<1>2. s[1].cur # NoOff => \A m \in 1..Len(t.list) : t.list[m].off # s[1].new
  BY BusyIs DEF PutIs
<1>3. ~Begins(s)
  BY DEF Begins, AtStep
<1>4. PICK k \in 1..Len(t.list) : Replacing(fl, t, s, k)
  BY <1>1, <1>3, ReplacingIs
<1> DEFINE cur == s[1].cur
           e == NewEntry(s[1])
           b == BlockOf(cur)
           n == t.list[k].len
           z == Tail(s)
<1>5. /\ cur = t.list[k].off /\ cur \in Off /\ b \in Block /\ cur \in CellsOf(b) /\ e.id = t.list[k].id
      /\ t.list[k] # e /\ t.list[k] \in Range(t.list) /\ t.list[k] \in EntryType
      /\ BareBlocks(t, s)[b].valid >= 1
  BY <1>1, <1>4 DEF Replacing
<1>6. n \in Nat
  BY <1>5, Sizes DEF EntryType
<1>7. e \in EntryType /\ e.off = s[1].new /\ s[1].new \in Off /\ \A m \in 1..Len(t.list) : t.list[m].off # e.off
  BY <1>1, <1>2 DEF EntryType
<1>8. t.inc = NoOff /\ t.out = cur /\ t.unsynced = 3
  BY TrackIs DEF AtStep
<1> HIDE DEF b, n, e, cur
<1>9. t1 \in TabType /\ t1.list = t.list /\ t1.blk = t.blk /\ t1.inc = NoOff /\ t1.out = NoOff /\ t1.unsynced = 3
  <2>1. t1 = Tracked(t, cur, "DELETED")
    BY DEF cur
  <2>2. /\ t1 \in TabType /\ t1.list = t.list /\ t1.blk = t.blk /\ t1.unsynced = t.unsynced
        /\ t1.inc = (IF t.inc = cur THEN NoOff ELSE t.inc)
        /\ t1.out = (IF t.out = cur THEN NoOff ELSE t.out)
    BY ONLY <1>5, <2>1, t \in TabType, TrackedIs
  <2> QED BY <2>2, <1>8
<1> DEFINE t3 == TakenOver(t1, cur, e)
<1>10. /\ t3 \in TabType /\ t3.list = [t.list EXCEPT ![k] = e] /\ t3.inc = NoOff /\ t3.out = NoOff
       /\ t3.unsynced = 3 /\ Freed(t.blk, t3.blk, b, n)
  <2>1. /\ Distinct(t1.list) /\ k \in 1..Len(t1.list) /\ cur = t1.list[k].off /\ e.id = t1.list[k].id
        /\ \A m \in 1..Len(t1.list) : t1.list[m].off # e.off
    BY <1>1, <1>5, <1>7, <1>9
  <2> HIDE DEF t3
  <2>2. t3 = TakenOver(t1, cur, e)
    BY DEF t3
  <2>3. /\ t3 \in TabType /\ t3.list = [t1.list EXCEPT ![k] = e]
        /\ t3.inc = t1.inc /\ t3.out = t1.out /\ t3.unsynced = t1.unsynced
        /\ Freed(t1.blk, t3.blk, b, t1.list[k].len)
    BY ONLY <2>1, <2>2, <1>5, <1>7, <1>9, ReplacedIs
  <2> QED BY <2>3, <1>9 DEF n
<1> HIDE DEF t3
<1>11. t2 = Ended(t3, s[1].new)
  BY DEF t3, e, cur
<1>12. /\ t2 \in TabType /\ t2.list = t3.list /\ t2.blk = t3.blk /\ t2.inc = t3.inc /\ t2.out = t3.out
       /\ t2.unsynced = t3.unsynced - 3
  BY ONLY <1>7, <1>10, <1>11, EndedIs
<1>13. /\ Distinct(t2.list) /\ Range(t2.list) = (Range(t.list) \ {t.list[k]}) \cup {e}
  <2>1. /\ Distinct([t.list EXCEPT ![k] = e])
        /\ Range([t.list EXCEPT ![k] = e]) = (Range(t.list) \ {t.list[k]}) \cup {e}
    BY ONLY <1>1, <1>4, <1>5, <1>7, ReplaceList
  <2> QED BY <2>1, <1>10, <1>12
<1>14. Below(s, z, t.list, t2.list, p)
  BY <1>1, BelowIs
<1> HIDE DEF z
<1>15. /\ Shape(z, t2.list, p) /\ Reclaims(z) = Reclaims(s) /\ ~Busy(z) /\ ~Begins(z) /\ Skip(z) = NoOff
       /\ z # <<>> => PutBelow(z)
  BY ONLY <1>14 DEF Below
<1>16. Freed(t.blk, t2.blk, b, n)
  BY <1>10, <1>12
<1>17. Drops(BareBlocks(t, s), BareBlocks(t2, z), b, n)
  BY ONLY <1>3, <1>5, <1>6, <1>12, <1>15, <1>16, t \in TabType, BareDrops
<1>18. Demoted(fl, fl2, t, s, k, t1, BareBlocks(t2, z))
  BY <1>4, <1>17, NowDeleted DEF b, cur, n
<1>19. /\ Store(fl2, NoOff, NoOff, BareBlocks(t2, z), (Range(t.list) \cup {e}) \ {t.list[k]})
       /\ Flashes(fl2)
       /\ TrackingAllows(t, s[1].cur, "DELETED") /\ StatusAccepted(fl, s[1].cur, "DELETED")
  BY <1>18 DEF Demoted, e
<1>20. (Range(t.list) \cup {e}) \ {t.list[k]} = Range(t2.list)
  BY <1>5, <1>13
<1>21. Bare(fl2, t2, z)
  BY <1>10, <1>12, <1>15, <1>19, <1>20, QuietIs, Zenon
<1>22. Tracking(t2, z, p)
  <2>1. t2.unsynced = 0 /\ t2.inc = NoOff /\ t2.out = NoOff
    BY <1>10, <1>12
  <2> QED BY <2>1, <1>15 DEF Tracking
<1>23. FreeKept(t2, z)
  <2>1. FreeKept(t, s)
    BY DEF Running
  <2>2. t.blk[b].valid # 0 /\ (Reclaims(s) # {} => t.blk[b].valid <= 0)
    <3>1. t.blk[b].valid \in Int
      BY <1>5, TabIs
    <3>2. /\ b \notin Reclaims(s) => BareBlocks(t, s)[b].valid = t.blk[b].valid
          /\ b \in Reclaims(s) => BareBlocks(t, s)[b].valid = -t.blk[b].valid
      BY <1>3, <1>5, BareBlockIs
    <3>3. Reclaims(s) # {} => b \in Reclaims(s)
      <4>1. ASSUME Reclaims(s) # {} PROVE b \in Reclaims(s)
        <5>1. PICK d \in Block : Reclaims(s) = {d} /\ MoveFrame(s[1], d, t.list)
          BY ONLY <1>14, <4>1 DEF Below
        <5>2. cur \in CellsOf(d)
          BY <5>1 DEF MoveFrame, cur
        <5> QED BY <5>1, <5>2, <1>5, BlocksApart
      <4> QED BY <4>1
    <3> DEFINE v == BareBlocks(t, s)[b].valid
               x == t.blk[b].valid
    <3>4. v >= 1
      BY <1>5
    <3>5. CASE b \in Reclaims(s)
      <4>1. v = -x /\ x \in Int
        BY <3>1, <3>2, <3>5
      <4> HIDE DEF v, x
      <4>2. x # 0 /\ x <= 0
        BY <4>1, <3>4
      <4> QED BY <4>2 DEF x
    <3>6. CASE b \notin Reclaims(s)
      <4>1. v = x /\ x \in Int
        BY <3>1, <3>2, <3>6
      <4>2. Reclaims(s) = {}
        BY <3>3, <3>6
      <4> HIDE DEF v, x
      <4>3. x # 0
        BY <4>1, <3>4
      <4> QED BY <4>2, <4>3 DEF x
    <3> QED BY <3>5, <3>6
  <2>3. MovedOver(t, t2, s, b)
    <3>1. Busy(s) /\ s[1].cur \in CellsOf(b) /\ t.list[k].off = s[1].cur
      BY <1>5 DEF cur
    <3> QED BY ONLY <3>1, <2>2, <1>1, <1>4, <1>5, <1>7, <1>13, <1>16 DEF MovedOver
  <2>4. FreeKept(t2, z)
    BY ONLY <2>1, <2>3, <1>12, <1>14, t \in TabType, FreeKeptMoved, Zenon
  <2> QED BY <2>4
<1>24. BehindLast(fl2, t2, z)
  BY <1>15 DEF BehindLast
<1>25. Running(fl2, t2, z, p)
  BY <1>13, <1>15, <1>21, <1>22, <1>23, <1>24 DEF Running
<1> QED BY <1>12, <1>15, <1>19, <1>25 DEF z
==============================================================================
