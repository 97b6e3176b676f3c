--------------------------- MODULE ErstSpaceProofs ---------------------------
(****************************************************************************)
(* The second part of the proof that the tables, the blocks and the shadow  *)
(* stay what the flash holds: space is taken, made and refused; requests;   *)
(* initialization; then the steps of Erst, the invariant, and the           *)
(* properties that follow from it.  The last part is the order of the       *)
(* records (ErstOrder).                                                     *)
(****************************************************************************)
EXTENDS ErstWriteProofs, ErstOrder

(***************************************************************************)
(* Space is taken (ErstPrepareNewRecord).                                  *)
(***************************************************************************)

\* Nothing is written: the flash is what the tables say.
Ready(fl, t, s, p) ==
    /\ Store(fl, NoOff, NoOff, BareBlocks(t, s), Range(t.list)) /\ Distinct(t.list)
    /\ t.inc = NoOff /\ t.out = NoOff /\ t.unsynced = 0
    /\ ~Begins(s) /\ Skip(s) = NoOff /\ Shape(s, t.list, p) /\ FreeKept(t, s)

\* Between two records the tables are what the flash holds.
LEMMA ReadyIs ==
    ASSUME NEW fl, NEW t \in TabType, NEW s, NEW p, Running(fl, t, s, p), ~Busy(s),
           s # <<>> \/ p # NoReq
    PROVE  Ready(fl, t, s, p)
<1>1. Tracking(t, s, p) /\ Bare(fl, t, s) /\ Distinct(t.list) /\ Shape(s, t.list, p) /\ FreeKept(t, s)
  BY DEF Running
<1>2. t.inc = NoOff /\ t.out = NoOff /\ t.unsynced = 0
  BY <1>1 DEF Tracking
<1> QED BY <1>1, <1>2, QuietIs DEF Ready

\* The entry of a block: its records, counted negatively while it is
\* reclaimed.
LEMMA BlocksAre ==
    ASSUME NEW fl, NEW t \in TabType, NEW s, NEW p, Ready(fl, t, s, p), NEW b \in Block
    PROVE  /\ t.blk[b].valid \in Int /\ t.blk[b].used \in 0..BlockSize
           /\ b \notin Reclaims(s) => t.blk[b].valid \in Nat /\ BlockOK(fl, b, t.blk[b])
                                      /\ BareBlocks(t, s)[b] = t.blk[b]
           /\ b \in Reclaims(s) => t.blk[b].valid <= 0
           /\ \A e \in Range(t.list) : e.off \in CellsOf(b) =>
                BareBlocks(t, s)[b].valid >= 1 /\ (b \in Reclaims(s) => t.blk[b].valid < 0)
<1>1. BlockOK(fl, b, BareBlocks(t, s)[b])
  BY DEF Ready, Store
<1>2. /\ b \notin Reclaims(s) => BareBlocks(t, s)[b] = t.blk[b]
      /\ b \in Reclaims(s) => BareBlocks(t, s)[b] = [valid |-> -t.blk[b].valid, used |-> t.blk[b].used,
                                                     wasted |-> t.blk[b].wasted]
  BY BareBlockIs DEF Ready
<1>3. t.blk[b].valid \in Int
  BY TabIs
<1> DEFINE x == BareBlocks(t, s)[b]
<1>4. x.valid \in Nat /\ x.used \in 0..BlockSize
  BY <1>1 DEF BlockOK, Laid
<1>5. x.used = t.blk[b].used /\ (b \in Reclaims(s) => x.valid = -t.blk[b].valid)
  BY <1>2
<1>6. ASSUME NEW e \in Range(t.list), e.off \in CellsOf(b) PROVE x.valid >= 1
  <2>1. Store(fl, NoOff, NoOff, BareBlocks(t, s), Range(t.list))
    BY DEF Ready
  <2>2. PICK c \in Block : e.off \in CellsOf(c) /\ BareBlocks(t, s)[c].valid >= 1
    BY <2>1, <1>6, EntryHeld
  <2>3. c = b
    BY <1>6, <2>2, BlocksApart
  <2> QED BY <2>2, <2>3
<1> HIDE DEF x
<1> DEFINE v == t.blk[b].valid
<1>7. b \in Reclaims(s) => x.valid = -v /\ v \in Int
  BY <1>3, <1>5
<1> HIDE DEF v
<1>8. b \in Reclaims(s) => v <= 0 /\ (x.valid >= 1 => v < 0)
  BY <1>4, <1>7
<1>9. b \notin Reclaims(s) => x = t.blk[b] /\ t.blk[b].valid \in Nat
  BY <1>2, <1>4 DEF x
<1> QED BY <1>1, <1>3, <1>4, <1>5, <1>6, <1>8, <1>9 DEF x, v

\* The space that was found.
Taken(fl, t, s, at, n, b) ==
    /\ b \in Block /\ b \notin Reclaims(s) /\ at = Base(b) + t.blk[b].used
    /\ at \in CellsOf(b) /\ at \in Off /\ at \in Nat /\ Base(b) <= at
    /\ t.blk[b].used \in Nat /\ t.blk[b].valid \in Nat /\ t.blk[b].used + n <= BlockSize
    /\ \A k \in 1..Len(t.list) : t.list[k].off # at
    /\ \A c \in Block : c # b => at \notin CellsOf(c)
    /\ \/ t.blk[b].valid > 0
       \/ IsFree(t, b) /\ Cardinality(Spare(t)) > 1

\* The space that ErstFindFreeSpace gives lies behind the last record of a
\* block that is not being reclaimed, and no record starts there.
LEMMA TakenWhen ==
    ASSUME NEW fl, NEW t \in TabType, NEW s, NEW p, Ready(fl, t, s, p), NEW n \in RecLen,
           \A d \in Reclaims(s) : d \in Block /\ t.blk[d].valid < 0, NEW dummy \in BOOLEAN,
           NEW space, space = FindFreeSpace(t, n, dummy), space.how = "found"
    PROVE  \E b \in Block : Taken(fl, t, s, space.at, n, b)
<1> DEFINE at == space.at
<1>1. PICK b \in Block : /\ at = Base(b) + t.blk[b].used
                         /\ \/ RoomIn(t, b, n)
                            \/ IsFree(t, b) /\ Cardinality(Spare(t)) > 1
  <2>1. t.out = NoOff /\ t.recent \in Block /\ \A b \in Block : t.blk[b].valid \in Int
    BY TabIs DEF Ready
  <2> QED BY <2>1, SpaceIs
<1> HIDE DEF at
<1>2. n \in Nat /\ n >= 1 /\ n <= BlockSize /\ BlockSize \in Nat /\ Base(b) \in Nat /\ CellsOf(b) \subseteq Off
  BY Sizes, BlockCells
<1>3. t.blk[b].valid \in Int /\ t.blk[b].used \in Nat
  BY BlocksAre
<1>4. IsFree(t, b) => t.blk[b].valid = 0 /\ t.blk[b].used = 0
  BY DEF IsFree, EmptyBlock
<1>5. t.blk[b].valid >= 0 /\ t.blk[b].used + n <= BlockSize
  BY <1>1, <1>2, <1>3, <1>4 DEF RoomIn
<1>6. b \notin Reclaims(s) /\ t.blk[b].valid \in Nat
  BY <1>3, <1>5
<1> DEFINE u == t.blk[b].used
<1>7. at = Base(b) + u /\ u \in Nat /\ u + n <= BlockSize
  BY <1>1, <1>3, <1>5
<1> HIDE DEF u
<1>8. at \in CellsOf(b) /\ at \in Nat /\ Base(b) <= at
  BY <1>2, <1>7 DEF CellsOf
<1>9. fl[at] = Erased
  <2>1. BlockOK(fl, b, t.blk[b])
    BY <1>6, BlocksAre
  <2> QED BY <2>1, <1>7, <1>8 DEF BlockOK, Laid, u
<1>10. ASSUME NEW k \in 1..Len(t.list), t.list[k].off = at PROVE FALSE
  <2>1. t.list[k] \in Range(t.list)
    BY ListIs DEF Ready
  <2>2. IsHeader(fl[t.list[k].off])
    <3>1. Store(fl, NoOff, NoOff, BareBlocks(t, s), Range(t.list))
      BY DEF Ready
    <3> QED BY ONLY <2>1, <3>1, EntryHeld
  <2> QED BY <2>2, <1>9, <1>10, HeaderFields
<1>11. \A c \in Block : c # b => at \notin CellsOf(c)
  BY <1>8, BlocksApart
<1>12. t.blk[b].valid > 0 \/ (IsFree(t, b) /\ Cardinality(Spare(t)) > 1)
  BY <1>1 DEF RoomIn
<1> QED BY <1>2, <1>6, <1>7, <1>8, <1>10, <1>11, <1>12, Zenon DEF Taken, at, u

\* ... also for a write that may reclaim.
LEMMA TakenIs ==
    ASSUME NEW fl, NEW t \in TabType, NEW s, NEW p, Ready(fl, t, s, p), NEW n \in RecLen,
           \A d \in Reclaims(s) : d \in Block /\ t.blk[d].valid < 0,
           NEW space, space = FindFreeSpace(t, n, FALSE), space.how = "found"
    PROVE  \E b \in Block : Taken(fl, t, s, space.at, n, b)
<1>1. FALSE \in BOOLEAN
  OBVIOUS
<1> QED BY <1>1, TakenWhen, Zenon

\* The tables once n cells of block b are taken.
Booked(t, t2, b, n) ==
    /\ t2 \in TabType /\ t2.inc = t.inc /\ t2.out = t.out /\ t2.unsynced = t.unsynced + 2
    /\ \A c \in Block : c # b => t2.blk[c] = t.blk[c]
    /\ t2.blk[b] = [valid |-> t.blk[b].valid + 1, used |-> t.blk[b].used + n,
                    wasted |-> t.blk[b].wasted]

\* The tables once a record that has no entry yet has its space
\* (ErstPrepareNewRecord, ErstAllocateNewRecord).
LEMMA BookedNew ==
    ASSUME NEW t \in TabType, NEW b \in Block, NEW at \in CellsOf(b), NEW n \in Int,
           NEW e \in EntryType, NEW t2, t2 = AllocateNew(Prepare(t, at, n), e)
    PROVE  Booked(t, t2, b, n) /\ t2.list = Append(t.list, e)
<1> DEFINE u == Prepare(t, at, n)
<1>1. /\ u \in TabType /\ Same(u, t) /\ u.unsynced = t.unsynced + 1
      /\ \A c \in Block : c # b => u.blk[c] = t.blk[c]
      /\ u.blk[b] = [valid |-> t.blk[b].valid + 1, used |-> t.blk[b].used + n,
                     wasted |-> t.blk[b].wasted]
  BY PrepareIs
<1> HIDE DEF u
<1>2. t2 = AllocateNew(u, e)
  BY DEF u
<1>3. /\ t2 \in TabType /\ t2.list = Append(u.list, e) /\ t2.unsynced = u.unsynced + 1
      /\ t2.inc = u.inc /\ t2.out = u.out /\ t2.blk = u.blk
  BY <1>1, <1>2, AllocateIs
<1>4. t.unsynced \in Int
  BY TabIs
<1>5. t2.unsynced = t.unsynced + 2
  BY <1>1, <1>3, <1>4
<1> QED BY <1>1, <1>3, <1>5 DEF Same, Booked

\* ... and one that replaces a record.
LEMMA BookedOld ==
    ASSUME NEW t \in TabType, NEW b \in Block, NEW at \in CellsOf(b), NEW n \in Int,
           NEW t2, t2 = Unsync(Prepare(t, at, n), 1)
    PROVE  Booked(t, t2, b, n) /\ t2.list = t.list
<1> DEFINE u == Prepare(t, at, n)
<1>1. /\ u \in TabType /\ Same(u, t) /\ u.unsynced = t.unsynced + 1
      /\ \A c \in Block : c # b => u.blk[c] = t.blk[c]
      /\ u.blk[b] = [valid |-> t.blk[b].valid + 1, used |-> t.blk[b].used + n,
                     wasted |-> t.blk[b].wasted]
  BY PrepareIs
<1> HIDE DEF u
<1>2. t2 = Unsync(u, 1)
  BY DEF u
<1>3. /\ t2 \in TabType /\ Same(t2, u) /\ t2.unsynced = u.unsynced + 1 /\ t2.blk = u.blk
  BY <1>1, <1>2, UnsyncIs
<1>4. t.unsynced \in Int
  BY TabIs
<1>5. t2.unsynced = t.unsynced + 2
  BY <1>1, <1>3, <1>4
<1> QED BY <1>1, <1>3, <1>5 DEF Same, Booked

\* A record that is moved takes the space that it leaves.
MovesOne(t, t2, s, s2, n) ==
    /\ Reclaims(s2) = Reclaims(s) /\ Len(s2) = Len(s)
    /\ Reclaims(s) # {} =>
         /\ t2.list = t.list
         /\ \E d \in Block : /\ Reclaims(s) = {d}
                             /\ \E e \in Range(t.list) : e.off = Skip(s2) /\ e.off \in CellsOf(d) /\ e.len = n

\* Space is taken, and yet a block stays free or can take what is being
\* reclaimed: the last free block is given to a relocation only, and a
\* relocation leaves less to move by what it takes.
LEMMA FreeKeptTaken ==
    ASSUME NEW fl, NEW t \in TabType, NEW s, NEW p, Ready(fl, t, s, p), NEW n \in RecLen,
           NEW at, NEW b, Taken(fl, t, s, at, n, b), NEW t2, Booked(t, t2, b, n),
           NEW s2, MovesOne(t, t2, s, s2, n)
    PROVE  FreeKept(t2, s2)
<1>1. /\ b \in Block /\ b \notin Reclaims(s) /\ t.blk[b].used \in Nat /\ t.blk[b].valid \in Nat
      /\ \/ t.blk[b].valid > 0
         \/ IsFree(t, b) /\ Cardinality(Spare(t)) > 1
  BY DEF Taken
<1>2. /\ \A c \in Block : c # b => t2.blk[c] = t.blk[c]
      /\ t2.blk[b].valid = t.blk[b].valid + 1 /\ t2.blk[b].used = t.blk[b].used + n
  BY DEF Booked
<1>3. \A c \in Block : c # b /\ IsFree(t, c) => IsFree(t2, c)
  BY <1>2 DEF IsFree
<1>4. FreeKept(t, s) /\ Skip(s) = NoOff /\ Store(fl, NoOff, NoOff, BareBlocks(t, s), Range(t.list))
  BY DEF Ready
<1>5. Reclaims(s2) = Reclaims(s) /\ Len(s2) = Len(s)
  BY DEF MovesOne
<1>6. ASSUME Reclaims(s) # {}
      PROVE  \E d \in Block :
               /\ Reclaims(s) = {d} /\ t2.list = t.list /\ n \in Nat /\ BlockSize \in Nat
               /\ Cardinality(Rest(t.list, NoOff, d)) \in Nat
               /\ Cardinality(Rest(t.list, NoOff, d)) <= BlockSize
               /\ Cardinality(Rest(t.list, Skip(s2), d)) \in Nat
               /\ Cardinality(Rest(t.list, NoOff, d)) = Cardinality(Rest(t.list, Skip(s2), d)) + n
  <2>1. PICK d \in Block : /\ Reclaims(s) = {d} /\ t2.list = t.list
                           /\ \E e \in Range(t.list) : e.off = Skip(s2) /\ e.off \in CellsOf(d) /\ e.len = n
    BY <1>6 DEF MovesOne
  <2>2. PICK e \in Range(t.list) : e.off = Skip(s2) /\ e.off \in CellsOf(d) /\ e.len = n
    BY <2>1
  <2>3. /\ Cardinality(Rest(t.list, NoOff, d)) \in Nat /\ Cardinality(Rest(t.list, Skip(s2), d)) \in Nat
        /\ Cardinality(Rest(t.list, NoOff, d)) <= BlockSize
        /\ Cardinality(Rest(t.list, NoOff, d)) = Cardinality(Rest(t.list, Skip(s2), d)) + e.len
    BY ONLY <1>4, <2>2, RestIs
  <2> QED BY <2>1, <2>2, <2>3, Sizes
<1>7. ASSUME NEW c \in Block, t2.blk[c].valid > 0, t2.blk[c].used \in Int,
             \A d \in Reclaims(s) : t2.blk[c].used + Cardinality(Rest(t2.list, Skip(s2), d)) <= BlockSize,
             Len(s2) >= 2
      PROVE  FreeKept(t2, s2)
  BY <1>5, <1>7 DEF FreeKept, Room
<1>8. Reclaims(s) # {} => Len(s) >= 2
  BY DEF Reclaims
<1>9. CASE t.blk[b].valid > 0
  <2>1. ~IsFree(t, b)
    BY <1>9 DEF IsFree, EmptyBlock
  <2>2. CASE \E c \in Block : IsFree(t, c)
    BY <1>3, <2>1, <2>2 DEF FreeKept
  <2>3. CASE ~\E c \in Block : IsFree(t, c)
    <3>1. Len(s) >= 2 /\ \E c \in Block : Room(t, s, c)
      BY <1>4, <2>3 DEF FreeKept
    <3>2. PICK c \in Block : Room(t, s, c)
      BY <3>1
    <3>3. Reclaims(s) # {}
      BY <3>1, Zenon DEF Reclaims
    <3>4. PICK d \in Block :
               /\ Reclaims(s) = {d} /\ t2.list = t.list /\ n \in Nat /\ BlockSize \in Nat
               /\ Cardinality(Rest(t.list, NoOff, d)) \in Nat
               /\ Cardinality(Rest(t.list, Skip(s2), d)) \in Nat
               /\ Cardinality(Rest(t.list, NoOff, d)) = Cardinality(Rest(t.list, Skip(s2), d)) + n
      BY <1>6, <3>3
    <3> DEFINE x == Cardinality(Rest(t.list, NoOff, d))
               y == Cardinality(Rest(t.list, Skip(s2), d))
               u == t.blk[c].used
               v == t2.blk[c].used
    <3>5. t.blk[c].valid > 0 /\ u + x <= BlockSize /\ t.blk[c].valid \in Int /\ u \in Int
      BY <1>4, <3>2, <3>4, TabIs DEF Room
    <3>6. t2.blk[c].valid > 0 /\ (v = u \/ v = u + n)
      BY <1>1, <1>2, <3>5
    <3>7. x = y + n /\ x \in Nat /\ y \in Nat /\ n \in Nat /\ BlockSize \in Nat
      BY <3>4
    <3> HIDE DEF x, y, u, v
    <3>8. v + y <= BlockSize /\ v \in Int
      BY <3>5, <3>6, <3>7
    <3>9. /\ t2.blk[c].used \in Int
          /\ \A g \in Reclaims(s) : t2.blk[c].used + Cardinality(Rest(t2.list, Skip(s2), g)) <= BlockSize
      BY <3>4, <3>8 DEF v, y
    <3> QED BY <1>5, <1>7, <3>1, <3>6, <3>9
  <2> QED BY <2>2, <2>3
<1>10. CASE IsFree(t, b) /\ Cardinality(Spare(t)) > 1
  <2>1. \E c \in Spare(t) : c # b
    <3>1. ASSUME \A c \in Spare(t) : c = b PROVE FALSE
      <4>1. Spare(t) = {b}
        BY <1>1, <1>10, <3>1 DEF Spare
      <4>2. Cardinality({b}) = 1
        BY FS_Singleton, Zenon
      <4> QED BY <4>1, <4>2, <1>10
    <3> QED BY <3>1
  <2>2. PICK c \in Spare(t) : c # b
    BY <2>1
  <2>3. c \in Block /\ (IsFree(t, c) \/ t.blk[c].valid < 0)
    BY <2>2 DEF Spare
  <2>4. CASE IsFree(t, c)
    BY <1>3, <2>2, <2>3, <2>4 DEF FreeKept
  <2>5. CASE t.blk[c].valid < 0
    <3>1. c \in Reclaims(s)
      <4>1. c \notin Reclaims(s) => t.blk[c].valid \in Nat
        BY <2>3, BlocksAre
      <4> QED BY <4>1, <2>5
    <3>2. Reclaims(s) # {}
      BY <3>1
    <3>3. Len(s2) >= 2
      BY <1>5, <1>8, <3>2
    <3>4. PICK d \in Block :
               /\ Reclaims(s) = {d} /\ t2.list = t.list /\ n \in Nat /\ BlockSize \in Nat
               /\ Cardinality(Rest(t.list, NoOff, d)) \in Nat
               /\ Cardinality(Rest(t.list, NoOff, d)) <= BlockSize
               /\ Cardinality(Rest(t.list, Skip(s2), d)) \in Nat
               /\ Cardinality(Rest(t.list, NoOff, d)) = Cardinality(Rest(t.list, Skip(s2), d)) + n
      BY <1>6, <3>2
    <3> DEFINE y == Cardinality(Rest(t.list, Skip(s2), d))
               v == t2.blk[b].used
    <3>5. t.blk[b].valid = 0 /\ t.blk[b].used = 0
      BY <1>10 DEF IsFree, EmptyBlock
    <3>6. v = n /\ t2.blk[b].valid > 0
      BY <1>2, <3>4, <3>5
    <3>7. y + n <= BlockSize /\ y \in Nat /\ n \in Nat
      BY <3>4
    <3> HIDE DEF y, v
    <3>8. v + y <= BlockSize /\ v \in Int
      BY <3>6, <3>7
    <3>9. /\ t2.blk[b].used \in Int
          /\ \A g \in Reclaims(s) : t2.blk[b].used + Cardinality(Rest(t2.list, Skip(s2), g)) <= BlockSize
      BY <3>4, <3>8 DEF v, y
    <3> QED BY <1>1, <1>7, <3>3, <3>6, <3>9
  <2> QED BY <2>3, <2>4, <2>5
<1> QED BY <1>1, <1>9, <1>10

\* The frame once it has its space.
Placing(f, cur, at) == [f EXCEPT !.cur = cur, !.new = at, !.step = "INCOMING"]

\* The frame of a record that has its space.
LEMMA PlacingIs ==
    ASSUME NEW f \in PutType, NEW cur \in Off \cup {NoOff}, NEW at \in Off, NEW g, g = Placing(f, cur, at)
    PROVE  /\ g \in PutType /\ g.f = "put" /\ g.who = f.who /\ g.id = f.id /\ g.len = f.len /\ g.val = f.val
           /\ g.cur = cur /\ g.new = at /\ g.step = "INCOMING" /\ NewEntry(g) = Entry(f.id, f.len, at)
<1>1. "INCOMING" \in Steps
  BY StepsAre
<1>2. /\ g \in PutType /\ g.f = "put" /\ g.who = f.who /\ g.id = f.id /\ g.len = f.len /\ g.val = f.val
      /\ g.cur = cur /\ g.new = at /\ g.step = "INCOMING"
  BY <1>1, Zenon DEF PutType, Placing
<1> QED BY <1>2 DEF NewEntry

\* What the list is, when a new record gets an entry or one is replaced.
Listing(t, t2, f, cur, at) ==
    \/ /\ cur = NoOff /\ f.who = "write" /\ t2.list = Append(t.list, Entry(f.id, f.len, at))
       /\ \A k \in 1..Len(t.list) : t.list[k].id # f.id
    \/ /\ cur # NoOff /\ cur \in Off /\ t2.list = t.list
       /\ \E k \in 1..Len(t.list) : t.list[k].off = cur /\ t.list[k].id = f.id
       /\ f.who = "move" => cur = f.cur

\* No record of the list starts at offset at.
Vacant(t, at) == \A k \in 1..Len(t.list) : t.list[k].off # at

\* The list as it was, without the record that has no content yet.
LEMMA ListingIs ==
    ASSUME NEW t \in TabType, Distinct(t.list), NEW t2, NEW f \in PutType, NEW cur, NEW at \in Off,
           Vacant(t, at), Listing(t, t2, f, cur, at),
           NEW e, e = Entry(f.id, f.len, at)
    PROVE  /\ Distinct(t2.list) /\ Range(t2.list) \ {e} = Range(t.list) /\ e \in EntryType
           /\ cur \in Off \cup {NoOff}
           /\ cur = NoOff => e \in Range(t2.list)
<1>1. f.id \in Id /\ f.len \in RecLen
  BY DEF PutType
<1>2. e \in EntryType /\ e.off = at /\ e.id = f.id
  BY <1>1 DEF Entry, EntryType
<1>3. e \notin Range(t.list)
  BY <1>2, ListIs DEF Vacant
<1>4. CASE cur = NoOff /\ f.who = "write" /\ t2.list = Append(t.list, e)
           /\ \A k \in 1..Len(t.list) : t.list[k].id # f.id
  <2>1. \A k \in 1..Len(t.list) : t.list[k].off # e.off /\ t.list[k].id # e.id
    BY <1>2, <1>4 DEF Vacant
  <2>2. Distinct(Append(t.list, e)) /\ Range(Append(t.list, e)) = Range(t.list) \cup {e}
    BY <1>2, <2>1, AppendList
  <2> QED BY <1>2, <1>3, <1>4, <2>2
<1>5. CASE cur # NoOff /\ cur \in Off /\ t2.list = t.list
  BY <1>2, <1>3, <1>5
<1> QED BY <1>4, <1>5 DEF Listing

\* The stack once the record on top has its space.
Installed(s, s2, list2, p, cur, at) ==
    /\ Shape(s2, list2, p) /\ Reclaims(s2) = Reclaims(s) /\ Len(s2) = Len(s) /\ PutBelow(s2)
    /\ Busy(s2) /\ Begins(s2) /\ AtStep(s2, "INCOMING")
    /\ s2[1].new = at /\ s2[1].len = s[1].len /\ s2[1].cur = cur
    /\ NewEntry(s2[1]) = Entry(s[1].id, s[1].len, at) /\ Skip(s2) = cur

\* The stack once the record has its space.
LEMMA TakeShape ==
    ASSUME NEW t \in TabType, NEW s, NEW p, Shape(s, t.list, p), s # <<>>, s[1].f = "put",
           NEW b \in Block, b \notin Reclaims(s), NEW at \in Off, at \in CellsOf(b),
           \A c \in Block : c # b => at \notin CellsOf(c),
           \A k \in 1..Len(t.list) : t.list[k].off # at,
           Distinct(t.list), NEW t2, NEW cur, Listing(t, t2, s[1], cur, at),
           NEW s2, s2 = PushOn(Placing(s[1], cur, at), Tail(s))
    PROVE  Installed(s, s2, t2.list, p, cur, at)
<1> DEFINE f == s[1]
           g == Placing(f, cur, at)
           e == Entry(f.id, f.len, at)
<1>1. f \in PutType /\ PutOK(f, t.list)
  BY TopIs
<1>2. /\ Distinct(t2.list) /\ Range(t2.list) \ {e} = Range(t.list) /\ e \in EntryType
      /\ cur \in Off \cup {NoOff}
      /\ cur = NoOff => e \in Range(t2.list)
  <2>1. Listing(t, t2, f, cur, at) /\ Distinct(t.list) /\ at \in Off /\ Vacant(t, at)
    BY DEF Vacant
  <2>2. t \in TabType /\ e = Entry(f.id, f.len, at) /\ f \in PutType
    BY <1>1
  <2> HIDE DEF e, f
  <2> QED BY ONLY <2>1, <2>2, ListingIs
<1>3. /\ g \in PutType /\ g.f = "put" /\ g.who = f.who /\ g.id = f.id /\ g.len = f.len
      /\ g.cur = cur /\ g.new = at /\ g.step = "INCOMING" /\ NewEntry(g) = e
  BY <1>1, <1>2, PlacingIs
<1> HIDE DEF g, e
<1>4. \/ cur = NoOff /\ f.who = "write"
      \/ /\ cur # NoOff /\ t2.list = t.list
         /\ \E k \in 1..Len(t.list) : t.list[k].off = cur /\ t.list[k].id = f.id
         /\ f.who = "move" => cur = f.cur
  BY DEF Listing
<1>5. PutOK(g, t2.list)
  BY <1>2, <1>3, <1>4 DEF PutOK
<1>6. f.who = "move" =>
        /\ g.cur = f.cur
        /\ \E k \in 1..Len(t2.list) : t2.list[k] = Entry(g.id, g.len, g.cur)
        /\ \A d \in Reclaims(s) : g.new \notin CellsOf(d)
  <2>1. ASSUME f.who = "move"
        PROVE  /\ g.cur = f.cur
               /\ \E k \in 1..Len(t2.list) : t2.list[k] = Entry(g.id, g.len, g.cur)
               /\ \A d \in Reclaims(s) : g.new \notin CellsOf(d)
    <3>1. PICK d \in Block : MoveFrame(f, d, t.list) /\ Reclaims(s) = {d}
      BY <2>1, TopIs
    <3>2. \E k \in 1..Len(t.list) : t.list[k] = Entry(f.id, f.len, f.cur)
      BY <3>1 DEF MoveFrame
    <3>3. "move" # "write"
      OBVIOUS
    <3>4. cur = f.cur /\ t2.list = t.list
      BY <1>4, <2>1, <3>3
    <3>5. at \notin CellsOf(d)
      BY <3>1
    <3> QED BY <1>3, <3>1, <3>2, <3>4, <3>5
  <2> QED BY <2>1
<1>7. s2 = PushOn(g, Tail(s))
  BY DEF g
<1>8. /\ Shape(s2, t2.list, p) /\ Reclaims(s2) = Reclaims(s) /\ Len(s2) = Len(s)
      /\ s2[1] = g /\ PutBelow(s2)
  BY <1>3, <1>5, <1>6, <1>7, Refaced
<1>9. s2 # <<>>
  BY <1>8 DEF PutBelow
<1>10. Busy(s2) /\ Begins(s2) /\ AtStep(s2, "INCOMING")
  BY <1>3, <1>8, <1>9 DEF Busy, Begins, AtStep
<1>11. Skip(s2) = cur
  BY <1>3, <1>8, <1>10 DEF Skip
<1> QED BY <1>3, <1>8, <1>10, <1>11 DEF e, Installed

\* The blocks, when the record in the making is not counted.
Starting(s, s2, at, n) == Reclaims(s2) = Reclaims(s) /\ Begins(s2) /\ s2[1].new = at /\ s2[1].len = n

\* The entries of the blocks are what they were when the record in the making
\* is not counted.
LEMMA BookedBare ==
    ASSUME NEW fl, NEW t \in TabType, NEW s, NEW p, Ready(fl, t, s, p), NEW n \in RecLen, NEW at, NEW b,
           Taken(fl, t, s, at, n, b), NEW t2, Booked(t, t2, b, n), NEW s2, Starting(s, s2, at, n)
    PROVE  \A c \in Block : BareBlocks(t2, s2)[c] = BareBlocks(t, s)[c]
<1>1. /\ b \in Block /\ b \notin Reclaims(s) /\ at \in CellsOf(b) /\ t.blk[b].used \in Nat
      /\ t.blk[b].valid \in Nat /\ \A c \in Block : c # b => at \notin CellsOf(c)
  BY DEF Taken
<1>2. /\ \A c \in Block : c # b => t2.blk[c] = t.blk[c]
      /\ t2.blk[b] = [valid |-> t.blk[b].valid + 1, used |-> t.blk[b].used + n,
                      wasted |-> t.blk[b].wasted]
      /\ t2 \in TabType
  BY DEF Booked
<1>3. ~Begins(s) /\ Reclaims(s2) = Reclaims(s) /\ Begins(s2) /\ s2[1].new = at /\ s2[1].len = n
  BY DEF Ready, Starting
<1>4. ASSUME NEW c \in Block, c # b PROVE BareBlock(t2, s2, c) = BareBlock(t, s, c)
  <2>1. at \notin CellsOf(c) /\ t2.blk[c] = t.blk[c]
    BY <1>1, <1>2, <1>4
  <2> QED BY <2>1, <1>3 DEF BareBlock
<1>5. BareBlock(t2, s2, b) = t.blk[b]
  <2> DEFINE x == t.blk[b]
             y == t2.blk[b]
  <2>1. BareBlock(t2, s2, b) = [valid |-> y.valid - 1, used |-> y.used - n, wasted |-> y.wasted]
    BY <1>1, <1>3 DEF BareBlock
  <2>2. x \in BlockType /\ x.valid \in Int /\ x.used \in Int
    BY <1>1, TabIs DEF TabType
  <2>3. x = [valid |-> x.valid, used |-> x.used, wasted |-> x.wasted]
    BY <2>2 DEF BlockType
  <2>4. y.valid = x.valid + 1 /\ y.used = x.used + n /\ y.wasted = x.wasted
    BY <1>2
  <2>5. n \in Int
    BY Sizes
  <2> HIDE DEF x, y
  <2>6. y.valid - 1 = x.valid /\ y.used - n = x.used
    BY <2>2, <2>4, <2>5
  <2>7. BareBlock(t2, s2, b) = x
    BY <2>1, <2>3, <2>4, <2>6
  <2> QED BY <2>7 DEF x
<1>6. BareBlocks(t, s)[b] = t.blk[b]
  BY <1>1, <1>3, BareBlockIs
<1> QED BY <1>2, <1>4, <1>5, <1>6, BareBlockIs

\* Together: the invariant holds once space is taken.
LEMMA TakeStep ==
    ASSUME NEW fl, NEW t \in TabType, NEW s, NEW p, Running(fl, t, s, p), s # <<>>, s[1].f = "put",
           AtStep(s, "space"), NEW at, NEW b, Taken(fl, t, s, at, s[1].len, b),
           NEW t2, Booked(t, t2, b, s[1].len), NEW cur, Listing(t, t2, s[1], cur, at),
           NEW s2, s2 = PushOn(Placing(s[1], cur, at), Tail(s))
    PROVE  Running(fl, t2, s2, p) /\ t2 \in TabType /\ PutBelow(s2)
<1> DEFINE f == s[1]
           n == f.len
           e == Entry(f.id, f.len, at)
<1>1. ~Busy(s)
  BY DEF Busy, AtStep
<1>2. Ready(fl, t, s, p)
  BY <1>1, ReadyIs
<1>3. Shape(s, t.list, p) /\ Distinct(t.list) /\ t.inc = NoOff /\ t.out = NoOff /\ t.unsynced = 0
  BY <1>2 DEF Ready
<1>4. f \in PutType /\ n \in RecLen /\ f.id \in Id /\ n \in Nat
  BY <1>3, TopIs, Sizes DEF PutType
<1>5. /\ b \in Block /\ b \notin Reclaims(s) /\ at = Base(b) + t.blk[b].used
      /\ at \in CellsOf(b) /\ at \in Off /\ at \in Nat /\ Base(b) <= at
      /\ t.blk[b].used \in Nat /\ t.blk[b].valid \in Nat /\ t.blk[b].used + n <= BlockSize
      /\ \A k \in 1..Len(t.list) : t.list[k].off # at
      /\ \A c \in Block : c # b => at \notin CellsOf(c)
  BY DEF Taken
<1>50. /\ b \in Block /\ b \notin Reclaims(s) /\ at \in CellsOf(b) /\ at \in Off
       /\ \A k \in 1..Len(t.list) : t.list[k].off # at
       /\ \A c \in Block : c # b => at \notin CellsOf(c)
  BY <1>5
<1>40. f \in PutType /\ n \in RecLen /\ Distinct(t.list) /\ Shape(s, t.list, p)
  BY <1>3, <1>4
<1>6. /\ t2 \in TabType /\ t2.inc = t.inc /\ t2.out = t.out /\ t2.unsynced = t.unsynced + 2
      /\ t2.blk[b].valid = t.blk[b].valid + 1 /\ t2.blk[b].used = t.blk[b].used + n
  BY DEF Booked
<1>7. /\ Distinct(t2.list) /\ Range(t2.list) \ {e} = Range(t.list)
  <2>1. Listing(t, t2, f, cur, at) /\ e = Entry(f.id, f.len, at) /\ t \in TabType
    OBVIOUS
  <2>2. Vacant(t, at) /\ at \in Off
    BY <1>50 DEF Vacant
  <2>3. f \in PutType /\ Distinct(t.list)
    BY <1>40
  <2> HIDE DEF f, e
  <2> QED BY ONLY <2>1, <2>2, <2>3, ListingIs
<1>8. /\ Shape(s2, t2.list, p) /\ Reclaims(s2) = Reclaims(s) /\ Len(s2) = Len(s) /\ PutBelow(s2)
      /\ Busy(s2) /\ Begins(s2) /\ AtStep(s2, "INCOMING")
      /\ s2[1].new = at /\ s2[1].len = n /\ s2[1].cur = cur
      /\ NewEntry(s2[1]) = e /\ Skip(s2) = cur
  <2>1. /\ s # <<>> /\ s[1].f = "put" /\ Listing(t, t2, s[1], cur, at) /\ t \in TabType
        /\ s2 = PushOn(Placing(s[1], cur, at), Tail(s))
    OBVIOUS
  <2>2. Installed(s, s2, t2.list, p, cur, at)
    BY ONLY <2>1, <1>40, <1>50, TakeShape, Zenon
  <2> QED BY <2>2 DEF Installed
<1>9. \A c \in Block : BareBlocks(t2, s2)[c] = BareBlocks(t, s)[c]
  <2>1. Taken(fl, t, s, at, n, b) /\ Booked(t, t2, b, n) /\ t \in TabType
    OBVIOUS
  <2>2. Starting(s, s2, at, n) /\ n \in RecLen
    BY <1>8, <1>40 DEF Starting
  <2> HIDE DEF n
  <2> QED BY ONLY <2>1, <2>2, <1>2, BookedBare
<1>10. Bare(fl, t2, s2)
  <2>1. Store(fl, NoOff, NoOff, BareBlocks(t, s), Range(t.list))
    BY <1>2 DEF Ready
  <2>2. Store(fl, NoOff, NoOff, BareBlocks(t2, s2), Range(t.list))
    BY ONLY <2>1, <1>9, StoreBlocks
  <2>3. BareFlash(fl, s2) = fl
    BY <1>8 DEF BareFlash, AtStep
  <2>4. BareInc(t2, s2) = NoOff /\ t2.out = NoOff
    BY <1>3, <1>6, <1>8 DEF BareInc
  <2>5. BareEntries(t2, s2) = Range(t.list)
    BY <1>7, <1>8 DEF BareEntries
  <2> QED BY <2>2, <2>3, <2>4, <2>5 DEF Bare
<1>11. Tracking(t2, s2, p)
  <2>1. t2.unsynced = 2
    BY <1>3, <1>6
  <2> QED BY <2>1, <1>3, <1>6, <1>8 DEF Tracking, AtStep
<1>12. MovesOne(t, t2, s, s2, n)
  <2>1. ASSUME Reclaims(s) # {}
        PROVE  /\ t2.list = t.list
               /\ \E d \in Block : /\ Reclaims(s) = {d}
                     /\ \E x \in Range(t.list) : x.off = Skip(s2) /\ x.off \in CellsOf(d) /\ x.len = n
    <3>1. PICK d \in Block : f.who = "move" /\ MoveFrame(f, d, t.list) /\ Reclaims(s) = {d}
      BY <1>3, <2>1, TopIs
    <3>2. cur = f.cur /\ t2.list = t.list
      <4>1. "move" # "write"
        OBVIOUS
      <4> QED BY <4>1, <3>1 DEF Listing
    <3>3. f.cur \in CellsOf(d)
      BY <3>1 DEF MoveFrame
    <3>4. PICK k \in 1..Len(t.list) : t.list[k] = Entry(f.id, f.len, f.cur)
      BY <3>1 DEF MoveFrame
    <3>5. t.list[k] \in Range(t.list) /\ t.list[k].off = f.cur /\ t.list[k].len = n
      <4>1. t.list[k] \in Range(t.list)
        BY <1>3, ListIs
      <4> QED BY <4>1, <3>4, EntryFields
    <3> QED BY <3>1, <3>2, <3>3, <3>5, <1>8
  <2> QED BY <2>1, <1>8 DEF MovesOne
<1>13. FreeKept(t2, s2)
  <2>1. Taken(fl, t, s, at, n, b) /\ Booked(t, t2, b, n) /\ t \in TabType
    OBVIOUS
  <2> HIDE DEF n
  <2> QED BY ONLY <2>1, <1>2, <1>4, <1>12, FreeKeptTaken
<1>14. BehindLast(fl, t2, s2)
  <2> DEFINE u == t.blk[b].used
             u2 == t2.blk[b].used
             v == t.blk[b].valid
  <2>1. u2 = u + n /\ at = Base(b) + u /\ u \in Nat /\ u + n <= BlockSize /\ v \in Nat /\ t2.blk[b].valid = v + 1
    BY <1>5, <1>6
  <2>2. Base(b) \in Nat
    BY <1>5, BlockCells
  <2> HIDE DEF u, u2, n, v
  <2>3. at = Base(b) + u2 - n /\ u2 <= BlockSize /\ t2.blk[b].valid >= 1
    BY <2>1, <2>2, <1>4
  <2>4. "data" # "INCOMING"
    OBVIOUS
  <2> QED BY <2>3, <2>4, <1>5, <1>8, Zenon DEF BehindLast, u2, AtStep
<1>15. Running(fl, t2, s2, p)
  BY <1>7, <1>8, <1>10, <1>11, <1>13, <1>14 DEF Running
<1> QED BY <1>6, <1>8, <1>15

\* A block that is being reclaimed, while one of its records moves.
LEMMA MovingIs ==
    ASSUME NEW fl, NEW t \in TabType, NEW s, NEW p, Ready(fl, t, s, p), NEW d \in Block,
           Reclaims(s) = {d}, MoveFrame(s[1], d, t.list)
    PROVE  /\ t.blk[d].valid < 0 /\ t.blk[d].valid \in Int
           /\ Cardinality(Rest(t.list, NoOff, d)) \in Nat
           /\ s[1].len <= Cardinality(Rest(t.list, NoOff, d))
<1>1. PICK k \in 1..Len(t.list) : t.list[k] = Entry(s[1].id, s[1].len, s[1].cur)
  BY DEF MoveFrame
<1>2. s[1].cur \in CellsOf(d)
  BY DEF MoveFrame
<1> DEFINE e == t.list[k]
<1>3. e \in Range(t.list) /\ e.off = s[1].cur /\ e.len = s[1].len /\ e.off \in CellsOf(d)
  <2>1. e \in Range(t.list)
    BY ListIs DEF Ready
  <2> QED BY <2>1, <1>1, <1>2, EntryFields
<1> HIDE DEF e
<1>4. t.blk[d].valid < 0 /\ t.blk[d].valid \in Int
  <2>1. d \in Reclaims(s)
    OBVIOUS
  <2> QED BY <1>3, <2>1, BlocksAre, Zenon
<1>5. Store(fl, NoOff, NoOff, BareBlocks(t, s), Range(t.list))
  BY DEF Ready
<1> DEFINE x == Cardinality(Rest(t.list, NoOff, d))
           y == Cardinality(Rest(t.list, e.off, d))
<1>6. x \in Nat /\ y \in Nat /\ x = y + e.len
  BY ONLY <1>3, <1>5, RestIs
<1>7. e.len \in Nat
  <2>1. e.len \in RecLen
    BY ONLY <1>3, <1>5, EntryHeld
  <2> QED BY <2>1, Sizes
<1> HIDE DEF x, y
<1>8. e.len <= x
  BY <1>6, <1>7
<1> QED BY <1>3, <1>4, <1>6, <1>8 DEF x

\* A block is reclaimed below a record only while it has records.
LEMMA ReclaimedIs ==
    ASSUME NEW fl, NEW t \in TabType, NEW s, NEW p, Ready(fl, t, s, p), s # <<>>, s[1].f = "put"
    PROVE  \A d \in Reclaims(s) : d \in Block /\ t.blk[d].valid < 0
<1>1. Shape(s, t.list, p)
  BY DEF Ready
<1>2. Reclaims(s) = {} \/ \E d \in Block : Reclaims(s) = {d} /\ MoveFrame(s[1], d, t.list)
  BY <1>1, TopIs
<1> QED BY <1>2, MovingIs, Zenon

\* Two blocks that are free or being reclaimed are more than one.
LEMMA TwoSpare ==
    ASSUME NEW t, NEW b \in Spare(t), NEW d \in Spare(t), b # d
    PROVE  Cardinality(Spare(t)) > 1
<1>1. {b, d} \subseteq Spare(t)
  OBVIOUS
<1>2. IsFiniteSet(Spare(t))
  <2>1. Spare(t) \subseteq 0..(NumBlocks - 1) /\ NumBlocks - 1 \in Int /\ 0 \in Int
    BY Sizes DEF Spare, Block
  <2>2. IsFiniteSet(0..(NumBlocks - 1))
    BY <2>1, FS_Interval
  <2> QED BY <2>1, <2>2, FS_Subset
<1>3. Cardinality({b, d}) = 2
  <2>1. IsFiniteSet({d}) /\ Cardinality({d}) = 1
    BY FS_Singleton, Zenon
  <2>2. {b, d} = {d} \cup {b} /\ b \notin {d}
    OBVIOUS
  <2>3. Cardinality({d} \cup {b}) = Cardinality({d}) + 1
    BY <2>1, <2>2, FS_AddElement, Zenon
  <2> QED BY <2>1, <2>2, <2>3
<1>4. Cardinality({b, d}) <= Cardinality(Spare(t)) /\ Cardinality(Spare(t)) \in Nat
  BY <1>1, <1>2, FS_Subset, FS_CardinalityType
<1> QED BY <1>3, <1>4

\* A relocation finds space without a reclaim of its own: if no block has
\* room, a free block and the block being reclaimed are two spare ones.
LEMMA RoomToMove ==
    ASSUME NEW fl, NEW t \in TabType, NEW s, NEW p, Ready(fl, t, s, p), NEW d \in Block,
           Reclaims(s) = {d}, MoveFrame(s[1], d, t.list), s[1].len \in Nat,
           \A b \in Block : ~RoomIn(t, b, s[1].len)
    PROVE  Cardinality(Spare(t)) > 1 /\ \E b \in Block : IsFree(t, b)
<1>1. /\ t.blk[d].valid < 0 /\ t.blk[d].valid \in Int
      /\ Cardinality(Rest(t.list, NoOff, d)) \in Nat
      /\ s[1].len <= Cardinality(Rest(t.list, NoOff, d))
  BY MovingIs, Zenon
<1>2. FreeKept(t, s) /\ Skip(s) = NoOff
  BY DEF Ready
<1>3. \A b \in Block : ~Room(t, s, b)
  <2>1. ASSUME NEW b \in Block, Room(t, s, b) PROVE FALSE
    <3> DEFINE x == Cardinality(Rest(t.list, NoOff, d))
               u == t.blk[b].used
               n == s[1].len
    <3>1. t.blk[b].valid > 0 /\ u + x <= BlockSize
      BY <1>2, <2>1 DEF Room
    <3>2. u \in Int /\ x \in Nat /\ n \in Nat /\ n <= x /\ BlockSize \in Nat
      BY <1>1, TabIs, Sizes
    <3> HIDE DEF x, u, n
    <3>3. u + n <= BlockSize
      BY <3>1, <3>2
    <3>4. RoomIn(t, b, n)
      BY <3>1, <3>3 DEF RoomIn, u
    <3> QED BY <3>4 DEF n
  <2> QED BY <2>1
<1>4. PICK b \in Block : IsFree(t, b)
  BY <1>2, <1>3 DEF FreeKept
<1>5. b # d
  <2>1. t.blk[b].valid = 0
    BY <1>4 DEF IsFree, EmptyBlock
  <2> QED BY <2>1, <1>1
<1>6. b \in Spare(t) /\ d \in Spare(t)
  BY <1>1, <1>4 DEF Spare
<1> QED BY <1>4, <1>5, <1>6, TwoSpare

\* TakeSpace. What TakeSpace makes of the tables and the stack.
Taking(t, s, space, cur, t2, s2) ==
    /\ space = FindFreeSpace(t, s[1].len, FALSE) /\ space.how = "found"
    /\ cur = IF s[1].who = "write" THEN FoundOffset(t, s[1].id) ELSE s[1].cur
    /\ t2 = IF cur = NoOff
              THEN AllocateNew(Prepare(t, space.at, s[1].len), Entry(s[1].id, s[1].len, space.at))
              ELSE Unsync(Prepare(t, space.at, s[1].len), 1)
    /\ s2 = PushOn(Placing(s[1], cur, space.at), Tail(s))

\* TakeSpace takes space in a block, and adds an entry or leaves the list.
LEMMA TakingIs ==
    ASSUME NEW fl, NEW t \in TabType, NEW s, NEW p, Running(fl, t, s, p), s # <<>>, s[1].f = "put",
           AtStep(s, "space"), NEW space, NEW cur, NEW t2, NEW s2, Taking(t, s, space, cur, t2, s2)
    PROVE  \E b \in Block : /\ Taken(fl, t, s, space.at, s[1].len, b)
                            /\ Booked(t, t2, b, s[1].len) /\ Listing(t, t2, s[1], cur, space.at)
<1>0. /\ space = FindFreeSpace(t, s[1].len, FALSE) /\ space.how = "found"
      /\ cur = IF s[1].who = "write" THEN FoundOffset(t, s[1].id) ELSE s[1].cur
      /\ t2 = IF cur = NoOff
                THEN AllocateNew(Prepare(t, space.at, s[1].len), Entry(s[1].id, s[1].len, space.at))
                ELSE Unsync(Prepare(t, space.at, s[1].len), 1)
      /\ s2 = PushOn(Placing(s[1], cur, space.at), Tail(s))
  BY Zenon DEF Taking
<1> USE <1>0
<1> DEFINE f == s[1]
           n == f.len
           at == space.at
           e == Entry(f.id, n, at)
<1>1. ~Busy(s)
  BY DEF Busy, AtStep
<1>2. Ready(fl, t, s, p)
  BY <1>1, ReadyIs
<1>3. Shape(s, t.list, p) /\ Distinct(t.list) /\ t.inc = NoOff /\ t.out = NoOff
  BY <1>2 DEF Ready
<1>4. f \in PutType /\ n \in RecLen /\ f.id \in Id /\ f.who \in {"write", "move"}
  BY <1>3, TopIs DEF PutType
<1>5. \A d \in Reclaims(s) : d \in Block /\ t.blk[d].valid < 0
  BY <1>2, ReclaimedIs
<1>6. PICK b \in Block : Taken(fl, t, s, at, n, b)
  <2>1. space = FindFreeSpace(t, n, FALSE) /\ space.how = "found" /\ t \in TabType
    BY Zenon
  <2> HIDE DEF n
  <2>2. \E b \in Block : Taken(fl, t, s, space.at, n, b)
    <3>1. \E b : Taken(fl, t, s, space.at, n, b)
      BY ONLY <2>1, <1>2, <1>4, <1>5, TakenIs, Zenon
    <3> QED BY <3>1, Zenon DEF Taken
  <2> QED BY <2>2, Zenon
<1>7. b \in Block /\ at \in CellsOf(b) /\ at \in Off
  BY <1>6, Zenon DEF Taken
<1>8. n \in Int
  BY <1>4, Sizes
<1>9. Booked(t, t2, b, n) /\ Listing(t, t2, f, cur, at)
  <2>1. e \in EntryType
    BY <1>4, <1>7, Zenon DEF Entry, EntryType
  <2>2. \/ cur = NoOff /\ f.who = "write" /\ \A k \in 1..Len(t.list) : t.list[k].id # f.id
        \/ /\ cur # NoOff /\ cur \in Off
           /\ \E k \in 1..Len(t.list) : t.list[k].off = cur /\ t.list[k].id = f.id
           /\ f.who = "move" => cur = f.cur
    <3>1. CASE f.who = "write"
      <4>1. cur = FoundOffset(t, f.id)
        BY <3>1
      <4> QED BY <4>1, <3>1, <1>3, FoundIs
    <3>2. CASE f.who = "move"
      <4>1. cur = f.cur
        BY <3>2
      <4>2. PICK d \in Block : MoveFrame(f, d, t.list)
        BY <3>2, <1>3, TopIs
      <4>3. PICK k \in 1..Len(t.list) : t.list[k] = Entry(f.id, f.len, f.cur)
        BY <4>2 DEF MoveFrame
      <4>4. t.list[k].off = f.cur /\ t.list[k].id = f.id
        BY <4>3, EntryFields
      <4>5. f.cur \in Off /\ f.cur # NoOff
        BY <4>2, BlockCells, LayoutAssumption DEF MoveFrame
      <4> QED BY <4>1, <4>4, <4>5
    <3> QED BY <1>4, <3>1, <3>2
  <2>3. CASE cur = NoOff
    <3>1. t2 = AllocateNew(Prepare(t, at, n), e)
      BY <2>3, Zenon
    <3> HIDE DEF e, n, at
    <3>2. Booked(t, t2, b, n) /\ t2.list = Append(t.list, e)
      BY ONLY <3>1, <2>1, <1>7, <1>8, t \in TabType, BookedNew
    <3> QED BY <3>2, <2>2, <2>3, Zenon DEF Listing, e, n
  <2>4. CASE cur # NoOff
    <3>1. t2 = Unsync(Prepare(t, at, n), 1)
      BY <2>4
    <3> HIDE DEF e, n, at
    <3>2. Booked(t, t2, b, n) /\ t2.list = t.list
      BY ONLY <3>1, <1>7, <1>8, t \in TabType, BookedOld
    <3> QED BY <3>2, <2>2, <2>4, Zenon DEF Listing
  <2> QED BY <2>3, <2>4, Zenon
<1> QED BY <1>6, <1>9, Zenon DEF at, n, f

\* TakeSpace keeps the invariant.
LEMMA TakeSpaceIs ==
    ASSUME NEW fl, NEW t \in TabType, NEW s, NEW p, Running(fl, t, s, p), s # <<>>, s[1].f = "put",
           AtStep(s, "space"), NEW space, NEW cur, NEW t2, NEW s2, Taking(t, s, space, cur, t2, s2)
    PROVE  Running(fl, t2, s2, p) /\ t2 \in TabType /\ PutBelow(s2)
<1>1. PICK b \in Block : /\ Taken(fl, t, s, space.at, s[1].len, b)
                        /\ Booked(t, t2, b, s[1].len) /\ Listing(t, t2, s[1], cur, space.at)
  BY TakingIs, Zenon
<1>2. s2 = PushOn(Placing(s[1], cur, space.at), Tail(s))
  BY Zenon DEF Taking
<1> QED BY <1>1, <1>2, TakeStep, Zenon

(***************************************************************************)
(* Space is made (ErstReclaimBlock, ErstRelocateRecord), or refused.       *)
(***************************************************************************)

\* When no block has room and none may be taken, the record is one of the OS.
NoRoom(t, n) ==
    /\ \A b \in Block : ~RoomIn(t, b, n)
    /\ ~(Cardinality(Spare(t)) > 1 /\ \E b \in Block : IsFree(t, b))

\* So a record for which no block has room, and none may be taken, is one of
\* the OS.
LEMMA NoRoomIs ==
    ASSUME NEW fl, NEW t \in TabType, NEW s, NEW p, Ready(fl, t, s, p), s # <<>>, s[1].f = "put",
           NoRoom(t, s[1].len)
    PROVE  /\ WriteFrame(s[1], t.list, p) /\ s = Stack1(s[1]) /\ Reclaims(s) = {} /\ Len(s) = 1
           /\ s[1] \in PutType
<1>1. Shape(s, t.list, p)
  BY DEF Ready
<1>2. \/ WriteFrame(s[1], t.list, p) /\ s = Stack1(s[1]) /\ Reclaims(s) = {} /\ Len(s) = 1
      \/ \E b \in Block : Reclaims(s) = {b} /\ MoveFrame(s[1], b, t.list)
  BY <1>1, TopIs
<1>3. s[1] \in PutType /\ s[1].len \in Nat
  BY <1>1, TopIs, Sizes DEF PutType
<1>4. ASSUME NEW b \in Block, Reclaims(s) = {b}, MoveFrame(s[1], b, t.list) PROVE FALSE
  <2>1. \A c \in Block : ~RoomIn(t, c, s[1].len)
    BY DEF NoRoom
  <2>2. Cardinality(Spare(t)) > 1 /\ \E c \in Block : IsFree(t, c)
    BY ONLY <1>3, <1>4, <2>1, Ready(fl, t, s, p), t \in TabType, RoomToMove
  <2> QED BY <2>2 DEF NoRoom
<1> QED BY <1>2, <1>3, <1>4

\* The mark of a reclaim is not counted in what the blocks hold.
LEMMA ReclaimingBare ==
    ASSUME NEW t \in TabType, NEW b \in Block, NEW t2 \in TabType,
           \A c \in Block : c # b => t2.blk[c] = t.blk[c],
           t2.blk[b] = [valid |-> -t.blk[b].valid, used |-> t.blk[b].used, wasted |-> t.blk[b].wasted],
           NEW s, ~Begins(s), Reclaims(s) = {}, NEW s2, ~Begins(s2), Reclaims(s2) = {b}
    PROVE  \A c \in Block : BareBlocks(t2, s2)[c] = BareBlocks(t, s)[c]
<1>1. SUFFICES ASSUME NEW c \in Block PROVE BareBlocks(t2, s2)[c] = BareBlocks(t, s)[c]
  OBVIOUS
<1>2. BareBlocks(t, s)[c] = t.blk[c]
  BY BareBlockIs
<1>3. CASE c # b
  <2>1. BareBlocks(t2, s2)[c] = t2.blk[c]
    BY <1>3, BareBlockIs
  <2> QED BY <1>2, <1>3, <2>1
<1>4. CASE c = b
  <2>1. BareBlocks(t2, s2)[b] = [valid |-> -t2.blk[b].valid, used |-> t2.blk[b].used, wasted |-> t2.blk[b].wasted]
    BY BareBlockIs
  <2> DEFINE x == t.blk[b]
             y == t2.blk[b]
  <2>2. x \in BlockType
    BY DEF TabType
  <2>3. y = [valid |-> -x.valid, used |-> x.used, wasted |-> x.wasted]
    OBVIOUS
  <2>4. x = [valid |-> x.valid, used |-> x.used, wasted |-> x.wasted] /\ x.valid \in Int
    BY <2>2 DEF BlockType
  <2> HIDE DEF x, y
  <2>5. y.valid = -x.valid /\ y.used = x.used /\ y.wasted = x.wasted
    BY <2>3
  <2>6. -y.valid = x.valid
    BY <2>4, <2>5
  <2>7. [valid |-> -y.valid, used |-> y.used, wasted |-> y.wasted] = x
    BY <2>4, <2>5, <2>6
  <2> QED BY <1>2, <1>4, <2>1, <2>7 DEF x, y
<1> QED BY <1>3, <1>4

\* StartReclaim keeps the invariant: what is live in the block fits a free
\* block.
LEMMA StartReclaimIs ==
    ASSUME NEW fl, NEW t \in TabType, NEW s, NEW p, Running(fl, t, s, p), s # <<>>, s[1].f = "put",
           AtStep(s, "space"), NEW space, space = FindFreeSpace(t, s[1].len, FALSE), space.how = "reclaim",
           NEW t2, t2 = Reclaiming(t, space.at), NEW s2, s2 = PushOn(ReclaimFrame(space.at), s)
    PROVE  Running(fl, t2, s2, p) /\ t2 \in TabType /\ PutBelow(s2)
<1> DEFINE f == s[1]
           b == space.at
<1>1. ~Busy(s)
  BY DEF Busy, AtStep
<1>2. Ready(fl, t, s, p)
  BY <1>1, ReadyIs
<1>3. /\ Store(fl, NoOff, NoOff, BareBlocks(t, s), Range(t.list)) /\ Distinct(t.list)
      /\ t.inc = NoOff /\ t.out = NoOff /\ t.unsynced = 0 /\ ~Begins(s) /\ FreeKept(t, s)
  BY <1>2 DEF Ready
<1>4. NoRoom(t, f.len) /\ b \in Block /\ t.blk[b].valid >= 0 /\ ~IsFree(t, b)
  <2>1. "reclaim" # "found" /\ "reclaim" # "none"
    OBVIOUS
  <2> QED BY <2>1, <1>3, SpaceIs, TabIs, Zenon DEF NoRoom
<1>5. WriteFrame(f, t.list, p) /\ s = Stack1(f) /\ Reclaims(s) = {} /\ Len(s) = 1 /\ f \in PutType
  <2>1. s # <<>> /\ s[1].f = "put" /\ t \in TabType /\ NoRoom(t, s[1].len)
    BY <1>4
  <2> QED BY ONLY <2>1, <1>2, NoRoomIs, Zenon
<1>6. /\ t2 \in TabType /\ Same(t2, t) /\ t2.unsynced = t.unsynced
      /\ \A c \in Block : c # b => t2.blk[c] = t.blk[c]
      /\ t2.blk[b] = [valid |-> -t.blk[b].valid, used |-> t.blk[b].used, wasted |-> t.blk[b].wasted]
  <2>1. t2 = Reclaiming(t, b)
    OBVIOUS
  <2> HIDE DEF b
  <2> QED BY ONLY <2>1, <1>4, t \in TabType, ReclaimingIs
<1>7. s2 = Stack2(b, f) /\ s2[1] = ReclaimFrame(b) /\ Len(s2) = 2 /\ Last(s2) = f /\ s2 # <<>> /\ Reclaims(s2) = {b}
  <2>1. Stack2(b, f) = PushOn(ReclaimFrame(b), Stack1(f))
    BY ONLY Stack2Is
  <2>2. s2 = Stack2(b, f)
    BY <2>1, <1>5, Zenon
  <2> HIDE DEF b, f
  <2> QED BY ONLY <2>2, Stack2Is
<1>8. f.step = "space" /\ f.f = "put"
  BY DEF AtStep
<1>9. ~Busy(s2)
  <2>1. ReclaimFrame(b).f = "reclaim"
    BY ONLY DEF ReclaimFrame
  <2>2. s2[1].f = "reclaim"
    BY <1>7, <2>1, Zenon
  <2> QED BY <2>2, Zenon DEF Busy
<1>10. ~Begins(s2) /\ Skip(s2) = NoOff
  BY <1>9, Zenon DEF Begins, Skip
<1> HIDE DEF b, f
<1>11. \A c \in Block : BareBlocks(t2, s2)[c] = BareBlocks(t, s)[c]
  BY ONLY <1>3, <1>4, <1>5, <1>6, <1>7, <1>10, t \in TabType, ReclaimingBare
<1>12. Bare(fl, t2, s2)
  <2>1. Store(fl, NoOff, NoOff, BareBlocks(t2, s2), Range(t.list))
    BY ONLY <1>3, <1>11, StoreBlocks
  <2>2. t2.inc = NoOff /\ t2.out = NoOff /\ t2.list = t.list
    BY <1>3, <1>6, Zenon DEF Same
  <2> QED BY <2>1, <2>2, <1>9, QuietIs, Zenon
<1>13. Shape(s2, t2.list, p) /\ Distinct(t2.list)
  <2>1. t2.list = t.list
    BY <1>6, Zenon DEF Same
  <2>2. Shape(Stack2(b, f), t.list, p)
    BY <1>4, <1>5, <1>8, ShapeTwo
  <2> QED BY <2>1, <2>2, <1>3, <1>7, Zenon
<1>14. Tracking(t2, s2, p)
  <2>1. t2.inc = NoOff /\ t2.out = NoOff /\ t2.unsynced = 0
    BY <1>3, <1>6, Zenon DEF Same
  <2> QED BY ONLY <2>1, <1>9 DEF Tracking
<1>15. FreeKept(t2, s2)
  <2>1. PICK c \in Block : IsFree(t, c)
    BY <1>3, <1>5 DEF FreeKept
  <2>2. c # b
    BY <2>1, <1>4
  <2>3. IsFree(t2, c)
    BY <2>1, <2>2, <1>6, Zenon DEF IsFree
  <2> QED BY <2>3, Zenon DEF FreeKept
<1>16. BehindLast(fl, t2, s2)
  BY <1>10, Zenon DEF BehindLast
<1>17. PutBelow(s2)
  BY <1>7, <1>8, Zenon DEF PutBelow
<1> QED BY <1>6, <1>12, <1>13, <1>14, <1>15, <1>16, <1>17, Zenon DEF Running

\* NoSpace keeps the invariant, and what was refused is a record of the OS
\* that no block has room for: one is free and all others hold records.
LEMMA NoSpaceIs ==
    ASSUME NEW fl, NEW t \in TabType, NEW s, NEW p, Running(fl, t, s, p), s # <<>>, s[1].f = "put",
           AtStep(s, "space"), NEW space, space = FindFreeSpace(t, s[1].len, FALSE), space.how = "none"
    PROVE  /\ Running(fl, t, <<>>, NoReq)
           /\ WriteFrame(s[1], t.list, p)
           /\ Store(fl, NoOff, NoOff, t.blk, Range(t.list))
           /\ \A b \in Block : /\ t.blk[b].valid = 0 => IsFree(t, b)
                               /\ t.blk[b].valid > 0 => ~(Live(t, b) + s[1].len <= BlockSize)
           /\ \E r \in Block : IsFree(t, r) /\ \A b \in Block \ {r} : t.blk[b].valid > 0
<1> DEFINE f == s[1]
<1>1. ~Busy(s)
  BY DEF Busy, AtStep
<1>2. Ready(fl, t, s, p)
  BY <1>1, ReadyIs
<1>3. /\ Store(fl, NoOff, NoOff, BareBlocks(t, s), Range(t.list)) /\ Distinct(t.list)
      /\ t.inc = NoOff /\ t.out = NoOff /\ t.unsynced = 0 /\ ~Begins(s) /\ FreeKept(t, s)
  BY <1>2 DEF Ready
<1>4. /\ NoRoom(t, f.len)
      /\ \A b \in Block : /\ t.blk[b].valid = 0 => IsFree(t, b)
                          /\ t.blk[b].valid > 0 => ~(Live(t, b) + f.len <= BlockSize)
  <2>1. "none" # "found" /\ "none" # "reclaim"
    OBVIOUS
  <2>2. /\ \A b \in Block : ~RoomIn(t, b, f.len)
        /\ ~(Cardinality(Spare(t)) > 1 /\ \E b \in Block : IsFree(t, b))
        /\ \A b \in Block : /\ t.blk[b].valid = 0 => IsFree(t, b)
                            /\ t.blk[b].valid > 0 => ~(Live(t, b) + f.len <= BlockSize)
    <3>1. /\ t.recent \in Block /\ t.out = NoOff /\ FALSE \in BOOLEAN
          /\ \A b \in Block : t.blk[b].valid \in Int
      BY <1>3, TabIs
    <3>2. space = FindFreeSpace(t, f.len, FALSE) /\ space.how = "none"
      BY Zenon
    <3> HIDE DEF f
    <3> QED BY ONLY <2>1, <3>1, <3>2, SpaceIs, Zenon
  <2> QED BY <2>2 DEF NoRoom
<1>5. WriteFrame(f, t.list, p) /\ Reclaims(s) = {} /\ Len(s) = 1
  <2>1. s # <<>> /\ s[1].f = "put" /\ t \in TabType /\ NoRoom(t, s[1].len)
    BY <1>4
  <2> QED BY ONLY <2>1, <1>2, NoRoomIs, Zenon
<1>6. \A c \in Block : t.blk[c] = BareBlocks(t, s)[c]
  BY <1>3, <1>5, BareBlockIs
<1>7. Store(fl, NoOff, NoOff, t.blk, Range(t.list))
  BY ONLY <1>3, <1>6, StoreBlocks
<1>8. \E b \in Block : IsFree(t, b)
  BY <1>3, <1>5 DEF FreeKept
<1>9. Running(fl, t, <<>>, NoReq)
  <2>1. t.unsynced \in Nat
    BY <1>3
  <2> QED BY <2>1, <1>3, <1>7, <1>8, IdleMade
<1>10. \E r \in Block : IsFree(t, r) /\ \A b \in Block \ {r} : t.blk[b].valid > 0
  <2>1. PICK r \in Block : IsFree(t, r)
    BY <1>8
  <2>2. ASSUME NEW b \in Block \ {r} PROVE t.blk[b].valid > 0
    <3>1. t.blk[b].valid \in Nat
      BY <1>7, Zenon DEF Store, BlockOK
    <3>2. ~IsFree(t, b)
      <4>1. ASSUME IsFree(t, b) PROVE FALSE
        <5>1. b \in Spare(t) /\ r \in Spare(t) /\ b # r
          BY <2>1, <2>2, <4>1 DEF Spare
        <5> QED BY <5>1, <2>1, <1>4, TwoSpare DEF NoRoom
      <4> QED BY <4>1
    <3>3. t.blk[b].valid # 0
      BY <1>4, <3>2
    <3> QED BY <3>1, <3>3
  <2> QED BY <2>1, <2>2
<1> QED BY <1>4, <1>5, <1>7, <1>9, <1>10

\* The frames of a reclaim: below it is the write that needs the space.
LEMMA ReclaimTop ==
    ASSUME NEW s, NEW list, NEW p, Shape(s, list, p), s # <<>>, s[1].f = "reclaim"
    PROVE  \E b \in Block, w \in PutType :
             /\ s = Stack2(b, w) /\ WriteFrame(w, list, p) /\ w.step = "space" /\ w.f = "put"
             /\ s[1].b = b /\ Reclaims(s) = {b} /\ Len(s) = 2 /\ Tail(s) = Stack1(w)
<1>1. \A f \in PutType : f.f = "put" /\ "put" # "reclaim"
  BY DEF PutType
<1>2. ~ \E f \in PutType : s = Stack1(f)
  <2>1. ASSUME NEW f \in PutType, s = Stack1(f) PROVE FALSE
    <3>1. s[1] = f
      BY ONLY <2>1, Stack1Is
    <3> QED BY <3>1, <1>1
  <2> QED BY <2>1
<1>3. ~ \E b \in Block, w \in PutType, f \in PutType : s = Stack3(f, b, w)
  <2>1. ASSUME NEW b \in Block, NEW w \in PutType, NEW f \in PutType, s = Stack3(f, b, w) PROVE FALSE
    <3>1. s[1] = f
      BY ONLY <2>1, Stack3Is
    <3> QED BY <3>1, <1>1
  <2> QED BY <2>1
<1>4. PICK b \in Block, w \in PutType : s = Stack2(b, w) /\ WriteFrame(w, list, p) /\ w.step = "space"
  BY <1>2, <1>3, ShapeIs
<1>5. s[1] = ReclaimFrame(b) /\ Len(s) = 2 /\ Reclaims(s) = {b} /\ Tail(s) = Stack1(w)
  BY ONLY <1>4, Stack2Is
<1>6. ReclaimFrame(b).b = b
  BY ONLY DEF ReclaimFrame
<1> QED BY <1>1, <1>4, <1>5, <1>6

\* The first record of the block in the list.
FirstIn(t, b) == SelectInSeq(t.list, LAMBDA e : BlockOf(e.off) = b)

\* A block with records has a first one in the list.
LEMMA FirstInIs ==
    ASSUME NEW t, Distinct(t.list), NEW b \in Block, NEW e \in Range(t.list), e.off \in CellsOf(b)
    PROVE  FirstIn(t, b) \in 1..Len(t.list) /\ t.list[FirstIn(t, b)].off \in CellsOf(b)
<1> DEFINE T == {k \in 1..Len(t.list) : BlockOf(t.list[k].off) = b}
<1>1. Len(t.list) \in Nat /\ \A k \in 1..Len(t.list) : t.list[k].off \in Off
  BY ListIs
<1>2. T # {}
  <2>1. PICK k \in 1..Len(t.list) : t.list[k] = e
    BY ListIs
  <2>2. BlockOf(e.off) = b
    BY BlockCells
  <2> QED BY <2>1, <2>2
<1>3. T \subseteq Nat
  BY <1>1
<1>4. Min(T) \in T
  BY <1>2, <1>3, MinOf, Zenon
<1>5. FirstIn(t, b) = Min(T)
  BY <1>2 DEF FirstIn, SelectInSeq
<1> DEFINE k == Min(T)
<1>6. k \in 1..Len(t.list) /\ BlockOf(t.list[k].off) = b
  BY <1>4
<1>7. t.list[k].off \in CellsOf(b)
  BY <1>1, <1>6, CellsBlock, Zenon
<1> QED BY <1>5, <1>6, <1>7

\* The frame that relocates the record e.
Moving(e, v) == PutFrame("move", e.id, e.len, v, e.off, NoOff, "space")

\* The frame of a relocation.
LEMMA MovingFrame ==
    ASSUME NEW e \in EntryType, NEW v \in Val \cup {NoVal}, NEW b \in Block, e.off \in CellsOf(b),
           NEW list, Distinct(list), NEW k \in 1..Len(list), list[k] = e,
           NEW g, g = Moving(e, v)
    PROVE  MoveFrame(g, b, list) /\ g.step = "space" /\ g.f = "put"
<1>1. g = [f |-> "put", who |-> "move", id |-> e.id, len |-> e.len, val |-> v,
           cur |-> e.off, new |-> NoOff, step |-> "space"]
  BY DEF Moving, PutFrame
<1>2. e.id \in Id /\ e.len \in RecLen /\ e.off \in Off /\ e = [id |-> e.id, len |-> e.len, off |-> e.off]
  BY DEF EntryType
<1>3. g \in PutType
  BY <1>1, <1>2, StepsAre DEF PutType
<1>4. g.id = e.id /\ g.len = e.len /\ g.cur = e.off /\ g.who = "move" /\ g.step = "space" /\ g.f = "put"
  BY <1>1
<1>5. e = Entry(g.id, g.len, g.cur)
  BY <1>2, <1>4 DEF Entry
<1> QED BY <1>3, <1>4, <1>5 DEF MoveFrame, PutOK

\* Relocate keeps the invariant, and there is a record to relocate as long as
\* the block counts one.
LEMMA RelocateIs ==
    ASSUME NEW fl, NEW t \in TabType, NEW s, NEW p, Running(fl, t, s, p), s # <<>>, s[1].f = "reclaim",
           t.blk[s[1].b].valid < 0, NEW k, k = FirstIn(t, s[1].b), NEW v \in Val \cup {NoVal},
           NEW s2, s2 = PushOn(Moving(t.list[k], v), s)
    PROVE  /\ k \in 1..Len(t.list) /\ k # 0
           /\ Running(fl, t, s2, p) /\ PutBelow(s2)
<1>1. ~Busy(s)
  BY DEF Busy
<1>2. Ready(fl, t, s, p)
  BY <1>1, ReadyIs
<1>3. /\ Store(fl, NoOff, NoOff, BareBlocks(t, s), Range(t.list)) /\ Distinct(t.list)
      /\ t.inc = NoOff /\ t.out = NoOff /\ t.unsynced = 0 /\ ~Begins(s) /\ Skip(s) = NoOff
      /\ Shape(s, t.list, p) /\ FreeKept(t, s)
  BY <1>2 DEF Ready
<1>4. PICK b \in Block, w \in PutType :
             /\ s = Stack2(b, w) /\ WriteFrame(w, t.list, p) /\ w.step = "space" /\ w.f = "put"
             /\ s[1].b = b /\ Reclaims(s) = {b} /\ Len(s) = 2 /\ Tail(s) = Stack1(w)
  BY <1>3, ReclaimTop
<1>5. \E e \in Range(t.list) : e.off \in CellsOf(b)
  <2>1. BareBlocks(t, s)[b] = [valid |-> -t.blk[b].valid, used |-> t.blk[b].used, wasted |-> t.blk[b].wasted]
    BY <1>3, <1>4, BareBlockIs
  <2>2. BlockOK(fl, b, BareBlocks(t, s)[b]) /\ HeldBelow(fl, NumBlocks) = Range(t.list)
    BY <1>3 DEF Store
  <2>3. Cardinality(Held(fl, b)) = -t.blk[b].valid
    BY <2>1, <2>2 DEF BlockOK
  <2>4. Cardinality(Held(fl, b)) # 0
    BY <2>3, <1>4, TabIs
  <2>5. Held(fl, b) # {}
    BY <2>4, FS_EmptySet, Zenon
  <2>6. PICK e : e \in Held(fl, b)
    BY <2>5
  <2>7. e \in Range(t.list) /\ e.off \in CellsOf(b)
    BY <2>2, <2>6, AllHeld, HeldIs
  <2> QED BY <2>7
<1>6. k \in 1..Len(t.list) /\ t.list[k].off \in CellsOf(b)
  BY <1>3, <1>4, <1>5, FirstInIs
<1> DEFINE e == t.list[k]
           g == Moving(e, v)
<1>7. e \in EntryType /\ Len(t.list) \in Nat
  BY <1>3, <1>6, ListIs
<1>8. MoveFrame(g, b, t.list) /\ g.step = "space" /\ g.f = "put"
  <2>1. t.list[k] = e /\ e.off \in CellsOf(b) /\ g = Moving(e, v)
    BY <1>6
  <2> HIDE DEF e, g
  <2> QED BY ONLY <2>1, <1>3, <1>6, <1>7, v \in Val \cup {NoVal}, MovingFrame
<1> HIDE DEF e
<1>9. s2 = Stack3(g, b, w)
  <2>1. Stack3(g, b, w) = PushOn(g, Stack2(b, w))
    BY ONLY Stack3Is
  <2> QED BY <2>1, <1>4 DEF e
<1> HIDE DEF g
<1>10. s2[1] = g /\ Len(s2) = 3 /\ Last(s2) = w /\ s2 # <<>> /\ Reclaims(s2) = {b}
  BY ONLY <1>9, Stack3Is
<1>11. ~Busy(s2)
  BY <1>8, <1>10 DEF Busy
<1>12. ~Begins(s2) /\ Skip(s2) = NoOff
  BY <1>11 DEF Begins, Skip
<1>13. Bare(fl, t, s2)
  <2>1. BareBlocks(t, s2) = BareBlocks(t, s)
    <3>1. /\ t.blk = t.blk /\ Reclaims(s2) = Reclaims(s) /\ ~Begins(s) /\ ~Begins(s2)
      BY <1>3, <1>4, <1>10, <1>12
    <3> QED BY ONLY <3>1, BareBlocksSame
  <2> QED BY <2>1, <1>3, <1>11, QuietIs
<1>14. Shape(s2, t.list, p)
  BY <1>4, <1>8, <1>9, ShapeThree
<1>15. Tracking(t, s2, p)
  BY ONLY <1>3, <1>11 DEF Tracking
<1>16. FreeKept(t, s2)
  <2>1. Reclaims(s2) = Reclaims(s) /\ Skip(s2) = Skip(s)
    BY <1>3, <1>4, <1>10, <1>12
  <2>2. \A c \in Block : Room(t, s2, c) <=> Room(t, s, c)
    BY <2>1 DEF Room
  <2>3. Len(s2) >= 2
    BY <1>10
  <2> QED BY ONLY <2>2, <2>3, <1>3 DEF FreeKept
<1>17. BehindLast(fl, t, s2)
  BY <1>12 DEF BehindLast
<1>18. PutBelow(s2)
  BY <1>4, <1>10 DEF PutBelow
<1> QED BY <1>3, <1>6, <1>7, <1>13, <1>14, <1>15, <1>16, <1>17, <1>18 DEF Running

\* The tables once block b is erased.
Emptied(t, b) == [t EXCEPT !.blk[b] = EmptyBlock]

\* The entry of an erased block.
LEMMA EmptiedIs ==
    ASSUME NEW t \in TabType, NEW b \in Block, NEW t2, t2 = Emptied(t, b)
    PROVE  /\ t2 \in TabType /\ Same(t2, t) /\ t2.unsynced = t.unsynced
           /\ \A c \in Block : c # b => t2.blk[c] = t.blk[c]
           /\ t2.blk[b] = EmptyBlock /\ IsFree(t2, b)
<1>1. EmptyBlock \in BlockType
  BY DEF EmptyBlock, BlockType
<1> DEFINE n == [t.blk EXCEPT ![b] = EmptyBlock]
<1>2. n \in [Block -> BlockType]
  BY <1>1 DEF TabType
<1>3. t2 = [t EXCEPT !.blk = n]
  BY DEF Emptied
<1>4. /\ \A c \in Block : c # b => n[c] = t.blk[c]
      /\ n[b] = EmptyBlock
  BY DEF TabType
<1> HIDE DEF n
<1>5. t2 \in TabType /\ Same(t2, t) /\ t2.unsynced = t.unsynced /\ t2.blk = n
  BY <1>2, <1>3 DEF TabType, Same
<1> QED BY <1>4, <1>5 DEF IsFree

\* EraseReclaimed keeps the invariant: the block is empty, and the write goes
\* on with a free block more.
LEMMA EraseReclaimedIs ==
    ASSUME NEW fl, NEW t \in TabType, NEW s, NEW p, Running(fl, t, s, p), s # <<>>, s[1].f = "reclaim",
           t.blk[s[1].b].valid >= 0, NEW t2, t2 = Emptied(t, s[1].b),
           NEW fl2, fl2 = EraseAll(fl, s[1].b)
    PROVE  /\ Running(fl2, t2, Tail(s), p) /\ Flashes(fl2) /\ t2 \in TabType /\ PutBelow(Tail(s))
           /\ s[1].b \in Block
<1>1. ~Busy(s)
  BY DEF Busy
<1>2. Ready(fl, t, s, p)
  BY <1>1, ReadyIs
<1>3. /\ Store(fl, NoOff, NoOff, BareBlocks(t, s), Range(t.list)) /\ Distinct(t.list)
      /\ t.inc = NoOff /\ t.out = NoOff /\ t.unsynced = 0 /\ ~Begins(s) /\ Shape(s, t.list, p)
  BY <1>2 DEF Ready
<1>4. PICK b \in Block, w \in PutType :
             /\ s = Stack2(b, w) /\ WriteFrame(w, t.list, p) /\ w.step = "space" /\ w.f = "put"
             /\ s[1].b = b /\ Reclaims(s) = {b} /\ Len(s) = 2 /\ Tail(s) = Stack1(w)
  BY <1>3, ReclaimTop
<1>5. /\ t2 \in TabType /\ Same(t2, t) /\ t2.unsynced = t.unsynced
      /\ \A c \in Block : c # b => t2.blk[c] = t.blk[c]
      /\ t2.blk[b] = EmptyBlock /\ IsFree(t2, b)
  <2>1. t2 = Emptied(t, b)
    BY <1>4
  <2> QED BY ONLY <2>1, <1>4, t \in TabType, EmptiedIs
<1>6. BareBlocks(t, s)[b].valid = 0
  <2>1. t.blk[b].valid \in Int /\ t.blk[b].valid <= 0
    BY <1>2, <1>4, BlocksAre, Zenon
  <2>2. BareBlocks(t, s)[b] = [valid |-> -t.blk[b].valid, used |-> t.blk[b].used, wasted |-> t.blk[b].wasted]
    BY <1>3, <1>4, BareBlockIs
  <2>3. t.blk[b].valid >= 0
    BY <1>4
  <2> QED BY <2>1, <2>2, <2>3
<1> DEFINE z == Tail(s)
<1>7. z = Stack1(w) /\ z[1] = w /\ Len(z) = 1 /\ Last(z) = w /\ z # <<>> /\ Reclaims(z) = {}
  <2>1. z = Stack1(w)
    BY <1>4
  <2> HIDE DEF z
  <2> QED BY ONLY <2>1, Stack1Is
<1> HIDE DEF z
<1>8. ~Busy(z)
  BY <1>4, <1>7 DEF Busy
<1>9. ~Begins(z)
  BY <1>8 DEF Begins
<1>10. /\ \A c \in Block : c # b => BareBlocks(t2, z)[c] = BareBlocks(t, s)[c]
       /\ BareBlocks(t2, z)[b] = EmptyBlock
  <2>1. \A c \in Block : BareBlocks(t2, z)[c] = t2.blk[c]
    BY <1>5, <1>7, <1>9, BareBlockIs
  <2>2. \A c \in Block : c # b => BareBlocks(t, s)[c] = t.blk[c]
    BY <1>3, <1>4, BareBlockIs
  <2> QED BY <2>1, <2>2, <1>5
<1>11. fl2 = EraseAll(fl, b)
  BY <1>4
<1>12. Flashes(fl2)
  BY ONLY <1>11, <1>4, EraseIs
<1>13. Store(fl2, NoOff, NoOff, BareBlocks(t2, z), Range(t.list))
  BY ONLY <1>3, <1>4, <1>6, <1>10, <1>11, StoreErased
<1>14. t2.inc = NoOff /\ t2.out = NoOff /\ t2.list = t.list /\ t2.unsynced = 0
  BY <1>3, <1>5 DEF Same
<1>15. Bare(fl2, t2, z)
  BY <1>8, <1>13, <1>14, QuietIs
<1>16. Shape(z, t2.list, p)
  BY <1>4, <1>7, <1>14, ShapeOne
<1>17. Tracking(t2, z, p)
  BY ONLY <1>8, <1>14 DEF Tracking
<1>18. FreeKept(t2, z)
  BY <1>5 DEF FreeKept
<1>19. BehindLast(fl2, t2, z)
  BY <1>9 DEF BehindLast
<1>20. PutBelow(z)
  BY <1>4, <1>7 DEF PutBelow
<1>21. Running(fl2, t2, z, p)
  BY <1>3, <1>14, <1>15, <1>16, <1>17, <1>18, <1>19 DEF Running
<1> QED BY <1>4, <1>5, <1>12, <1>20, <1>21 DEF z

(***************************************************************************)
(* Requests (ErrorSerializationEventHandler, ErstClearRecord).             *)
(***************************************************************************)

\* The empty stack.
LEMMA StackEmpty ==
    /\ Len(<<>>) = 0 /\ ~(<<>> # <<>>)
    /\ ~Busy(<<>>) /\ ~Begins(<<>>) /\ Reclaims(<<>>) = {} /\ Skip(<<>>) = NoOff
<1>1. Len(<<>>) = 0 /\ ~(<<>> # <<>>)
  OBVIOUS
<1>2. ~Busy(<<>>)
  BY <1>1 DEF Busy
<1> QED BY <1>1, <1>2 DEF Begins, Reclaims, Skip

\* An answer, and the next request.
LEMMA AnswerIs ==
    ASSUME NEW fl, NEW t \in TabType, NEW p, Running(fl, t, <<>>, p), NEW r,
           r # NoReq => t.unsynced = 0
    PROVE  Running(fl, t, <<>>, r)
<1>1. /\ Store(fl, NoOff, NoOff, t.blk, Range(t.list)) /\ Distinct(t.list)
      /\ t.inc = NoOff /\ t.out = NoOff /\ t.unsynced \in Nat
      /\ \E b \in Block : IsFree(t, b)
  BY IdleIs
<1> QED BY <1>1, IdleMade

\* The frame of the write that request p asks for.
Opening(p) == PutFrame("write", p.id, p.len, p.val, NoOff, NoOff, "space")

\* StartWrite keeps the invariant.
LEMMA StartWriteIs ==
    ASSUME NEW fl, NEW t \in TabType, NEW p \in Request, p.op = "write", p # NoReq,
           p.id \in Id, p.len \in RecLen, p.val \in Val,
           Running(fl, t, <<>>, p), NEW s2, s2 = PushOn(Opening(p), <<>>)
    PROVE  Running(fl, t, s2, p) /\ PutBelow(s2)
<1> DEFINE g == Opening(p)
<1>1. g = [f |-> "put", who |-> "write", id |-> p.id, len |-> p.len, val |-> p.val,
           cur |-> NoOff, new |-> NoOff, step |-> "space"]
  BY DEF Opening, PutFrame
<1>2. g \in PutType
  BY <1>1, StepsAre DEF PutType
<1>3. g.id = p.id /\ g.len = p.len /\ g.who = "write" /\ g.step = "space" /\ g.f = "put"
  BY <1>1
<1>4. WriteFrame(g, t.list, p)
  BY <1>2, <1>3 DEF WriteFrame, PutOK
<1> HIDE DEF g
<1>5. s2 = Stack1(g)
  <2>1. Stack1(g) = PushOn(g, <<>>)
    BY ONLY Stack1Is
  <2> QED BY <2>1 DEF g
<1>6. s2[1] = g /\ Len(s2) = 1 /\ Last(s2) = g /\ s2 # <<>> /\ Reclaims(s2) = {}
  BY ONLY <1>5, Stack1Is
<1>7. /\ Store(fl, NoOff, NoOff, t.blk, Range(t.list)) /\ Distinct(t.list)
      /\ t.inc = NoOff /\ t.out = NoOff /\ t.unsynced = 0
      /\ \E b \in Block : IsFree(t, b)
  BY IdleIs
<1>8. ~Busy(s2)
  BY <1>3, <1>6 DEF Busy
<1>9. ~Begins(s2)
  BY <1>8 DEF Begins
<1>10. Bare(fl, t, s2)
  <2>1. \A b \in Block : BareBlocks(t, s2)[b] = t.blk[b]
    BY <1>6, <1>9, BareBlockIs
  <2>2. Store(fl, NoOff, NoOff, BareBlocks(t, s2), Range(t.list))
    BY ONLY <2>1, <1>7, StoreBlocks
  <2> QED BY <2>2, <1>7, <1>8, QuietIs
<1>11. Shape(s2, t.list, p)
  BY <1>4, <1>5, ShapeOne
<1>12. Tracking(t, s2, p)
  BY ONLY <1>7, <1>8 DEF Tracking
<1>13. FreeKept(t, s2)
  BY <1>7 DEF FreeKept
<1>14. BehindLast(fl, t, s2)
  BY <1>9 DEF BehindLast
<1> QED BY <1>3, <1>6, <1>7, <1>10, <1>11, <1>12, <1>13, <1>14 DEF Running, PutBelow

\* Space that is taken and given back leaves the blocks as they were.
LEMMA BlkBack ==
    ASSUME NEW t \in TabType, NEW t2 \in TabType, NEW b \in Block, NEW n \in Int,
           \A c \in Block : c # b => t2.blk[c] = t.blk[c],
           t2.blk[b] = [valid |-> t.blk[b].valid + 1, used |-> t.blk[b].used + n,
                        wasted |-> t.blk[b].wasted],
           NEW t3 \in TabType, \A c \in Block : c # b => t3.blk[c] = t2.blk[c],
           t3.blk[b] = [valid |-> t2.blk[b].valid - 1, used |-> t2.blk[b].used - n,
                        wasted |-> t2.blk[b].wasted]
    PROVE  \A c \in Block : t3.blk[c] = t.blk[c]
<1> DEFINE x == t.blk[b]
           y == t2.blk[b]
           z == t3.blk[b]
<1>1. x \in BlockType
  BY DEF TabType
<1>2. x = [valid |-> x.valid, used |-> x.used, wasted |-> x.wasted] /\ x.valid \in Int /\ x.used \in Int
  BY <1>1 DEF BlockType
<1>3. y.valid = x.valid + 1 /\ y.used = x.used + n /\ y.wasted = x.wasted
  OBVIOUS
<1>4. z = [valid |-> y.valid - 1, used |-> y.used - n, wasted |-> y.wasted]
  OBVIOUS
<1> HIDE DEF x, y, z
<1>5. y.valid - 1 = x.valid /\ y.used - n = x.used
  <2>1. \A v, u \in Int : (v + 1) - 1 = v /\ (u + n) - n = u
    BY ONLY n \in Int
  <2>2. y.valid - 1 = (x.valid + 1) - 1 /\ y.used - n = (x.used + n) - n
    BY ONLY <1>3
  <2> QED BY <1>2, <2>1, <2>2
<1>6. z = x
  BY <1>2, <1>3, <1>4, <1>5
<1> QED BY <1>6 DEF x, z

\* The tables after a dummy write of n cells at offset o.
Undone(t, o, n, i, found) ==
    LET t1 == Prepare(t, o, n)
        t2 == IF found = NoOff
                THEN DeallocateAt(AllocateNew(t1, Entry(i, n, o)), Len(t1.list) + 1)
                ELSE Unsync(t1, 1)
    IN UndoAllocate(t2, o, n)

\* A dummy write undoes what it did to the tables, but for the count of
\* changes.
LEMMA UndoneIs ==
    ASSUME NEW t \in TabType, Distinct(t.list), t.inc = NoOff, t.out = NoOff, t.unsynced = 0,
           NEW b \in Block, NEW o \in CellsOf(b), o \in Off, \A k \in 1..Len(t.list) : t.list[k].off # o,
           NEW n \in RecLen, NEW i \in Id, NEW found, found = FoundOffset(t, i),
           NEW t3, t3 = Undone(t, o, n, i, found)
    PROVE  /\ t3 \in TabType /\ t3.list = t.list /\ t3.inc = NoOff /\ t3.out = NoOff /\ t3.unsynced \in Nat
           /\ \A c \in Block : t3.blk[c] = t.blk[c]
<1> DEFINE t1 == Prepare(t, o, n)
           e == Entry(i, n, o)
           t2 == IF found = NoOff THEN DeallocateAt(AllocateNew(t1, e), Len(t1.list) + 1)
                 ELSE Unsync(t1, 1)
<1>0. n \in Int /\ o # NoOff
  BY Sizes, LayoutAssumption
<1>1. /\ t1 \in TabType /\ Same(t1, t) /\ t1.unsynced = t.unsynced + 1
      /\ \A c \in Block : c # b => t1.blk[c] = t.blk[c]
      /\ t1.blk[b] = [valid |-> t.blk[b].valid + 1, used |-> t.blk[b].used + n,
                      wasted |-> t.blk[b].wasted]
  <2>1. t1 = Prepare(t, o, n)
    OBVIOUS
  <2> HIDE DEF t1
  <2> QED BY ONLY <2>1, <1>0, t \in TabType, b \in Block, o \in CellsOf(b), PrepareIs
<1>2. e \in EntryType /\ e.off = o /\ e.id = i
  BY EntryFields DEF Entry, EntryType
<1>3. t3 = UndoAllocate(t2, o, n)
  BY DEF Undone
<1> HIDE DEF t1, e
<1>4. t1.list = t.list /\ t1.inc = NoOff /\ t1.out = NoOff /\ t1.unsynced = 1
  BY <1>1 DEF Same
<1>5. /\ t2 \in TabType /\ t2.list = t.list /\ t2.inc = NoOff /\ t2.out = NoOff
      /\ t2.unsynced \in Nat \ {0} /\ t2.blk = t1.blk
  <2>1. CASE found = NoOff
    <3> DEFINE a == AllocateNew(t1, e)
               m == Len(t1.list) + 1
    <3>1. \A k \in 1..Len(t.list) : t.list[k].id # i
      <4>1. FoundOffset(t, i) = NoOff
        BY <2>1
      <4>2. Distinct(t.list) /\ t.inc = NoOff /\ t.out = NoOff
        OBVIOUS
      <4> QED BY ONLY <4>1, <4>2, FoundIs
    <3>2. /\ a \in TabType /\ a.list = Append(t1.list, e) /\ a.unsynced = t1.unsynced + 1
          /\ a.inc = t1.inc /\ a.out = t1.out /\ a.blk = t1.blk
      BY ONLY <1>1, <1>2, AllocateIs
    <3> HIDE DEF a
    <3>3. \A k \in 1..Len(t.list) : t.list[k].off # e.off /\ t.list[k].id # e.id
      BY <1>2, <3>1
    <3>4. /\ Distinct(Append(t.list, e)) /\ Len(Append(t.list, e)) = Len(t.list) + 1
          /\ Append(t.list, e)[Len(t.list) + 1] = e /\ RemoveAt(Append(t.list, e), Len(t.list) + 1) = t.list
      BY ONLY <3>3, <1>2, Distinct(t.list), AppendList
    <3>5. Len(t.list) \in Nat
      BY ListIs
    <3>6. m = Len(t.list) + 1 /\ m \in 1..Len(a.list) /\ a.list[m] = e /\ RemoveAt(a.list, m) = t.list
      BY <1>4, <3>2, <3>4, <3>5
    <3>7. t.list \in Seq(EntryType)
      BY DEF Distinct
    <3> HIDE DEF m
    <3>8. t2 = DeallocateAt(a, m)
      BY <2>1 DEF a, m
    <3> HIDE DEF t2
    <3>9. RemoveAt(a.list, m) \in Seq(EntryType)
      BY <3>6, <3>7
    <3>10. /\ t2 \in TabType /\ t2.list = RemoveAt(a.list, m) /\ t2.unsynced = a.unsynced - 1
           /\ t2.blk = a.blk
           /\ t2.inc = (IF a.inc = a.list[m].off THEN NoOff ELSE a.inc)
           /\ t2.out = (IF a.out = a.list[m].off THEN NoOff ELSE a.out)
      BY ONLY <3>2, <3>6, <3>8, <3>9, DeallocateIs, ZenonT(60)
    <3>11. t2.inc = NoOff /\ t2.out = NoOff
      BY <3>2, <3>10, <1>4
    <3>12. t2.unsynced = 1
      BY <3>2, <3>10, <1>4
    <3> QED BY <3>2, <3>6, <3>10, <3>11, <3>12
  <2>2. CASE found # NoOff
    <3>1. t2 = Unsync(t1, 1)
      BY <2>2
    <3> HIDE DEF t2
    <3>2. /\ Unsync(t1, 1) \in TabType /\ Same(Unsync(t1, 1), t1) /\ Unsync(t1, 1).blk = t1.blk
          /\ Unsync(t1, 1).unsynced = t1.unsynced + 1
      BY ONLY <1>1, UnsyncIs
    <3>3. t2.unsynced = 2
      BY <3>1, <3>2, <1>4
    <3> QED BY <3>1, <3>2, <3>3, <1>4 DEF Same
  <2> QED BY <2>1, <2>2
<1> HIDE DEF t2
<1>6. /\ t3 \in TabType /\ Same(t3, t2) /\ t3.unsynced = t2.unsynced - 1
      /\ \A c \in Block : c # b => t3.blk[c] = t2.blk[c]
      /\ t3.blk[b] = [valid |-> t2.blk[b].valid - 1, used |-> t2.blk[b].used - n,
                      wasted |-> t2.blk[b].wasted]
  <2>1. t2 \in TabType /\ n \in Int
    BY <1>0, <1>5
  <2> QED BY ONLY <2>1, <1>3, b \in Block, o \in CellsOf(b), UndoIs, SMTT(60)
<1>7. \A c \in Block : t3.blk[c] = t.blk[c]
  <2>1. /\ \A c \in Block : c # b => t2.blk[c] = t.blk[c]
        /\ t2.blk[b] = [valid |-> t.blk[b].valid + 1, used |-> t.blk[b].used + n,
                        wasted |-> t.blk[b].wasted]
    BY <1>1, <1>5
  <2>2. t2 \in TabType
    BY <1>5
  <2> QED BY ONLY <2>1, <2>2, <1>0, <1>6, t \in TabType, b \in Block, BlkBack
<1>8. t3.list = t.list /\ t3.inc = NoOff /\ t3.out = NoOff
  BY <1>5, <1>6 DEF Same
<1>9. t3.unsynced \in Nat
  BY <1>5, <1>6
<1> QED BY <1>6, <1>7, <1>8, <1>9

\* AnswerDummy keeps the invariant.
LEMMA DummyIs ==
    ASSUME NEW fl, NEW t \in TabType, NEW p, Running(fl, t, <<>>, p), p # NoReq,
           NEW n \in RecLen, NEW i \in Id, NEW space, space = FindFreeSpace(t, n, TRUE),
           space.how = "found", NEW t3, t3 = Undone(t, space.at, n, i, FoundOffset(t, i))
    PROVE  Running(fl, t3, <<>>, NoReq) /\ t3 \in TabType
<1>1. /\ Store(fl, NoOff, NoOff, t.blk, Range(t.list)) /\ Distinct(t.list)
      /\ t.inc = NoOff /\ t.out = NoOff /\ t.unsynced = 0
      /\ \E b \in Block : IsFree(t, b)
  BY IdleIs
<1>2. Ready(fl, t, <<>>, p)
  BY StackEmpty, ReadyIs
<1> DEFINE at == space.at
<1>3. PICK b \in Block : Taken(fl, t, <<>>, at, n, b)
  <2>1. TRUE \in BOOLEAN /\ \A d \in Reclaims(<<>>) : d \in Block /\ t.blk[d].valid < 0
    BY StackEmpty
  <2> QED BY <2>1, <1>2, TakenWhen, Zenon
<1>4. at \in CellsOf(b) /\ at \in Off /\ \A k \in 1..Len(t.list) : t.list[k].off # at
  BY <1>3, Zenon DEF Taken
<1>5. t3 = Undone(t, at, n, i, FoundOffset(t, i))
  OBVIOUS
<1> HIDE DEF at
<1>6. /\ t3 \in TabType /\ t3.list = t.list /\ t3.inc = NoOff /\ t3.out = NoOff /\ t3.unsynced \in Nat
      /\ \A c \in Block : t3.blk[c] = t.blk[c]
  BY ONLY <1>1, <1>3, <1>4, <1>5, t \in TabType, n \in RecLen, i \in Id, UndoneIs
<1>7. Store(fl, NoOff, NoOff, t3.blk, Range(t3.list))
  <2>1. Store(fl, NoOff, NoOff, t3.blk, Range(t.list))
    BY ONLY <1>1, <1>6, StoreBlocks
  <2> QED BY <2>1, <1>6, Zenon
<1>8. Distinct(t3.list) /\ \E c \in Block : IsFree(t3, c)
  BY <1>1, <1>6, Zenon DEF IsFree
<1> QED BY <1>6, <1>7, <1>8, IdleMade, Zenon

\* ErstClearRecord: the entry is removed, the space wasted, all changes in
\* sync.
LEMMA ClearedIs ==
    ASSUME NEW t \in TabType, Distinct(t.list), t.inc = NoOff, t.out = NoOff, t.unsynced = 0,
           NEW k \in 1..Len(t.list), NEW o, o = t.list[k].off, NEW b \in Block, o \in CellsOf(b),
           NEW t2, t2 = Cleared(t, o)
    PROVE  /\ t2 \in TabType /\ t2.list = RemoveAt(t.list, k) /\ t2.inc = NoOff /\ t2.out = NoOff
           /\ t2.unsynced = 0 /\ Freed(t.blk, t2.blk, b, t.list[k].len)
<1> DEFINE e == t.list[k]
           t1 == Tracked(t, o, "DELETED")
           u == Unsync(t1, 1)
           f == FreeRecord(u, e)
<1>1. e \in EntryType /\ e.off = o /\ o \in Off /\ e.off \in CellsOf(b) /\ k \in 1..Len(t.list)
  BY ListIs
<1>2. EntryAt(t, o) = e
  BY IndexIs
<1>3. t2 = Deallocate(f, o)
  BY <1>2 DEF Cleared
<1>4. /\ t1 \in TabType /\ t1.list = t.list /\ t1.blk = t.blk /\ t1.unsynced = t.unsynced
      /\ t1.inc = (IF t.inc = o THEN NoOff ELSE t.inc) /\ t1.out = (IF t.out = o THEN NoOff ELSE t.out)
  <2>1. "DELETED" \notin {"INCOMING", "OUTGOING"} /\ t1 = Tracked(t, o, "DELETED")
    OBVIOUS
  <2> HIDE DEF t1
  <2> QED BY ONLY <2>1, <1>1, t \in TabType, TrackedIs
<1> HIDE DEF t1, e
<1>5. t1.inc = NoOff /\ t1.out = NoOff /\ t1.unsynced = 0
  BY <1>4
<1>6. /\ Unsync(t1, 1) \in TabType /\ Same(Unsync(t1, 1), t1) /\ Unsync(t1, 1).blk = t1.blk
      /\ Unsync(t1, 1).unsynced = t1.unsynced + 1
  BY ONLY <1>4, UnsyncIs
<1>7. /\ u \in TabType /\ u.list = t.list /\ u.blk = t.blk /\ u.inc = NoOff /\ u.out = NoOff
      /\ u.unsynced = 1
  BY <1>4, <1>5, <1>6 DEF Same
<1> HIDE DEF u
<1>8. /\ f \in TabType /\ Same(f, u) /\ f.unsynced = u.unsynced
      /\ Freed(u.blk, f.blk, b, e.len)
  <2>1. f = FreeRecord(u, e)
    OBVIOUS
  <2> HIDE DEF f
  <2>2. /\ f \in TabType /\ Same(f, u) /\ f.unsynced = u.unsynced
        /\ \A c \in Block : c # b => f.blk[c] = u.blk[c]
        /\ f.blk[b] = [valid |-> CASE u.blk[b].valid > 0 -> u.blk[b].valid - 1
                                   [] u.blk[b].valid < 0 -> u.blk[b].valid + 1
                                   [] OTHER -> 0,
                       used |-> u.blk[b].used,
                       wasted |-> u.blk[b].wasted + e.len]
    BY ONLY <2>1, <1>1, <1>7, b \in Block, FreeRecordIs
  <2> QED BY <2>2 DEF Freed
<1> HIDE DEF f
<1>9. f.list = t.list /\ f.inc = NoOff /\ f.out = NoOff /\ f.unsynced = 1
  BY <1>7, <1>8 DEF Same
<1>10. IndexOf(f, o) = k
  <2>1. Distinct(f.list) /\ k \in 1..Len(f.list) /\ o = f.list[k].off
    BY <1>1, <1>9
  <2> QED BY ONLY <2>1, IndexIs
<1>11. t2 = DeallocateAt(f, k)
  BY <1>3, <1>10 DEF Deallocate
<1>12. RemoveAt(f.list, k) \in Seq(EntryType) /\ k \in 1..Len(f.list)
  <2>1. Distinct(RemoveAt(t.list, k))
    BY RemoveList
  <2> QED BY <2>1, <1>1, <1>9 DEF Distinct
<1>13. /\ t2 \in TabType /\ t2.list = RemoveAt(f.list, k) /\ t2.unsynced = f.unsynced - 1
       /\ t2.blk = f.blk
       /\ t2.inc = (IF f.inc = f.list[k].off THEN NoOff ELSE f.inc)
       /\ t2.out = (IF f.out = f.list[k].off THEN NoOff ELSE f.out)
  BY ONLY <1>8, <1>11, <1>12, DeallocateIs
<1>14. t2.inc = NoOff /\ t2.out = NoOff /\ t2.unsynced = 0 /\ t2.list = RemoveAt(t.list, k)
  BY <1>9, <1>13
<1> QED BY <1>7, <1>8, <1>13, <1>14 DEF e

\* A record is deleted while none is OUTGOING.
LEMMA StoreCleared ==
    ASSUME NEW mem, NEW blk, NEW es, NEW out, out = NoOff, Store(mem, NoOff, out, blk, es),
           NEW b \in Block, NEW o \in CellsOf(b), o # NoOff,
           IsHeader(mem[o]), StatusOf(mem[o]) # "DELETED", NEW new,
           new[o] = Header("DELETED", IdOf(mem[o]), LenOf(mem[o])),
           \A a \in Off : a # o => new[a] = mem[a],
           NEW blk2, Drops(blk, blk2, b, LenOf(mem[o]))
    PROVE  Store(new, NoOff, NoOff, blk2, es \ {RecordOf(mem, o)})
<1>1. /\ \A c \in Block : c # b => blk2[c] = blk[c]
      /\ blk2[b] = [valid |-> blk[b].valid - 1, used |-> blk[b].used,
                    wasted |-> blk[b].wasted + LenOf(mem[o])]
  BY DEF Drops
<1>2. Store(new, NoOff, IF out = o THEN NoOff ELSE out, blk2, es \ {RecordOf(mem, o)})
  BY <1>1, StoreDeleted, ZenonT(60)
<1>3. (IF out = o THEN NoOff ELSE out) = NoOff
  OBVIOUS
<1> QED BY <1>2, <1>3

\* Clear keeps the invariant, and its status byte is accepted.
LEMMA ClearIs ==
    ASSUME NEW fl, Flashes(fl), NEW t \in TabType, NEW p, p # NoReq, Running(fl, t, <<>>, p),
           NEW i, NEW o, o = FoundOffset(t, i), o # NoOff,
           NEW fl2, fl2 = SetStatus(fl, o, "DELETED"), NEW t2, t2 = Cleared(t, o)
    PROVE  /\ Running(fl2, t2, <<>>, p) /\ Flashes(fl2) /\ t2 \in TabType
           /\ TrackingAllows(t, o, "DELETED") /\ StatusAccepted(fl, o, "DELETED")
<1>1. /\ Store(fl, NoOff, NoOff, t.blk, Range(t.list)) /\ Distinct(t.list)
      /\ t.inc = NoOff /\ t.out = NoOff /\ t.unsynced = 0
      /\ \E b \in Block : IsFree(t, b)
  BY IdleIs
<1>2. PICK k \in 1..Len(t.list) : t.list[k].off = o
  <2>1. \/ FoundOffset(t, i) = NoOff
        \/ FindRecord(t, i) \in 1..Len(t.list) /\ FoundOffset(t, i) = t.list[FindRecord(t, i)].off
    BY ONLY <1>1, FoundIs
  <2> QED BY <2>1
<1> DEFINE e == t.list[k]
<1>3. e \in Range(t.list)
  BY <1>1, ListIs
<1> HIDE DEF e
<1>4. PICK b \in Block :
             /\ e \in Held(fl, b) /\ e.off \in CellsOf(b) /\ e.off \in Off /\ BlockOf(e.off) = b
             /\ IsHeader(fl[e.off]) /\ StatusOf(fl[e.off]) # "DELETED"
             /\ e = RecordOf(fl, e.off) /\ e.id = IdOf(fl[e.off]) /\ e.len = LenOf(fl[e.off])
             /\ e.id \in Id /\ e.len \in RecLen
             /\ t.blk[b].valid >= 1 /\ t.blk[b].valid \in Nat
  BY ONLY <1>1, <1>3, EntryHeld
<1>5. /\ o \in CellsOf(b) /\ o \in Off /\ IsHeader(fl[o]) /\ StatusOf(fl[o]) # "DELETED"
      /\ e = RecordOf(fl, o) /\ e.len = LenOf(fl[o])
  BY <1>2, <1>4 DEF e
<1>6. /\ t2 \in TabType /\ t2.list = RemoveAt(t.list, k) /\ t2.inc = NoOff /\ t2.out = NoOff
      /\ t2.unsynced = 0 /\ Freed(t.blk, t2.blk, b, e.len)
  <2>1. o = t.list[k].off /\ t2 = Cleared(t, o) /\ k \in 1..Len(t.list)
    BY <1>2
  <2>2. Freed(t.blk, t2.blk, b, t.list[k].len) /\ t2 \in TabType /\ t2.list = RemoveAt(t.list, k)
        /\ t2.inc = NoOff /\ t2.out = NoOff /\ t2.unsynced = 0
    BY ONLY <2>1, <1>1, <1>4, <1>5, t \in TabType, ClearedIs
  <2> QED BY <2>2 DEF e
<1>7. /\ Flashes(fl2) /\ \A a \in Off : a # o => fl2[a] = fl[a]
      /\ fl2[o] = Header("DELETED", IdOf(fl[o]), LenOf(fl[o]))
  <2>1. fl2 = SetStatus(fl, o, "DELETED") /\ Flashes(fl)
    OBVIOUS
  <2> QED BY ONLY <2>1, <1>5, SetStatusIs
<1>8. /\ \A c \in Block : c # b => t2.blk[c] = t.blk[c]
      /\ t2.blk[b] = [valid |-> t.blk[b].valid - 1, used |-> t.blk[b].used,
                      wasted |-> t.blk[b].wasted + LenOf(fl[o])]
  <2> DEFINE v == t.blk[b].valid
  <2>1. v > 0
    BY <1>4
  <2>2. /\ \A c \in Block : c # b => t2.blk[c] = t.blk[c]
        /\ t2.blk[b] = [valid |-> CASE v > 0 -> v - 1 [] v < 0 -> v + 1 [] OTHER -> 0,
                        used |-> t.blk[b].used, wasted |-> t.blk[b].wasted + e.len]
    BY <1>6 DEF Freed
  <2> HIDE DEF v
  <2>3. (CASE v > 0 -> v - 1 [] v < 0 -> v + 1 [] OTHER -> 0) = v - 1
    <3>1. ~(v < 0)
      BY <2>1, <1>4 DEF v
    <3> QED BY <2>1, <3>1
  <2> QED BY <2>2, <2>3, <1>5 DEF v
<1>9. Store(fl2, NoOff, NoOff, t2.blk, Range(t2.list))
  <2>1. Range(t2.list) = Range(t.list) \ {RecordOf(fl, o)}
    <3>1. Range(RemoveAt(t.list, k)) = Range(t.list) \ {t.list[k]}
      BY <1>1, RemoveList
    <3> QED BY <3>1, <1>5, <1>6 DEF e
  <2>2. o # NoOff
    OBVIOUS
  <2>3. Store(fl2, NoOff, NoOff, t2.blk, Range(t.list) \ {RecordOf(fl, o)})
    <3>1. Store(fl, NoOff, NoOff, t.blk, Range(t.list)) /\ b \in Block
      BY <1>1
    <3>2. o \in CellsOf(b) /\ IsHeader(fl[o]) /\ StatusOf(fl[o]) # "DELETED"
      BY <1>5
    <3>3. /\ fl2[o] = Header("DELETED", IdOf(fl[o]), LenOf(fl[o]))
          /\ \A a \in Off : a # o => fl2[a] = fl[a]
      BY <1>7
    <3>4. Drops(t.blk, t2.blk, b, LenOf(fl[o]))
      BY <1>8 DEF Drops
    <3> QED BY ONLY <3>1, <3>2, <3>3, <3>4, <2>2, StoreCleared
  <2> QED BY <2>1, <2>3
<1>10. Distinct(t2.list)
  BY <1>1, <1>6, RemoveList
<1>11. \E c \in Block : IsFree(t2, c)
  <2>1. PICK c \in Block : IsFree(t, c)
    BY <1>1
  <2>2. c # b
    <3>1. t.blk[c].valid = 0
      BY <2>1 DEF IsFree, EmptyBlock
    <3> QED BY <3>1, <1>4
  <2> QED BY <2>1, <2>2, <1>8 DEF IsFree
<1>12. Running(fl2, t2, <<>>, p)
  <2>1. t2.unsynced \in Nat
    BY <1>6
  <2> QED BY <2>1, <1>6, <1>9, <1>10, <1>11, IdleMade
<1>13. TrackingAllows(t, o, "DELETED")
  BY DEF TrackingAllows
<1>14. StatusAccepted(fl, o, "DELETED")
  <2>1. StatusOf(fl[o]) = "VALID"
    <3>1. o # NoOff /\ StatusesOK(fl, NoOff, NoOff)
      BY <1>1 DEF Store
    <3> QED BY ONLY <3>1, <1>5 DEF StatusesOK
  <2> QED BY ONLY <2>1, <1>5, StatusAllowedIs
<1> QED BY <1>6, <1>7, <1>12, <1>13, <1>14

(***************************************************************************)
(* Initialization (ErstCollectBlockInfo).                                  *)
(***************************************************************************)

\* What an initialization starts from: blocks that the driver has laid out.
Settles(fl) ==
    /\ \A b \in Block : \E u \in 0..BlockSize : Laid(fl, b, u)
    /\ \E b \in Block : Laid(fl, b, 0)
    /\ StatusesOK(fl, NoOff, NoOff)
    /\ \A d, e \in HeldBelow(fl, NumBlocks) : d # e => d.id # e.id

\* The fields of the frame of an initialization.
LEMMA InitFrameIs ==
    ASSUME NEW ph, NEW b, NEW o
    PROVE  /\ InitFrame(ph, b, o).f = "init" /\ InitFrame(ph, b, o).phase = ph
           /\ InitFrame(ph, b, o).b = b /\ InitFrame(ph, b, o).outTo = o
BY DEF InitFrame

\* The tables that an initialization starts from.
LEMMA EmptyTabIs ==
    /\ EmptyTables \in TabType
    /\ EmptyTables.list = <<>> /\ EmptyTables.inc = NoOff /\ EmptyTables.out = NoOff
    /\ EmptyTables.unsynced = 0 /\ \A b \in Block : EmptyTables.blk[b] = EmptyBlock
<1>1. EmptyBlock \in BlockType
  BY DEF EmptyBlock, BlockType
<1>2. <<>> \in Seq(EntryType) /\ 0 \in Block
  BY Sizes DEF Block
<1>3. [b \in Block |-> EmptyBlock] \in [Block -> BlockType]
  BY <1>1
<1> QED BY <1>2, <1>3 DEF EmptyTables, TabType

\* The empty list.
LEMMA EmptyList == Distinct(<<>>) /\ Range(<<>>) = {}
<1>1. Distinct(<<>>)
  BY DEF Distinct
<1> QED BY <1>1 DEF Range

\* The start of an initialization.
LEMMA StartScan ==
    ASSUME NEW fl, Settles(fl), NEW t, t = Unsync(EmptyTables, 1),
           NEW s, s = <<InitFrame("scan", 0, "none")>>
    PROVE  Starts(fl, t, s) /\ t \in TabType
<1> DEFINE f == InitFrame("scan", 0, "none")
<1>1. s[1] = f /\ Len(s) = 1 /\ s = <<f>>
  BY OneLong
<1>2. f.phase = "scan" /\ f.b = 0 /\ f = InitFrame(f.phase, f.b, "none")
  BY InitFrameIs
<1>3. /\ t \in TabType /\ Same(t, EmptyTables) /\ t.blk = EmptyTables.blk
      /\ t.unsynced = EmptyTables.unsynced + 1
  <2>1. EmptyTables \in TabType /\ 1 \in Int
    BY EmptyTabIs
  <2> QED BY <2>1, UnsyncIs
<1>4. t.list = <<>> /\ t.inc = NoOff /\ t.out = NoOff /\ t.unsynced = 1 /\ \A b \in Block : t.blk[b] = EmptyBlock
  BY <1>3, EmptyTabIs DEF Same
<1>5. HeldBelow(fl, 0) = {}
  <2>1. 0..(0 - 1) = {}
    OBVIOUS
  <2> QED BY <2>1 DEF HeldBelow
<1>6. \A b \in Block : ~(b < 0)
  BY BlockCells
<1>7. 0 \in Block
  BY Sizes DEF Block
<1>8. HeldBelow(fl, 0) = Range(t.list) /\ Distinct(t.list)
  BY <1>4, <1>5, EmptyList, Zenon
<1>9. \A b \in Block : IF b < 0 THEN BlockOK(fl, b, t.blk[b])
                       ELSE t.blk[b] = EmptyBlock /\ \E u \in 0..BlockSize : Laid(fl, b, u)
  BY <1>4, <1>6 DEF Settles
<1>10. \E b \in Block : IsFree(t, b) /\ Laid(fl, b, 0)
  BY <1>4 DEF Settles, IsFree
<1> HIDE DEF f
<1>11. /\ StatusesOK(fl, NoOff, NoOff) /\ \A d, e \in HeldBelow(fl, NumBlocks) : d # e => d.id # e.id
  BY DEF Settles
<1>12. t.unsynced \in Nat \ {0}
  BY <1>4
<1>13. s[1].phase = "scan" /\ s[1].b = 0 /\ s = <<s[1]>> /\ s[1] = InitFrame(s[1].phase, s[1].b, "none")
  BY <1>1, <1>2
<1> QED BY ONLY <1>1, <1>13, <1>3, <1>4, <1>7, <1>8, <1>9, <1>10, <1>11, <1>12 DEF Starts

\* A store at rest can be initialized from (ReInit): its block that is free is
\* erased.
LEMMA RunningSettles ==
    ASSUME NEW fl, NEW t \in TabType, NEW p, Running(fl, t, <<>>, p)
    PROVE  Settles(fl)
<1>1. /\ Store(fl, NoOff, NoOff, t.blk, Range(t.list)) /\ Distinct(t.list)
      /\ \E b \in Block : IsFree(t, b)
  BY IdleIs
<1>2. /\ \A b \in Block : BlockOK(fl, b, t.blk[b])
      /\ StatusesOK(fl, NoOff, NoOff) /\ HeldBelow(fl, NumBlocks) = Range(t.list)
  BY <1>1 DEF Store
<1>3. \A b \in Block : Laid(fl, b, t.blk[b].used) /\ t.blk[b].used \in 0..BlockSize
  BY <1>2 DEF BlockOK, Laid
<1>4. \E b \in Block : Laid(fl, b, 0)
  <2>1. PICK b \in Block : IsFree(t, b)
    BY <1>1
  <2>2. t.blk[b].used = 0
    BY <2>1 DEF IsFree, EmptyBlock
  <2> QED BY <2>2, <1>3
<1>5. \A d, e \in Range(t.list) : d # e => d.id # e.id
  <2>1. SUFFICES ASSUME NEW d \in Range(t.list), NEW e \in Range(t.list), d # e PROVE d.id # e.id
    OBVIOUS
  <2>2. PICK k \in 1..Len(t.list) : t.list[k] = d
    BY <1>1, ListIs
  <2>3. PICK m \in 1..Len(t.list) : t.list[m] = e
    BY <1>1, ListIs
  <2> QED BY <2>1, <2>2, <2>3, <1>1 DEF Distinct
<1> QED BY <1>2, <1>3, <1>4, <1>5 DEF Settles

\* So can an erased flash.
LEMMA ErasedSettles ==
    ASSUME NEW fl, \A o \in Off : fl[o] = Erased
    PROVE  Settles(fl)
<1>1. \A b \in Block : Laid(fl, b, 0) /\ Held(fl, b) = {}
  BY ErasedBlock, BlockCells
<1>2. 0 \in 0..BlockSize /\ 0 \in Block
  BY Sizes DEF Block
<1>3. StatusesOK(fl, NoOff, NoOff)
  BY HeaderFields DEF StatusesOK
<1>4. HeldBelow(fl, NumBlocks) = {}
  BY <1>1, AllHeld
<1> QED BY <1>1, <1>2, <1>3, <1>4 DEF Settles

\* NoIncoming keeps the invariant: nothing is to be resolved.
LEMMA NoIncomingIs ==
    ASSUME NEW fl, NEW t \in TabType, NEW s, Starts(fl, t, s), s[1].phase = "incoming",
           NEW s2, s2 = <<InitFrame("reclaim", 0, "none")>>
    PROVE  Starts(fl, t, s2)
<1> DEFINE f == InitFrame("reclaim", 0, "none")
<1>1. s2[1] = f /\ Len(s2) = 1 /\ s2 = <<f>>
  BY OneLong
<1>2. f.phase = "reclaim" /\ f.b = 0 /\ f = InitFrame(f.phase, f.b, "none")
  BY InitFrameIs
<1>3. 0 \in Block
  BY Sizes DEF Block
<1> HIDE DEF f
<1>4. /\ s2[1].phase = "reclaim" /\ s2[1].b = 0 /\ s2 = <<s2[1]>> /\ Len(s2) = 1
      /\ s2[1] = InitFrame(s2[1].phase, s2[1].b, "none")
  BY <1>1, <1>2
<1>5. "reclaim" # "scan" /\ "incoming" # "scan"
  OBVIOUS
<1> QED BY <1>3, <1>4, <1>5 DEF Starts

\* The entries of the records that a walk lists.
ListedEntries(w) ==
    [k \in 1..Len(w.listed) |-> Entry(w.listed[k].id, w.listed[k].len, w.listed[k].off)]

\* A block without INCOMING, OUTGOING and INVALID records.
Passive(mem, b) == \A o \in Heads(mem, b) : StatusOf(mem[o]) \in {"VALID", "DELETED"}

\* A block that has records and a walk over it.
Scans(mem, b, u, w) ==
    /\ Laid(mem, b, u) /\ Passive(mem, b) /\ w = Walk(mem, b)
    /\ \A d, e \in Held(mem, b) : d # e => d.id # e.id

\* What the walk lists, as a fact to cite.
Lists(mem, b, u, w) ==
    /\ w.end = u /\ w.why = IF u > BlockSize - HdrSize THEN "full" ELSE "free"
    /\ w.deleted = Cardinality(Gone(mem, b))
    /\ Len(w.listed) \in Nat /\ Len(w.listed) = Cardinality(Held(mem, b))
    /\ \A i, j \in 1..Len(w.listed) : i < j => w.listed[i].off < w.listed[j].off
    /\ \A i \in 1..Len(w.listed) :
         /\ w.listed[i].off \in CellsOf(b)
         /\ Entry(w.listed[i].id, w.listed[i].len, w.listed[i].off) \in Held(mem, b)
         /\ w.listed[i].st = "VALID"
    /\ \A e \in Held(mem, b) : \E i \in 1..Len(w.listed) :
         e = Entry(w.listed[i].id, w.listed[i].len, w.listed[i].off)

\* The walk over such a block, as facts to cite.
LEMMA ScanLists ==
    ASSUME NEW mem, NEW b \in Block, NEW u, NEW w, Scans(mem, b, u, w)
    PROVE  Lists(mem, b, u, w)
<1>1. Laid(mem, b, u) /\ w = Walk(mem, b)
  BY DEF Scans
<1>2. \A o \in Heads(mem, b) : StatusOf(mem[o]) \in {"VALID", "DELETED"}
  BY DEF Scans, Passive
<1>3. \A o \in Heads(mem, b) : StatusOf(mem[o]) \notin {"INCOMING", "INVALID"}
  BY <1>2
<1>4. /\ w.end = u /\ w.why = IF u > BlockSize - HdrSize THEN "full" ELSE "free"
      /\ w.deleted = Cardinality(Gone(mem, b))
      /\ Len(w.listed) \in Nat /\ Len(w.listed) = Cardinality(Held(mem, b))
      /\ \A i, j \in 1..Len(w.listed) : i < j => w.listed[i].off < w.listed[j].off
      /\ \A i \in 1..Len(w.listed) :
           /\ w.listed[i].off \in CellsOf(b)
           /\ Entry(w.listed[i].id, w.listed[i].len, w.listed[i].off) \in Held(mem, b)
           /\ w.listed[i].st = StatusOf(mem[w.listed[i].off])
      /\ \A e \in Held(mem, b) : \E i \in 1..Len(w.listed) :
           e = Entry(w.listed[i].id, w.listed[i].len, w.listed[i].off)
  BY <1>1, <1>3, WalkLaid, SMTT(60)
<1>5. ASSUME NEW i \in 1..Len(w.listed) PROVE w.listed[i].st = "VALID"
  <2> DEFINE o == w.listed[i].off
             e == Entry(w.listed[i].id, w.listed[i].len, o)
  <2>1. e \in Held(mem, b) /\ e.off = o
    BY <1>4, EntryFields
  <2>2. IsHeader(mem[o]) /\ StatusOf(mem[o]) # "DELETED" /\ o \in CellsOf(b)
    BY <2>1, HeldIs
  <2>3. o \in Heads(mem, b)
    BY <2>2 DEF Heads
  <2> QED BY <2>2, <2>3, <1>2, <1>4
<1> QED BY <1>4, <1>5, Zenon DEF Lists

\* It lists each of its records once, none of them INCOMING or OUTGOING.
LEMMA ListedEntriesAre ==
    ASSUME NEW mem, NEW b \in Block, NEW u, NEW w, Scans(mem, b, u, w)
    PROVE  /\ Distinct(ListedEntries(w)) /\ Range(ListedEntries(w)) = Held(mem, b)
           /\ Len(ListedEntries(w)) = Len(w.listed) /\ Len(w.listed) \in Nat
           /\ SelectInSeq(w.listed, LAMBDA r : r.st = "INCOMING") = 0
           /\ SelectInSeq(w.listed, LAMBDA r : r.st = "OUTGOING") = 0
<1>1. Lists(mem, b, u, w)
  BY ScanLists
<1>2. Len(w.listed) \in Nat /\ \A i \in 1..Len(w.listed) : w.listed[i].st = "VALID"
  BY <1>1 DEF Lists
<1> DEFINE es == ListedEntries(w)
           n == Len(w.listed)
<1>3. Len(es) = n /\ \A k \in 1..n : es[k] = Entry(w.listed[k].id, w.listed[k].len, w.listed[k].off)
  BY <1>2 DEF ListedEntries
<1>4. \A k \in 1..n : es[k] \in Held(mem, b) /\ es[k].off = w.listed[k].off
  BY <1>1, <1>3, EntryFields DEF Lists
<1>5. \A e \in Held(mem, b) : e \in EntryType
  <2>1. SUFFICES ASSUME NEW e \in Held(mem, b) PROVE e \in EntryType
    OBVIOUS
  <2>2. e.off \in CellsOf(b) /\ IsHeader(mem[e.off]) /\ e = RecordOf(mem, e.off)
    BY HeldIs
  <2>3. IdOf(mem[e.off]) \in Id /\ LenOf(mem[e.off]) \in RecLen
    BY <2>2, LaidRecord DEF Scans
  <2>4. e.off \in Off
    BY <2>2, BlockCells
  <2> DEFINE o == e.off
  <2>5. RecordOf(mem, o) \in EntryType
    BY <2>3, <2>4 DEF RecordOf, Entry, EntryType
  <2> QED BY <2>2, <2>5
<1>6. es \in Seq(EntryType)
  <2>1. es = [k \in 1..n |-> es[k]] /\ n \in Nat
    BY <1>2 DEF ListedEntries
  <2>2. \A k \in 1..n : es[k] \in EntryType
    BY <1>4, <1>5
  <2> HIDE DEF es, n
  <2> QED BY <2>1, <2>2
<1>7. \A k, m \in 1..n : k # m => es[k].off # es[m].off
  <2>1. SUFFICES ASSUME NEW k \in 1..n, NEW m \in 1..n, k # m PROVE es[k].off # es[m].off
    OBVIOUS
  <2>2. \A x \in 1..n : w.listed[x].off \in Int
    <3>1. CellsOf(b) \subseteq Int
      BY BlockCells DEF Off, CellsOf
    <3> QED BY <3>1, <1>1 DEF Lists
  <2>3. k < m \/ m < k
    BY <2>1, <1>2
  <2>4. \A i, j \in 1..n : i < j => w.listed[i].off < w.listed[j].off
    BY <1>1 DEF Lists
  <2>5. w.listed[k].off # w.listed[m].off
    <3>1. w.listed[k].off < w.listed[m].off \/ w.listed[m].off < w.listed[k].off
      BY <2>3, <2>4
    <3> QED BY <3>1, <2>2
  <2> QED BY <2>5, <1>4
<1>8. \A k, m \in 1..n : k # m => es[k].id # es[m].id
  <2>1. \A d, e \in Held(mem, b) : d # e => d.id # e.id
    BY DEF Scans
  <2> QED BY <2>1, <1>4, <1>7
<1>9. Distinct(es)
  BY <1>3, <1>6, <1>7, <1>8 DEF Distinct
<1>10. Range(es) = Held(mem, b)
  <2>1. \A e : e \in Range(es) <=> \E k \in 1..Len(es) : es[k] = e
    BY ONLY <1>9, ListIs
  <2>2. \A e \in Held(mem, b) : \E k \in 1..n : e = es[k]
    BY <1>1, <1>3 DEF Lists
  <2> HIDE DEF es
  <2>3. \A e : e \in Range(es) <=> e \in Held(mem, b)
    BY <2>1, <2>2, <1>3, <1>4
  <2> QED BY <2>3
<1>11. /\ SelectInSeq(w.listed, LAMBDA r : r.st = "INCOMING") = 0
       /\ SelectInSeq(w.listed, LAMBDA r : r.st = "OUTGOING") = 0
  <2>1. /\ {i \in 1..Len(w.listed) : w.listed[i].st = "INCOMING"} = {}
        /\ {i \in 1..Len(w.listed) : w.listed[i].st = "OUTGOING"} = {}
    BY <1>2
  <2> QED BY <2>1 DEF SelectInSeq
<1> QED BY <1>2, <1>3, <1>9, <1>10, <1>11

\* What the tables say of a block that was walked.
ScannedBlock(w) == IF MustErase(w) THEN EmptyBlock ELSE CollectedBlock(w)

\* ErstCollectBlock counts what the block holds, and erases it only if it has
\* no records.
LEMMA ScannedBlockIs ==
    ASSUME NEW mem, NEW b \in Block, NEW u, NEW w, Scans(mem, b, u, w),
           NEW new, new = IF MustErase(w) THEN EraseAll(mem, b) ELSE mem
    PROVE  /\ ScannedBlock(w) \in BlockType
           /\ BlockOK(new, b, ScannedBlock(w)) /\ Held(new, b) = Held(mem, b)
           /\ MustErase(w) => Held(mem, b) = {}
           /\ Laid(mem, b, 0) => ScannedBlock(w) = EmptyBlock /\ Laid(new, b, 0)
<1> DEFINE n == Cardinality(Held(mem, b))
           g == Cardinality(Gone(mem, b))
           x == CollectedBlock(w)
<1>1. Lists(mem, b, u, w) /\ Laid(mem, b, u)
  BY ScanLists DEF Scans
<1>2. n \in Nat /\ g \in Nat /\ u \in 0..BlockSize /\ BlockSize \in Nat /\ HdrSize \in Nat
  BY <1>1, HeldFinite, GoneFinite, Sizes, Zenon DEF Laid
<1>3. /\ w.end = u /\ w.why = (IF u > BlockSize - HdrSize THEN "full" ELSE "free")
      /\ w.deleted = g /\ Len(w.listed) = n
  BY <1>1 DEF Lists
<1>4. w.why # "invalid" /\ w.why # "incoming"
  BY <1>3
<1> DEFINE tl == IF w.why = "full" THEN BlockSize - u ELSE 0
<1>5. x = [valid |-> n, used |-> u, wasted |-> g + tl]
  BY <1>3, <1>4 DEF CollectedBlock
<1>6. tl \in WasteBehind(u) /\ tl \in Int
  <2>1. CASE u > BlockSize - HdrSize
    <3>1. w.why = "full"
      BY <2>1, <1>3
    <3>2. BlockSize - u < HdrSize
      BY <2>1, <1>2
    <3> QED BY <3>1, <3>2, <1>2 DEF WasteBehind
  <2>2. CASE ~(u > BlockSize - HdrSize)
    <3>1. w.why = "free"
      BY <2>2, <1>3
    <3>2. "free" # "full"
      OBVIOUS
    <3> QED BY <3>1, <3>2 DEF WasteBehind
  <2> QED BY <2>1, <2>2
<1> HIDE DEF tl, n, g, x
<1>7. x \in BlockType /\ x.valid = n /\ x.used = u /\ x.wasted = g + tl
  BY <1>2, <1>5, <1>6 DEF BlockType
<1>8. BlockOK(mem, b, x)
  <2>1. x.wasted - g = tl
    BY <1>2, <1>6, <1>7
  <2> QED BY <2>1, <1>1, <1>2, <1>6, <1>7 DEF BlockOK, n, g, BlockType
<1>9. MustErase(w) => Held(mem, b) = {} /\ n = 0
  <2>1. MustErase(w) => n = 0
    BY <1>7 DEF MustErase, x
  <2>2. IsFiniteSet(Held(mem, b))
    BY HeldFinite
  <2> QED BY <2>1, <2>2, FS_EmptySet DEF n
<1>10. EmptyBlock \in BlockType
  BY DEF EmptyBlock, BlockType
<1>11. CASE MustErase(w)
  <2>1. new = EraseAll(mem, b)
    BY <1>11
  <2>2. \A o \in CellsOf(b) : new[o] = Erased
    BY <2>1, EraseIs
  <2>3. BlockOK(new, b, EmptyBlock) /\ Laid(new, b, 0) /\ Held(new, b) = {}
    BY <2>2, ErasedBlock
  <2> QED BY <2>3, <1>9, <1>10, <1>11 DEF ScannedBlock
<1>12. CASE ~MustErase(w)
  <2>1. new = mem /\ ScannedBlock(w) = x
    BY <1>12 DEF ScannedBlock, x
  <2>2. ASSUME Laid(mem, b, 0) PROVE x = EmptyBlock
    <3>1. Scans(mem, b, 0, w)
      BY <2>2 DEF Scans
    <3>2. Lists(mem, b, 0, w)
      BY <3>1, ScanLists
    <3>3. u = 0
      BY <3>2, <1>3 DEF Lists
    <3>4. \A o \in CellsOf(b) : mem[o] = Erased
      BY <2>2, BlockCells DEF Laid, CellsOf
    <3>5. Held(mem, b) = {} /\ Gone(mem, b) = {}
      BY <3>4, ErasedBlock
    <3>6. n = 0 /\ g = 0
      BY <3>5, FS_EmptySet DEF n, g
    <3>7. w.why = "free"
      BY <3>3, <1>3, Sizes
    <3>8. tl = 0
      BY <3>7 DEF tl
    <3> QED BY <3>3, <3>6, <3>8, <1>5 DEF EmptyBlock
  <2> QED BY <2>1, <2>2, <1>7, <1>8, <1>12
<1> QED BY <1>11, <1>12

\* What the scan of block b does to the tables.
Collects(t, t2, b, w) ==
    /\ t2 \in TabType /\ t2.list = t.list \o ListedEntries(w)
    /\ t2.inc = t.inc /\ t2.out = t.out /\ t2.unsynced = t.unsynced + Len(w.listed)
    /\ \A c \in Block : c # b => t2.blk[c] = t.blk[c]
    /\ t2.blk[b] = ScannedBlock(w)

\* What the scan of a block adds to the tables.
LEMMA CollectedIs ==
    ASSUME NEW t \in TabType, NEW mem, NEW b \in Block, NEW u, NEW w, Scans(mem, b, u, w),
           ScannedBlock(w) \in BlockType, t.list \o ListedEntries(w) \in Seq(EntryType),
           NEW t2, t2 = Collected(t, b, w)
    PROVE  Collects(t, t2, b, w)
<1> DEFINE n == Len(w.listed)
           v == Unsync(t, n)
           l == t.list \o ListedEntries(w)
           x == ScannedBlock(w)
<1>1. /\ Len(w.listed) \in Nat
      /\ SelectInSeq(w.listed, LAMBDA r : r.st = "INCOMING") = 0
      /\ SelectInSeq(w.listed, LAMBDA r : r.st = "OUTGOING") = 0
  BY ListedEntriesAre, Zenon
<1>2. /\ v \in TabType /\ Same(v, t) /\ v.blk = t.blk /\ v.unsynced = t.unsynced + n
  <2>1. n \in Int
    BY <1>1
  <2> HIDE DEF n
  <2> QED BY <2>1, UnsyncIs
<1>3. v.list = t.list /\ v.inc = t.inc /\ v.out = t.out
  BY <1>2 DEF Same
<1> HIDE DEF n
<1>4. t2 = [v EXCEPT !.list = @ \o ListedEntries(w), !.blk[b] = x, !.inc = @, !.out = @]
  BY <1>1 DEF Collected, ListedEntries, ScannedBlock, n
<1> HIDE DEF v
<1> DEFINE bs == [v.blk EXCEPT ![b] = x]
<1>5. t2 = [v EXCEPT !.list = l, !.blk = bs]
  BY <1>2, <1>3, <1>4, Zenon DEF TabType
<1>6. bs \in [Block -> BlockType] /\ bs[b] = x /\ \A c \in Block : c # b => bs[c] = t.blk[c]
  BY <1>2 DEF TabType
<1>7. l \in Seq(EntryType)
  OBVIOUS
<1> HIDE DEF bs, l, x
<1>8. /\ t2 \in TabType /\ t2.list = l /\ t2.blk = bs /\ t2.inc = v.inc /\ t2.out = v.out
      /\ t2.unsynced = v.unsynced
  BY <1>2, <1>5, <1>6, <1>7, Zenon DEF TabType
<1> QED BY <1>2, <1>3, <1>6, <1>8 DEF n, l, x, Collects

\* What an initialization has scanned so far.
ScannedTo(fl, t, n) ==
    /\ t.inc = NoOff /\ t.out = NoOff /\ t.unsynced \in Nat \ {0}
    /\ \A b \in Block : IF b < n THEN BlockOK(fl, b, t.blk[b])
                        ELSE t.blk[b] = EmptyBlock /\ \E u \in 0..BlockSize : Laid(fl, b, u)
    /\ \E b \in Block : IsFree(t, b) /\ Laid(fl, b, 0)
    /\ StatusesOK(fl, NoOff, NoOff)
    /\ HeldBelow(fl, n) = Range(t.list)
    /\ \A d, e \in HeldBelow(fl, NumBlocks) : d # e => d.id # e.id
    /\ Distinct(t.list)

\* The records of one block more.
LEMMA HeldMore ==
    ASSUME NEW fl, NEW b \in Nat
    PROVE  HeldBelow(fl, b + 1) = HeldBelow(fl, b) \cup Held(fl, b)
<1>1. \A c : c \in 0..((b + 1) - 1) <=> c \in 0..(b - 1) \/ c = b
  OBVIOUS
<1> QED BY <1>1 DEF HeldBelow

\* Erasing what has no records changes nothing that is held.
LEMMA ErasedSame ==
    ASSUME NEW fl, NEW b \in Block, NEW fl2,
           fl2 = fl \/ (fl2 = EraseAll(fl, b) /\ Held(fl, b) = {} /\ Held(fl2, b) = {})
    PROVE  /\ \A c \in Block : c # b =>
                /\ \A u : Laid(fl, c, u) => Laid(fl2, c, u)
                /\ \A x : BlockOK(fl, c, x) => BlockOK(fl2, c, x)
           /\ \A c \in Block : Held(fl2, c) = Held(fl, c)
           /\ StatusesOK(fl, NoOff, NoOff) => StatusesOK(fl2, NoOff, NoOff)
<1>1. CASE fl2 = fl
  BY <1>1
<1>2. CASE fl2 = EraseAll(fl, b) /\ Held(fl, b) = {} /\ Held(fl2, b) = {}
  <2>1. /\ \A o \in CellsOf(b) : fl2[o] = Erased
        /\ \A o \in Off : o \notin CellsOf(b) => fl2[o] = fl[o]
    BY <1>2, EraseIs
  <2>2. ASSUME NEW c \in Block, c # b
        PROVE  /\ \A u : Laid(fl, c, u) => Laid(fl2, c, u)
               /\ \A x : BlockOK(fl, c, x) => BlockOK(fl2, c, x)
               /\ Held(fl2, c) = Held(fl, c)
    <3>1. \A o \in CellsOf(c) : fl2[o] = fl[o]
      BY <2>1, <2>2, BlocksApart
    <3>2. /\ \A u : Laid(fl, c, u) => Laid(fl2, c, u)
          /\ \A x : BlockOK(fl, c, x) => BlockOK(fl2, c, x)
      BY <3>1, SameBlock
    <3>3. \A o \in CellsOf(c) : fl[o] = fl2[o]
      BY <3>1
    <3>4. Heads(fl2, c) = Heads(fl, c)
      BY <3>1 DEF Heads
    <3>5. LiveHeads(fl2, c) = LiveHeads(fl, c)
      BY <3>1, <3>4 DEF LiveHeads, Heads
    <3>6. \A o \in LiveHeads(fl, c) : RecordOf(fl2, o) = RecordOf(fl, o)
      BY <3>1 DEF LiveHeads, Heads, RecordOf
    <3>7. Held(fl2, c) = Held(fl, c)
      BY <3>5, <3>6 DEF Held
    <3> QED BY <3>2, <3>7
  <2>3. StatusesOK(fl, NoOff, NoOff) => StatusesOK(fl2, NoOff, NoOff)
    BY <2>1, HeaderFields DEF StatusesOK
  <2> QED BY <1>2, <2>2, <2>3
<1> QED BY <1>1, <1>2

\* After the scan of block b the tables say what the blocks up to b hold.
LEMMA ScanMore ==
    ASSUME NEW fl, NEW t \in TabType, NEW b \in Block, ScannedTo(fl, t, b),
           NEW w, w = Walk(fl, b), NEW t2, t2 = Collected(t, b, w),
           NEW fl2, fl2 = IF MustErase(w) THEN EraseAll(fl, b) ELSE fl
    PROVE  ScannedTo(fl2, t2, b + 1) /\ t2 \in TabType
<1>1. /\ t.inc = NoOff /\ t.out = NoOff /\ t.unsynced \in Nat \ {0}
      /\ StatusesOK(fl, NoOff, NoOff) /\ HeldBelow(fl, b) = Range(t.list) /\ Distinct(t.list)
      /\ \A d, e \in HeldBelow(fl, NumBlocks) : d # e => d.id # e.id
  BY DEF ScannedTo
<1>2. b \in Nat /\ ~(b < b)
  BY BlockCells
<1>3. PICK u \in 0..BlockSize : Laid(fl, b, u)
  BY <1>2 DEF ScannedTo
<1>4. Scans(fl, b, u, w)
  <2>1. ASSUME NEW o \in Heads(fl, b) PROVE StatusOf(fl[o]) \in {"VALID", "DELETED"}
    <3>1. IsHeader(fl[o]) /\ o \in Off
      BY BlockCells DEF Heads
    <3>2. o # NoOff
      BY <3>1, LayoutAssumption
    <3> QED BY <3>1, <3>2, <1>1 DEF StatusesOK
  <2>2. \A d, e \in Held(fl, b) : d # e => d.id # e.id
    BY <1>1, AllHeld
  <2> QED BY <2>1, <2>2, <1>3 DEF Scans, Passive
<1>5. /\ Distinct(ListedEntries(w)) /\ Range(ListedEntries(w)) = Held(fl, b) /\ Len(w.listed) \in Nat
  BY <1>4, ListedEntriesAre, Zenon
<1>6. /\ ScannedBlock(w) \in BlockType
      /\ BlockOK(fl2, b, ScannedBlock(w)) /\ Held(fl2, b) = Held(fl, b)
      /\ MustErase(w) => Held(fl, b) = {}
      /\ Laid(fl, b, 0) => ScannedBlock(w) = EmptyBlock /\ Laid(fl2, b, 0)
  BY <1>4, ScannedBlockIs
<1>7. /\ \A c \in Block : c # b =>
                /\ \A v : Laid(fl, c, v) => Laid(fl2, c, v)
                /\ \A x : BlockOK(fl, c, x) => BlockOK(fl2, c, x)
      /\ \A c \in Block : Held(fl2, c) = Held(fl, c)
      /\ StatusesOK(fl, NoOff, NoOff) => StatusesOK(fl2, NoOff, NoOff)
  <2>1. fl2 = fl \/ (fl2 = EraseAll(fl, b) /\ Held(fl, b) = {} /\ Held(fl2, b) = {})
    <3>1. CASE MustErase(w)
      BY <3>1, <1>6
    <3>2. CASE ~MustErase(w)
      BY <3>2
    <3> QED BY <3>1, <3>2
  <2> QED BY ONLY <2>1, b \in Block, ErasedSame
<1> DEFINE es == ListedEntries(w)
           l == t.list \o es
<1>8. Distinct(l) /\ Range(l) = Range(t.list) \cup Held(fl, b)
  <2>1. ASSUME NEW k \in 1..Len(t.list), NEW m \in 1..Len(es)
        PROVE  t.list[k].off # es[m].off /\ t.list[k].id # es[m].id
    <3> DEFINE d == t.list[k]
               e == es[m]
    <3>1. d \in HeldBelow(fl, b)
      BY <1>1, ListIs
    <3>2. PICK c \in 0..(b - 1) : d \in Held(fl, c)
      BY <3>1 DEF HeldBelow
    <3>3. c \in Block /\ c # b
      BY <1>2, Sizes DEF Block
    <3>4. e \in Held(fl, b)
      BY <1>5, ListIs
    <3> HIDE DEF d, e
    <3>5. d.off \in CellsOf(c) /\ e.off \in CellsOf(b)
      BY <3>2, <3>3, <3>4, HeldIs
    <3>6. d.off # e.off
      BY <3>3, <3>5, BlocksApart
    <3>7. d.id # e.id
      BY <3>2, <3>3, <3>4, <3>6, <1>1, AllHeld
    <3> QED BY <3>6, <3>7 DEF d, e
  <2> HIDE DEF es
  <2>2. Distinct(t.list) /\ Distinct(es) /\ Range(es) = Held(fl, b)
    BY <1>1, <1>5 DEF es
  <2> QED BY ONLY <2>1, <2>2, ConcatList
<1> HIDE DEF l
<1>9. /\ t2 \in TabType /\ t2.list = l
      /\ t2.inc = t.inc /\ t2.out = t.out /\ t2.unsynced = t.unsynced + Len(w.listed)
      /\ \A c \in Block : c # b => t2.blk[c] = t.blk[c]
      /\ t2.blk[b] = ScannedBlock(w)
  <2>1. l \in Seq(EntryType)
    BY <1>8 DEF Distinct
  <2>2. t.list \o ListedEntries(w) \in Seq(EntryType) /\ t2 = Collected(t, b, w)
    BY <2>1 DEF l
  <2>4. ScannedBlock(w) \in BlockType
    BY <1>6
  <2>3. Collects(t, t2, b, w)
    BY ONLY <1>4, <2>4, <2>2, t \in TabType, b \in Block, CollectedIs
  <2> QED BY <2>3 DEF l, Collects
<1>10. ASSUME NEW c \in Block
       PROVE  IF c < b + 1 THEN BlockOK(fl2, c, t2.blk[c])
              ELSE t2.blk[c] = EmptyBlock /\ \E v \in 0..BlockSize : Laid(fl2, c, v)
  <2>1. c \in Nat
    BY BlockCells
  <2>2. CASE c = b
    <3>1. c < b + 1
      BY <2>1, <2>2, <1>2
    <3> QED BY <2>2, <3>1, <1>6, <1>9
  <2>3. CASE c # b
    <3>1. c < b + 1 <=> c < b
      BY <2>1, <2>3, <1>2
    <3>2. t2.blk[c] = t.blk[c]
      BY <2>3, <1>9
    <3>3. IF c < b THEN BlockOK(fl, c, t.blk[c])
          ELSE t.blk[c] = EmptyBlock /\ \E v \in 0..BlockSize : Laid(fl, c, v)
      BY DEF ScannedTo
    <3> QED BY <2>3, <3>1, <3>2, <3>3, <1>7
  <2> QED BY <2>2, <2>3
<1>11. \E c \in Block : IsFree(t2, c) /\ Laid(fl2, c, 0)
  <2>1. PICK c \in Block : IsFree(t, c) /\ Laid(fl, c, 0)
    BY DEF ScannedTo
  <2>2. CASE c = b
    BY <2>1, <2>2, <1>6, <1>9 DEF IsFree
  <2>3. CASE c # b
    BY <2>1, <2>3, <1>7, <1>9 DEF IsFree
  <2> QED BY <2>2, <2>3
<1>12. HeldBelow(fl2, b + 1) = Range(t2.list)
  <2>1. \A c \in 0..(b - 1) : c \in Block
    BY <1>2, BlockCells, Sizes DEF Block
  <2>2. HeldBelow(fl2, b) = HeldBelow(fl, b)
    BY <2>1, <1>7 DEF HeldBelow
  <2>3. HeldBelow(fl2, b + 1) = HeldBelow(fl2, b) \cup Held(fl2, b)
    BY <1>2, HeldMore
  <2> QED BY <2>2, <2>3, <1>1, <1>6, <1>8, <1>9, Zenon
<1>13. HeldBelow(fl2, NumBlocks) = HeldBelow(fl, NumBlocks)
  <2>1. \A e : e \in HeldBelow(fl2, NumBlocks) <=> e \in HeldBelow(fl, NumBlocks)
    BY <1>7, AllHeld
  <2> QED BY <2>1
<1>14. t2.unsynced \in Nat \ {0}
  BY <1>1, <1>5, <1>9
<1>15. Distinct(t2.list) /\ t2.inc = NoOff /\ t2.out = NoOff /\ StatusesOK(fl2, NoOff, NoOff)
  BY <1>1, <1>7, <1>8, <1>9
<1>16. \A d, e \in HeldBelow(fl2, NumBlocks) : d # e => d.id # e.id
  BY <1>1, <1>13
<1> QED BY <1>9, <1>10, <1>11, <1>12, <1>14, <1>15, <1>16 DEF ScannedTo

\* The states of an initialization, by what it has scanned.
LEMMA StartsIs ==
    ASSUME NEW fl, NEW t, NEW s
    PROVE  Starts(fl, t, s) <=>
             LET f == s[1]
             IN /\ Len(s) = 1 /\ s = <<f>> /\ f = InitFrame(f.phase, f.b, "none")
                /\ f.phase \in {"scan", "incoming", "reclaim"} /\ f.b \in Block
                /\ ScannedTo(fl, t, IF f.phase = "scan" THEN f.b ELSE NumBlocks)
BY DEF Starts, ScannedTo

\* ... and back.
LEMMA StartsWith ==
    ASSUME NEW fl, NEW t, NEW ph \in {"scan", "incoming", "reclaim"}, NEW b \in Block,
           ScannedTo(fl, t, IF ph = "scan" THEN b ELSE NumBlocks),
           NEW s, s = <<InitFrame(ph, b, "none")>>
    PROVE  Starts(fl, t, s)
<1> DEFINE f == InitFrame(ph, b, "none")
<1>1. s[1] = f /\ Len(s) = 1 /\ s = <<f>>
  BY OneLong
<1>2. f.phase = ph /\ f.b = b
  BY InitFrameIs
<1>3. s = <<s[1]>> /\ s[1] = InitFrame(s[1].phase, s[1].b, "none") /\ s[1].phase = ph /\ s[1].b = b
  BY <1>1, <1>2
<1> QED BY <1>1, <1>3, StartsIs

\* ScanBlock keeps the invariant.
LEMMA ScanIs ==
    ASSUME NEW fl, Flashes(fl), NEW t \in TabType, NEW s, Starts(fl, t, s), s[1].phase = "scan",
           NEW w, w = Walk(fl, s[1].b), NEW t2, t2 = Collected(t, s[1].b, w),
           NEW fl2, fl2 = IF MustErase(w) THEN EraseAll(fl, s[1].b) ELSE fl,
           NEW s2, s2 = IF s[1].b + 1 < NumBlocks THEN <<InitFrame("scan", s[1].b + 1, "none")>>
                        ELSE <<InitFrame("incoming", 0, "none")>>
    PROVE  Starts(fl2, t2, s2) /\ t2 \in TabType /\ Flashes(fl2)
<1>1. PICK b \in Block : b = s[1].b
  BY StartsIs
<1>2. ScannedTo(fl, t, b)
  BY <1>1, StartsIs
<1>3. ScannedTo(fl2, t2, b + 1) /\ t2 \in TabType
  <2>1. /\ w = Walk(fl, b) /\ t2 = Collected(t, b, w)
        /\ fl2 = IF MustErase(w) THEN EraseAll(fl, b) ELSE fl
    BY <1>1
  <2> QED BY ONLY <2>1, <1>1, <1>2, t \in TabType, ScanMore
<1>4. Flashes(fl2)
  <2>1. CASE MustErase(w)
    <3>1. fl2 = EraseAll(fl, b)
      BY <2>1, <1>1
    <3> QED BY ONLY <3>1, <1>1, EraseIs
  <2>2. CASE ~MustErase(w)
    BY <2>2
  <2> QED BY <2>1, <2>2
<1>5. b \in Nat /\ b < NumBlocks /\ NumBlocks \in Nat /\ NumBlocks >= 2
  BY <1>1, Sizes DEF Block
<1>6. CASE b + 1 < NumBlocks
  <2>1. b + 1 \in Block
    BY <1>5, <1>6 DEF Block
  <2>2. s2 = <<InitFrame("scan", b + 1, "none")>>
    BY <1>1, <1>6
  <2>3. "scan" \in {"scan", "incoming", "reclaim"}
        /\ ScannedTo(fl2, t2, IF "scan" = "scan" THEN b + 1 ELSE NumBlocks)
    BY <1>3
  <2>4. Starts(fl2, t2, s2)
    BY ONLY <2>1, <2>2, <2>3, StartsWith, Zenon
  <2> QED BY <2>4, <1>3, <1>4
<1>7. CASE ~(b + 1 < NumBlocks)
  <2>1. b + 1 = NumBlocks /\ 0 \in Block
    BY <1>5, <1>7 DEF Block
  <2>2. s2 = <<InitFrame("incoming", 0, "none")>>
    BY <1>1, <1>7
  <2>3. "incoming" \in {"scan", "incoming", "reclaim"}
        /\ ScannedTo(fl2, t2, IF "incoming" = "scan" THEN 0 ELSE NumBlocks)
    BY <1>3, <2>1
  <2>4. Starts(fl2, t2, s2)
    BY ONLY <2>1, <2>2, <2>3, StartsWith
  <2> QED BY <2>4, <1>3, <1>4
<1> QED BY <1>6, <1>7

\* The blocks with records, and the last of them.
UsedIn(t) == {b \in Block : t.blk[b].valid # 0}
LastUsed(t) ==
    IF UsedIn(t) = {} THEN t.recent ELSE CHOOSE b \in UsedIn(t) : \A c \in UsedIn(t) : c <= b

\* The tables at the end of an initialization.
Initialized(t, r) == [t EXCEPT !.unsynced = 0, !.recent = r]

\* A set of blocks that is not empty has a last one.
LEMMA LargestBlock ==
    ASSUME NEW T, T \subseteq Block, T # {}
    PROVE  (CHOOSE b \in T : \A c \in T : c <= b) \in T
<1>1. NumBlocks \in Nat /\ \A b \in Block : b \in Nat /\ b < NumBlocks
  BY Sizes DEF Block
<1> DEFINE U == {NumBlocks - b : b \in T}
<1>2. U \subseteq Nat /\ U # {}
  BY <1>1
<1>3. PICK x \in U : \A y \in U : x <= y
  BY <1>2, SmallestIn, Zenon
<1>4. PICK b \in T : x = NumBlocks - b
  BY <1>3
<1>5. \A c \in T : c <= b
  <2>1. SUFFICES ASSUME NEW c \in T PROVE c <= b
    OBVIOUS
  <2>2. NumBlocks - b <= NumBlocks - c
    BY <1>3, <1>4
  <2> QED BY <2>2, <1>1
<1> QED BY <1>5

\* The tables at the end of an initialization.
LEMMA InitializedIs ==
    ASSUME NEW t \in TabType, NEW r \in Block, NEW t2, t2 = Initialized(t, r)
    PROVE  /\ t2 \in TabType /\ t2.list = t.list /\ t2.blk = t.blk /\ t2.inc = t.inc /\ t2.out = t.out
           /\ t2.unsynced = 0
<1>1. t2 = [list |-> t.list, blk |-> t.blk, inc |-> t.inc, out |-> t.out, unsynced |-> 0, recent |-> r]
  BY Zenon DEF Initialized, TabType
<1> QED BY <1>1 DEF TabType

\* InitDone keeps the invariant, and the count of free blocks, a UINT8, is 0
\* only if there are 256 blocks or more.
LEMMA InitDoneIs ==
    ASSUME NEW fl, NEW t \in TabType, NEW s, Starts(fl, t, s), s[1].phase = "reclaim", NEW p,
           NEW t2, t2 = Initialized(t, LastUsed(t))
    PROVE  /\ Running(fl, t2, <<>>, p) /\ t2 \in TabType
           /\ \A b \in Block : t.blk[b].valid >= 0
           /\ (NumBlocks - Cardinality(UsedIn(t))) % 256 = 0 => NumBlocks >= 256
<1> DEFINE r == LastUsed(t)
<1>1. ScannedTo(fl, t, NumBlocks)
  <2>1. "reclaim" # "scan"
    OBVIOUS
  <2> QED BY <2>1, StartsIs
<1>2. /\ t.inc = NoOff /\ t.out = NoOff /\ t.unsynced \in Nat \ {0}
      /\ StatusesOK(fl, NoOff, NoOff) /\ HeldBelow(fl, NumBlocks) = Range(t.list) /\ Distinct(t.list)
      /\ \E b \in Block : IsFree(t, b)
  BY <1>1 DEF ScannedTo
<1>3. \A b \in Block : b < NumBlocks /\ b \in Nat
  BY Sizes DEF Block
<1>4. \A b \in Block : BlockOK(fl, b, t.blk[b])
  BY <1>1, <1>3 DEF ScannedTo
<1>5. Store(fl, NoOff, NoOff, t.blk, Range(t.list))
  BY <1>2, <1>4 DEF Store
<1>6. r \in Block
  <2>1. UsedIn(t) \subseteq Block
    BY DEF UsedIn
  <2>2. t.recent \in Block
    BY TabIs
  <2> QED BY <2>1, <2>2, LargestBlock DEF LastUsed
<1> HIDE DEF r
<1>7. /\ t2 \in TabType /\ t2.list = t.list /\ t2.blk = t.blk /\ t2.inc = t.inc /\ t2.out = t.out
      /\ t2.unsynced = 0
  <2>1. t2 = Initialized(t, r)
    BY DEF r
  <2> QED BY ONLY <2>1, <1>6, t \in TabType, InitializedIs
<1>8. Running(fl, t2, <<>>, p)
  <2>1. Store(fl, NoOff, NoOff, t2.blk, Range(t2.list)) /\ t2.unsynced \in Nat /\ Distinct(t2.list)
    BY <1>2, <1>5, <1>7
  <2>2. t2.inc = NoOff /\ t2.out = NoOff
    BY <1>2, <1>7
  <2>3. \E b \in Block : IsFree(t2, b)
    BY <1>2, <1>7 DEF IsFree
  <2> QED BY <1>7, <2>1, <2>2, <2>3, IdleMade
<1>9. \A b \in Block : t.blk[b].valid >= 0
  BY <1>4 DEF BlockOK
<1>10. ASSUME (NumBlocks - Cardinality(UsedIn(t))) % 256 = 0 PROVE NumBlocks >= 256
  <2>1. PICK b \in Block : IsFree(t, b)
    BY <1>2
  <2>2. b \notin UsedIn(t)
    BY <2>1 DEF UsedIn, IsFree, EmptyBlock
  <2>3. UsedIn(t) \subseteq Block \ {b}
    BY <2>2 DEF UsedIn
  <2>4. IsFiniteSet(Block) /\ Cardinality(Block) = NumBlocks
    <3>1. 0 \in Int /\ NumBlocks - 1 \in Int /\ NumBlocks \in Nat /\ NumBlocks >= 2
      BY Sizes
    <3>2. IsFiniteSet(0..(NumBlocks - 1)) /\ Cardinality(0..(NumBlocks - 1)) = (NumBlocks - 1) - 0 + 1
      BY <3>1, FS_Interval
    <3> QED BY <3>1, <3>2 DEF Block
  <2>5. IsFiniteSet(Block \ {b}) /\ Cardinality(Block \ {b}) = NumBlocks - 1
    BY <2>4, FS_RemoveElement
  <2>6. Cardinality(UsedIn(t)) <= NumBlocks - 1 /\ Cardinality(UsedIn(t)) \in Nat
    BY <2>3, <2>5, FS_Subset, FS_CardinalityType
  <2> DEFINE d == NumBlocks - Cardinality(UsedIn(t))
  <2>7. d \in Nat /\ d >= 1 /\ d <= NumBlocks /\ d % 256 = 0 /\ NumBlocks \in Nat
    BY <2>6, <1>10, Sizes
  <2> HIDE DEF d
  <2>8. d >= 256
    <3>1. ASSUME d < 256 PROVE FALSE
      <4>1. d % 256 = d
        BY <2>7, <3>1
      <4> QED BY <4>1, <2>7
    <3> QED BY <3>1, <2>7
  <2> QED BY <2>7, <2>8
<1> QED BY <1>7, <1>8, <1>9, <1>10

(***************************************************************************)
(* What the properties say of a store at rest.                             *)
(***************************************************************************)

\* Every block of a store at rest is one that ErstCollectBlock reads right.
LEMMA RestingScans ==
    ASSUME NEW fl, NEW blk, NEW es, Store(fl, NoOff, NoOff, blk, es),
           \A d, e \in es : d # e => d.id # e.id, NEW b \in Block
    PROVE  Scans(fl, b, blk[b].used, Walk(fl, b)) /\ BlockOK(fl, b, blk[b])
<1>1. BlockOK(fl, b, blk[b]) /\ StatusesOK(fl, NoOff, NoOff) /\ HeldBelow(fl, NumBlocks) = es
  BY DEF Store
<1>2. Laid(fl, b, blk[b].used)
  BY <1>1 DEF BlockOK
<1>3. ASSUME NEW o \in Heads(fl, b) PROVE StatusOf(fl[o]) \in {"VALID", "DELETED"}
  <2>1. IsHeader(fl[o]) /\ o \in Off
    BY BlockCells DEF Heads
  <2>2. o # NoOff
    BY <2>1, LayoutAssumption
  <2> QED BY <2>1, <2>2, <1>1 DEF StatusesOK
<1>4. \A d, e \in Held(fl, b) : d # e => d.id # e.id
  BY <1>1, AllHeld
<1> QED BY <1>1, <1>2, <1>3, <1>4 DEF Scans, Passive

\* ... as the properties say it.
LEMMA ListedIs ==
    ASSUME NEW mem, NEW b \in Block, NEW u, Scans(mem, b, u, Walk(mem, b))
    PROVE  /\ Listed(mem, b) = Held(mem, b)
           /\ EndOf(mem, b) = u /\ DeletedIn(mem, b) = Cardinality(Gone(mem, b))
<1> DEFINE w == Walk(mem, b)
<1>1. Lists(mem, b, u, w)
  BY ScanLists
<1>2. Len(w.listed) \in Nat
  BY <1>1 DEF Lists
<1> HIDE DEF w
<1>3. Range(w.listed) = {w.listed[i] : i \in 1..Len(w.listed)}
  <2>1. Walk(mem, b).listed \in Seq(ReadSet(mem, b))
    <3>1. Laid(mem, b, u)
      BY DEF Scans
    <3>2. \A o \in Heads(mem, b) : StatusOf(mem[o]) \notin {"INCOMING", "INVALID"}
      <4>1. \A o \in Heads(mem, b) : StatusOf(mem[o]) \in {"VALID", "DELETED"}
        BY DEF Scans, Passive
      <4> QED BY <4>1
    <3> QED BY <3>1, <3>2, WalkLaid
  <2>2. w.listed \in Seq(ReadSet(mem, b))
    BY <2>1 DEF w
  <2>3. DOMAIN w.listed = 1..Len(w.listed)
    BY <2>2
  <2> QED BY <2>3 DEF Range
<1>4. Listed(mem, b) = {Entry(r.id, r.len, r.off) : r \in Range(w.listed)}
  BY DEF Listed, w
<1>5. \A e : e \in Listed(mem, b) <=> e \in Held(mem, b)
  BY <1>1, <1>3, <1>4 DEF Lists
<1>6. w.end = u /\ w.deleted = Cardinality(Gone(mem, b))
  BY <1>1 DEF Lists
<1> QED BY <1>5, <1>6 DEF EndOf, DeletedIn, w

\* The tables of a store at rest.
Tallies(fl, t) ==
    /\ Range(t.list) = UNION {Listed(fl, b) : b \in Block}
    /\ Len(t.list) = Cardinality(Range(t.list))
    /\ \A b \in Block :
         /\ t.blk[b].valid = Cardinality(Listed(fl, b))
         /\ t.blk[b].wasted - DeletedIn(fl, b) \in WasteBehind(EndOf(fl, b))
         /\ t.blk[b].used = EndOf(fl, b)
    /\ \E b \in Block : IsFree(t, b) /\ BlockErased(fl, b)

\* A block without used space is erased.
LEMMA FreeErased ==
    ASSUME NEW fl, NEW b \in Block, NEW x, BlockOK(fl, b, x), x.used = 0
    PROVE  BlockErased(fl, b)
<1>1. Laid(fl, b, 0)
  BY DEF BlockOK
<1>2. \A o \in CellsOf(b) : o >= Base(b) + 0 => fl[o] = Erased
  BY <1>1 DEF Laid
<1>3. ASSUME NEW k \in 0..(BlockSize - 1) PROVE fl[Base(b) + k] = Erased
  <2>1. Base(b) \in Nat /\ BlockSize \in Nat
    BY BlockCells, Sizes
  <2>2. Base(b) + k \in CellsOf(b) /\ Base(b) + k >= Base(b) + 0
    BY <2>1 DEF CellsOf
  <2> QED BY <1>2, <2>2
<1> QED BY <1>3 DEF BlockErased

\* The tables between two requests are what a walk over the flash finds.
LEMMA TalliesIs ==
    ASSUME NEW fl, NEW t \in TabType, NEW p, Running(fl, t, <<>>, p)
    PROVE  Tallies(fl, t)
<1>1. /\ Store(fl, NoOff, NoOff, t.blk, Range(t.list)) /\ Distinct(t.list)
      /\ \E b \in Block : IsFree(t, b)
  BY IdleIs
<1>2. \A d, e \in Range(t.list) : d # e => d.id # e.id
  <2>1. SUFFICES ASSUME NEW d \in Range(t.list), NEW e \in Range(t.list), d # e PROVE d.id # e.id
    OBVIOUS
  <2>2. PICK k \in 1..Len(t.list) : t.list[k] = d
    BY <1>1, ListIs
  <2>3. PICK m \in 1..Len(t.list) : t.list[m] = e
    BY <1>1, ListIs
  <2> QED BY <2>1, <2>2, <2>3, <1>1 DEF Distinct
<1>3. ASSUME NEW b \in Block
      PROVE  /\ Listed(fl, b) = Held(fl, b) /\ EndOf(fl, b) = t.blk[b].used
             /\ DeletedIn(fl, b) = Cardinality(Gone(fl, b)) /\ BlockOK(fl, b, t.blk[b])
  <2>1. Scans(fl, b, t.blk[b].used, Walk(fl, b)) /\ BlockOK(fl, b, t.blk[b])
    BY ONLY <1>1, <1>2, b \in Block, RestingScans
  <2> QED BY <2>1, ListedIs
<1>4. Range(t.list) = UNION {Listed(fl, b) : b \in Block}
  <2>1. HeldBelow(fl, NumBlocks) = Range(t.list)
    BY <1>1 DEF Store
  <2>2. \A e : e \in Range(t.list) <=> \E b \in Block : e \in Listed(fl, b)
    BY <2>1, <1>3, AllHeld
  <2> QED BY <2>2
<1>5. Len(t.list) = Cardinality(Range(t.list))
  BY <1>1, RangeCount
<1>6. ASSUME NEW b \in Block
      PROVE  /\ t.blk[b].valid = Cardinality(Listed(fl, b))
             /\ t.blk[b].wasted - DeletedIn(fl, b) \in WasteBehind(EndOf(fl, b))
             /\ t.blk[b].used = EndOf(fl, b)
  BY <1>3 DEF BlockOK
<1>7. \E b \in Block : IsFree(t, b) /\ BlockErased(fl, b)
  <2>1. PICK b \in Block : IsFree(t, b)
    BY <1>1
  <2>2. t.blk[b].used = 0
    BY <2>1 DEF IsFree, EmptyBlock
  <2> QED BY <2>1, <2>2, <1>3, FreeErased
<1> QED BY <1>4, <1>5, <1>6, <1>7 DEF Tallies

\* Deleted records leave room for the header of a record that is held.
LEMMA DeadBesideLive ==
    ASSUME NEW mem, NEW b \in Block, NEW u, Laid(mem, b, u), Held(mem, b) # {}
    PROVE  Cardinality(Gone(mem, b)) + HdrSize <= u
<1>1. PICK e : e \in Held(mem, b)
  OBVIOUS
<1>2. /\ e.off \in CellsOf(b) /\ IsHeader(mem[e.off]) /\ StatusOf(mem[e.off]) # "DELETED"
  BY <1>1, HeldIs
<1> DEFINE o == e.off
           n == LenOf(mem[o])
<1>3. /\ u \in Nat /\ o \in Nat /\ Base(b) \in Nat /\ Base(b) <= o
      /\ n \in Nat /\ n >= HdrSize /\ o + n <= Base(b) + u
      /\ \A p \in CellsOf(b) : IsHeader(mem[p]) /\ p > o => p >= o + n
  BY <1>2, LaidRecord
<1> DEFINE B == Base(b)
           all  == B..(B + u - 1)
           mine == o..(o + n - 1)
<1>4. ASSUME NEW x \in Gone(mem, b) PROVE x \in all /\ x \notin mine
  <2>1. PICK p \in CellsOf(b) : /\ IsHeader(mem[p]) /\ StatusOf(mem[p]) = "DELETED"
                                /\ x \in p..(p + LenOf(mem[p]) - 1)
    BY GoneIs
  <2>2. p # o
    BY <2>1, <1>2
  <2>3. /\ p \in Nat /\ Base(b) <= p /\ LenOf(mem[p]) \in Nat /\ p + LenOf(mem[p]) <= Base(b) + u
        /\ \A q \in CellsOf(b) : IsHeader(mem[q]) /\ q > p => q >= p + LenOf(mem[p])
    BY <2>1, LaidRecord
  <2> DEFINE m == LenOf(mem[p])
  <2>4. x \in Int /\ p <= x /\ x < p + m /\ m \in Nat
    BY <2>1, <2>3
  <2>5. p > o => p >= o + n
    BY <2>1, <1>3
  <2>6. o > p => o >= p + m
    BY <2>3, <1>2, Zenon
  <2>7. p \in Nat /\ B <= p /\ p + m <= B + u
    BY <2>3
  <2>8. o \in Nat /\ n \in Nat /\ B \in Nat /\ u \in Nat
    BY <1>3
  <2> HIDE DEF o, n, m, B
  <2>9. x \in B..(B + u - 1)
    BY <2>4, <2>7, <2>8
  <2>10. x \notin o..(o + n - 1)
    BY <2>2, <2>4, <2>5, <2>6, <2>7, <2>8
  <2> QED BY <2>9, <2>10
<1>5. IsFiniteSet(all) /\ Cardinality(all) = u /\ IsFiniteSet(mine) /\ Cardinality(mine) = n
  BY <1>3, Counted, Zenon
<1>6. mine \subseteq all
  <2>1. o \in Nat /\ n \in Nat /\ B \in Nat /\ u \in Nat /\ B <= o /\ o + n <= B + u
    BY <1>3
  <2> HIDE DEF o, n, B
  <2> QED BY <2>1
<1>7. Gone(mem, b) \subseteq all \ mine
  BY <1>4
<1> HIDE DEF all, mine
<1>8. IsFiniteSet(all \ mine) /\ Cardinality(all \ mine) = Cardinality(all) - Cardinality(mine)
  <2>1. all \cap mine = mine
    BY <1>6
  <2>2. IsFiniteSet(all \ mine) /\ Cardinality(all \ mine) = Cardinality(all) - Cardinality(all \cap mine)
    BY <1>5, FS_Difference, Zenon
  <2> QED BY <2>1, <2>2
<1>9. Cardinality(Gone(mem, b)) <= Cardinality(all \ mine) /\ Cardinality(Gone(mem, b)) \in Nat
  BY <1>7, <1>8, FS_Subset, FS_CardinalityType
<1> DEFINE g == Cardinality(Gone(mem, b))
<1>10. g <= u - n /\ g \in Nat /\ u \in Nat /\ n \in Nat /\ n >= HdrSize /\ HdrSize \in Nat
  BY <1>3, <1>5, <1>8, <1>9, Sizes
<1> HIDE DEF g, n
<1> QED BY <1>10 DEF g

\* A block that the search refuses is erased, or what is live in it leaves no
\* room: UsedSize and WastedSize do not wrap around.
LEMMA FullIs ==
    ASSUME NEW fl, NEW t \in TabType, NEW b \in Block, BlockOK(fl, b, t.blk[b]),
           Scans(fl, b, t.blk[b].used, Walk(fl, b)), NEW n \in Nat,
           t.blk[b].valid = 0 => IsFree(t, b),
           t.blk[b].valid > 0 => ~(Live(t, b) + n <= BlockSize)
    PROVE  /\ t.blk[b].valid = 0 => BlockErased(fl, b)
           /\ t.blk[b].valid > 0 => LiveIn(fl, b) + n > BlockSize
<1> DEFINE x == t.blk[b]
           u == x.used
           g == Cardinality(Gone(fl, b))
<1>1. x.valid \in Nat
  BY DEF BlockOK
<1>2. CASE x.valid = 0
  <2>1. x.used = 0
    BY <1>2 DEF IsFree, EmptyBlock
  <2>2. BlockErased(fl, b)
    BY <2>1, FreeErased
  <2> QED BY <1>2, <2>2
<1>3. CASE x.valid > 0
  <2>1. Held(fl, b) # {}
    <3>1. x.valid = Cardinality(Held(fl, b))
      BY DEF BlockOK
    <3>2. Cardinality(Held(fl, b)) # 0
      BY <3>1, <1>3
    <3> QED BY <3>2, FS_EmptySet
  <2>2. Laid(fl, b, u)
    BY DEF BlockOK
  <2>3. g + HdrSize <= u
    BY <2>1, <2>2, DeadBesideLive
  <2>4. LiveIn(fl, b) = u - g
    BY ListedIs DEF LiveIn
  <2>5. PICK tl \in WasteBehind(u) : x.wasted - g = tl
    BY DEF BlockOK
  <2>6. g \in Nat /\ u \in 0..BlockSize /\ BlockSize \in Nat /\ HdrSize \in Nat
    BY <2>2, GoneFinite, Sizes DEF Laid
  <2>7. x.wasted \in Int
    BY DEF BlockOK
  <2>8. Word \in Nat /\ Word > BlockSize
    BY WordAssumption
  <2>9. ~(((u - x.wasted) % Word) + n <= BlockSize)
    BY <1>3 DEF Live
  <2> DEFINE v == x.wasted
  <2>10. v - g = tl /\ v \in Int /\ g + HdrSize <= u /\ ~(((u - v) % Word) + n <= BlockSize)
    BY <2>3, <2>5, <2>7, <2>9
  <2> HIDE DEF v, u, g
  <2>11. tl \in Nat /\ tl <= HdrSize
    BY <2>6 DEF WasteBehind
  <2>12. u - v \in Nat /\ u - v < Word /\ u - v <= u - g
    BY <2>6, <2>8, <2>10, <2>11
  <2>13. (u - v) % Word = u - v
    BY <2>8, <2>12
  <2>14. u - g + n > BlockSize
    BY <2>6, <2>10, <2>12, <2>13
  <2>15. LiveIn(fl, b) + n > BlockSize
    BY <2>4, <2>14
  <2> QED BY <1>3, <2>15
<1> QED BY <1>1, <1>2, <1>3

(***************************************************************************)
(* The steps of Erst. First what the invariant says where they are taken.  *)
(***************************************************************************)

\* The invariant in a state without frames.
LEMMA IdleState ==
    ASSUME StoreInv, mode = "up", stack = <<>>
    PROVE  /\ ~Initing /\ Running(flash, tab, <<>>, pending) /\ shadow = flash
           /\ Flashes(flash) /\ tab \in TabType
<1>1. ~Initing
  BY DEF Initing
<1> QED BY <1>1 DEF StoreInv, Flashes

\* ... in one with frames,
LEMMA UpState ==
    ASSUME StoreInv, stack # <<>>
    PROVE  mode = "up" /\ shadow = flash /\ Flashes(flash) /\ tab \in TabType
BY DEF StoreInv, Flashes

\* ... during an initialization,
LEMMA InitTop ==
    ASSUME StoreInv, stack # <<>>, Initing
    PROVE  Starts(flash, tab, stack) /\ stack[1].f = "init" /\ stack = <<stack[1]>> /\ Len(stack) = 1
<1>1. Starts(flash, tab, stack)
  BY UpState DEF StoreInv
<1>2. stack[1] = InitFrame(stack[1].phase, stack[1].b, "none") /\ stack = <<stack[1]>> /\ Len(stack) = 1
  BY <1>1, StartsIs
<1> DEFINE ph == stack[1].phase
           b == stack[1].b
<1>3. InitFrame(ph, b, "none").f = "init"
  BY ONLY InitFrameIs
<1>4. stack[1].f = "init"
  BY <1>2, <1>3
<1> QED BY <1>1, <1>2, <1>4

\* ... and otherwise.
LEMMA RunTop ==
    ASSUME StoreInv, stack # <<>>, ~Initing
    PROVE  /\ Running(flash, tab, stack, pending)
           /\ stack[1].f = "put" \/ stack[1].f = "reclaim"
<1>1. Running(flash, tab, stack, pending)
  BY UpState DEF StoreInv
<1>2. Shape(stack, tab.list, pending)
  BY <1>1 DEF Running
<1>3. \/ \E f \in PutType : stack = Stack1(f)
      \/ \E b \in Block, w \in PutType : stack = Stack2(b, w)
      \/ \E b \in Block, w \in PutType, f \in PutType : stack = Stack3(f, b, w)
  BY <1>2, ShapeIs
<1>4. \A f \in PutType : f.f = "put"
  BY DEF PutType
<1>5. ASSUME NEW f \in PutType, stack = Stack1(f) PROVE stack[1].f = "put"
  <2>1. stack[1] = f
    BY ONLY <1>5, Stack1Is
  <2> QED BY <2>1, <1>4
<1>6. ASSUME NEW b \in Block, NEW w \in PutType, stack = Stack2(b, w) PROVE stack[1].f = "reclaim"
  <2>1. stack[1] = ReclaimFrame(b)
    BY ONLY <1>6, Stack2Is
  <2>2. ReclaimFrame(b).f = "reclaim"
    BY ONLY DEF ReclaimFrame
  <2> QED BY <2>1, <2>2
<1>7. ASSUME NEW b \in Block, NEW w \in PutType, NEW f \in PutType, stack = Stack3(f, b, w)
      PROVE  stack[1].f = "put"
  <2>1. stack[1] = f
    BY ONLY <1>7, Stack3Is
  <2> QED BY <2>1, <1>4
<1> QED BY <1>1, <1>3, <1>5, <1>6, <1>7

\* The invariant where a record is looked after,
LEMMA PutState ==
    ASSUME StoreInv, Doing("put")
    PROVE  /\ mode = "up" /\ ~Initing /\ Running(flash, tab, stack, pending) /\ shadow = flash
           /\ Flashes(flash) /\ tab \in TabType /\ stack # <<>> /\ stack[1].f = "put"
<1>1. stack # <<>> /\ stack[1].f = "put"
  BY DEF Doing
<1>2. "put" # "init"
  OBVIOUS
<1>3. ~Initing
  BY <1>1, <1>2, InitTop
<1> QED BY <1>1, <1>3, UpState, RunTop

\* ... a block is reclaimed,
LEMMA ReclaimState ==
    ASSUME StoreInv, Doing("reclaim")
    PROVE  /\ mode = "up" /\ ~Initing /\ Running(flash, tab, stack, pending) /\ shadow = flash
           /\ Flashes(flash) /\ tab \in TabType /\ stack # <<>> /\ stack[1].f = "reclaim"
<1>1. stack # <<>> /\ stack[1].f = "reclaim"
  BY DEF Doing
<1>2. "reclaim" # "init"
  OBVIOUS
<1>3. ~Initing
  BY <1>1, <1>2, InitTop
<1> QED BY <1>1, <1>3, UpState, RunTop

\* ... and in each phase of an initialization.
LEMMA InitState ==
    ASSUME StoreInv, NEW ph, InPhase(ph)
    PROVE  /\ mode = "up" /\ Initing /\ Starts(flash, tab, stack) /\ shadow = flash
           /\ Flashes(flash) /\ tab \in TabType /\ stack # <<>> /\ stack[1].phase = ph
           /\ stack = <<stack[1]>> /\ Tail(stack) = <<>> /\ ph \in {"scan", "incoming", "reclaim"}
           /\ tab.inc = NoOff /\ tab.out = NoOff
<1>1. stack # <<>> /\ stack[1].f = "init" /\ stack[1].phase = ph
  BY DEF InPhase, Doing, Top
<1>2. "put" # "init" /\ "reclaim" # "init"
  OBVIOUS
<1>3. Initing
  BY <1>1, <1>2, RunTop
<1>4. Starts(flash, tab, stack) /\ stack = <<stack[1]>>
  BY <1>1, <1>3, InitTop
<1>5. Tail(stack) = <<>>
  <2> DEFINE f == stack[1]
  <2>1. stack = <<f>>
    BY <1>4
  <2> HIDE DEF f
  <2> QED BY ONLY <2>1, OneLong
<1>6. stack[1].phase \in {"scan", "incoming", "reclaim"} /\ tab.inc = NoOff /\ tab.out = NoOff
  BY <1>4 DEF Starts
<1> QED BY <1>1, <1>3, <1>4, <1>5, <1>6, UpState

\* The invariant after a step of a store that goes on running,
LEMMA RunsOn ==
    ASSUME mode' = "up", Running(flash', tab', stack', pending'), tab' \in TabType,
           Flashes(flash'), shadow' = flash', stack' = <<>> \/ PutBelow(stack'),
           pending' \in Request \cup {NoReq}, done' \in BOOLEAN,
           reply'.status \in {"none", "ok", "notfound", "error"}
    PROVE  StoreInv'
<1>1. ~(Initing')
  BY DEF Initing, PutBelow
<1>2. "up" # "off" /\ "up" # "failed"
  OBVIOUS
<1> QED BY <1>1, <1>2 DEF StoreInv, Flashes

\* ... and of one that goes on initializing.
LEMMA StartsOn ==
    ASSUME mode' = "up", Starts(flash', tab', stack'), tab' \in TabType,
           Flashes(flash'), shadow' = flash',
           pending' \in Request \cup {NoReq}, done' \in BOOLEAN,
           reply'.status \in {"none", "ok", "notfound", "error"}
    PROVE  StoreInv'
<1>1. Initing'
  <2>1. \A s : Starts(flash', tab', s) => s # <<>> /\ Last(s).f = "init"
    <3>1. SUFFICES ASSUME NEW s, Starts(flash', tab', s) PROVE s # <<>> /\ Last(s).f = "init"
      OBVIOUS
    <3>2. s = <<s[1]>> /\ s[1] = InitFrame(s[1].phase, s[1].b, "none")
      BY <3>1, StartsIs
    <3> DEFINE f == s[1]
               ph == f.phase
               b == f.b
    <3>3. InitFrame(ph, b, "none").f = "init"
      BY ONLY InitFrameIs
    <3>4. f.f = "init" /\ s = <<f>>
      BY <3>2, <3>3
    <3> HIDE DEF f
    <3>5. s # <<>> /\ Last(s) = f
      BY ONLY <3>4, OneLong
    <3> QED BY <3>4, <3>5
  <2> QED BY <2>1 DEF Initing
<1>2. "up" # "off" /\ "up" # "failed"
  OBVIOUS
<1> QED BY <1>1, <1>2 DEF StoreInv, Flashes

\* The fields of a request.
LEMMA RequestIs ==
    ASSUME NEW r \in Request
    PROVE  /\ r.id \in Id
           /\ r.op \in {"write", "dummy"} => r.len \in RecLen /\ r.val \in Val
           /\ r.op \in {"write", "dummy", "read", "clear"}
<1>1. CASE r \in [op : Ops \cap {"write", "dummy"}, id : Id, val : Val, len : RecLen]
  BY <1>1
<1>2. CASE r \in [op : Ops \cap {"read", "clear"}, id : Id, val : {NoVal}, len : {0}]
  <2>1. r.op \in {"read", "clear"} /\ r.id \in Id
    BY <1>2
  <2>2. "read" \notin {"write", "dummy"} /\ "clear" \notin {"write", "dummy"}
    OBVIOUS
  <2> QED BY <2>1, <2>2
<1> QED BY <1>1, <1>2 DEF Request

\* The status of an answer.
LEMMA ReplyIs ==
    ASSUME NEW st, NEW v, NEW n
    PROVE  Reply(st, v, n).status = st
BY DEF Reply

(***************************************************************************)
(* Each step keeps the invariant.                                          *)
(***************************************************************************)

\* An initialization starts.
LEMMA ScanStarts ==
    ASSUME Settles(flash), Flashes(flash), StartInit, flash' = flash,
           pending' \in Request \cup {NoReq}, done' \in BOOLEAN,
           reply'.status \in {"none", "ok", "notfound", "error"}
    PROVE  StoreInv'
<1>1. tab' = Unsync(EmptyTables, 1) /\ stack' = <<InitFrame("scan", 0, "none")>>
      /\ mode' = "up" /\ shadow' = flash
  BY DEF StartInit
<1>2. Starts(flash, tab', stack') /\ tab' \in TabType
  BY ONLY <1>1, Settles(flash), StartScan
<1>3. Starts(flash', tab', stack') /\ shadow' = flash' /\ Flashes(flash')
  BY <1>1, <1>2
<1> QED BY <1>1, <1>2, <1>3, StartsOn

\* PowerOn keeps the invariant.
LEMMA PowerOnKeeps ==
    ASSUME StoreInv, PowerOn
    PROVE  StoreInv'
<1>1. mode = "off" /\ StartInit /\ UNCHANGED <<flash, pending, done, reply>>
  BY DEF PowerOn
<1>2. \A o \in Off : flash[o] = Erased
  BY <1>1 DEF StoreInv
<1>3. Settles(flash)
  BY ONLY <1>2, ErasedSettles
<1>4. Flashes(flash) /\ pending' \in Request \cup {NoReq} /\ done' \in BOOLEAN
      /\ reply'.status \in {"none", "ok", "notfound", "error"}
  BY <1>1 DEF StoreInv, Flashes
<1> QED BY <1>1, <1>3, <1>4, ScanStarts

\* A driver whose initialization has failed only answers.
LEMMA FailedKeeps ==
    ASSUME StoreInv, mode = "failed", UNCHANGED <<flash, tab, mode, stack>>,
           pending' \in Request \cup {NoReq}, done' \in BOOLEAN,
           reply'.status \in {"none", "ok", "notfound", "error"}
    PROVE  StoreInv'
<1>1. "failed" # "off" /\ "failed" # "up"
  OBVIOUS
<1> QED BY <1>1 DEF StoreInv

\* A step between two requests leaves the store as it is.
LEMMA AnswerKeeps ==
    ASSUME StoreInv, mode = "up", stack = <<>>, UNCHANGED <<flash, shadow, tab, mode, stack>>,
           pending' # NoReq => tab.unsynced = 0,
           pending' \in Request \cup {NoReq}, done' \in BOOLEAN,
           reply'.status \in {"none", "ok", "notfound", "error"}
    PROVE  StoreInv'
<1>1. Running(flash, tab, <<>>, pending) /\ shadow = flash /\ Flashes(flash) /\ tab \in TabType
  BY IdleState
<1>2. Running(flash, tab, <<>>, pending')
  BY ONLY <1>1, pending' # NoReq => tab.unsynced = 0, AnswerIs
<1>3. /\ mode' = "up" /\ Running(flash', tab', stack', pending') /\ tab' \in TabType
      /\ Flashes(flash') /\ shadow' = flash' /\ stack' = <<>>
  BY <1>1, <1>2
<1> QED BY <1>3, RunsOn

\* No answer has been given.
LEMMA NoReplyIs == NoReply.status = "none"
BY ReplyIs DEF NoReply

\* Receive keeps the invariant: whether the tables are in sync or ReInit
\* starts.
LEMMA ReceiveKeeps ==
    ASSUME StoreInv, NEW r \in Request, Receive(r)
    PROVE  StoreInv'
<1>1. /\ mode \in {"up", "failed"} /\ stack = <<>> /\ pending' = r /\ done' = FALSE
      /\ reply' = NoReply /\ flash' = flash
  BY DEF Receive
<1>2. pending' \in Request \cup {NoReq} /\ done' \in BOOLEAN
      /\ reply'.status \in {"none", "ok", "notfound", "error"}
  BY <1>1, NoReplyIs, Zenon
<1>3. CASE mode = "up" /\ Stale
  <2>1. StartInit
    BY <1>3 DEF Receive
  <2>2. Running(flash, tab, <<>>, pending) /\ Flashes(flash) /\ tab \in TabType
    BY <1>1, <1>3, IdleState
  <2>3. Settles(flash)
    BY ONLY <2>2, RunningSettles
  <2> QED BY <1>1, <1>2, <2>1, <2>2, <2>3, ScanStarts
<1>4. CASE mode = "up" /\ ~Stale
  <2>1. UNCHANGED <<tab, shadow, stack, mode>>
    BY <1>4 DEF Receive
  <2>2. tab.unsynced = 0
    BY <1>4 DEF Stale
  <2> QED BY <1>1, <1>2, <1>4, <2>1, <2>2, AnswerKeeps
<1>5. CASE mode = "failed"
  <2>1. UNCHANGED <<tab, shadow, stack, mode>>
    <3>1. "failed" # "up"
      OBVIOUS
    <3> QED BY <1>5, <3>1 DEF Receive
  <2> QED BY <1>1, <1>2, <1>5, <2>1, FailedKeeps
<1> QED BY <1>1, <1>3, <1>4, <1>5

\* An answer that changes nothing else.
LEMMA AnsweredKeeps ==
    ASSUME StoreInv, mode = "failed" \/ Handling, NEW rep, Answer(rep),
           rep.status \in {"none", "ok", "notfound", "error"}, tab' = tab
    PROVE  StoreInv'
<1>1. reply' = rep /\ pending' = NoReq /\ UNCHANGED <<flash, shadow, done, mode, stack>>
  BY DEF Answer, NoFlashOp
<1>2. pending' \in Request \cup {NoReq} /\ done' \in BOOLEAN
      /\ reply'.status \in {"none", "ok", "notfound", "error"}
  BY <1>1 DEF StoreInv
<1>3. CASE mode = "failed"
  BY <1>1, <1>2, <1>3, FailedKeeps
<1>4. CASE Handling
  <2>1. mode = "up" /\ stack = <<>>
    BY <1>4 DEF Handling
  <2> QED BY <1>1, <1>2, <2>1, AnswerKeeps
<1> QED BY <1>3, <1>4

\* The answers that change nothing else.
LEMMA AnsweredAnyKeeps ==
    ASSUME StoreInv,
           AnswerFailed \/ AnswerDone \/ AnswerRead \/ ClearNotFound
    PROVE  StoreInv'
<1>1. CASE AnswerFailed
  <2>1. mode = "failed" /\ Answer(Reply("error", NoVal, NoId)) /\ tab' = tab
    BY <1>1 DEF AnswerFailed
  <2>2. Reply("error", NoVal, NoId).status = "error"
    BY ReplyIs
  <2> QED BY <2>1, <2>2, AnsweredKeeps
<1>2. CASE AnswerDone
  <2> DEFINE n == IF pending.op = "clear" THEN FirstId(tab) ELSE NoId
  <2>1. Handling /\ Answer(Reply("ok", NoVal, n)) /\ tab' = tab
    BY <1>2 DEF AnswerDone
  <2>2. Reply("ok", NoVal, n).status = "ok"
    BY ReplyIs
  <2> QED BY <2>1, <2>2, AnsweredKeeps
<1>3. CASE AnswerRead
  <2> DEFINE e == EntryAt(tab, Found)
             rep == IF Found = NoOff
                      THEN Reply("notfound", NoVal, FirstId(tab))
                      ELSE Reply("ok", ValAt(shadow, e.off, e.len), NextId(tab, e.id))
  <2>1. Handling /\ Answer(rep) /\ tab' = tab
    BY <1>3 DEF AnswerRead
  <2>2. rep.status \in {"ok", "notfound"}
    <3>1. Reply("notfound", NoVal, FirstId(tab)).status = "notfound"
      BY ONLY ReplyIs
    <3>2. Reply("ok", ValAt(shadow, e.off, e.len), NextId(tab, e.id)).status = "ok"
      BY ONLY ReplyIs
    <3> QED BY <3>1, <3>2
  <2> HIDE DEF rep
  <2>3. rep.status \in {"none", "ok", "notfound", "error"}
    BY <2>2
  <2> QED BY <2>1, <2>3, AnsweredKeeps
<1>4. CASE ClearNotFound
  <2>1. Handling /\ Answer(Reply("notfound", NoVal, FirstId(tab))) /\ tab' = tab
    BY <1>4 DEF ClearNotFound
  <2>2. Reply("notfound", NoVal, FirstId(tab)).status = "notfound"
    BY ReplyIs
  <2> QED BY <2>1, <2>2, AnsweredKeeps
<1> QED BY <1>1, <1>2, <1>3, <1>4

\* The driver handles a request.
LEMMA HandlingState ==
    ASSUME StoreInv, Handling
    PROVE  /\ mode = "up" /\ stack = <<>> /\ Running(flash, tab, <<>>, pending) /\ shadow = flash
           /\ Flashes(flash) /\ tab \in TabType /\ pending # NoReq /\ pending \in Request
           /\ pending.id \in Id
           /\ pending.op \in {"write", "dummy"} => pending.len \in RecLen /\ pending.val \in Val
<1>1. mode = "up" /\ stack = <<>> /\ pending # NoReq
  BY DEF Handling
<1>2. pending \in Request
  BY <1>1 DEF StoreInv
<1> QED BY <1>1, <1>2, IdleState, RequestIs

\* AnswerDummy keeps the invariant.
LEMMA AnswerDummyKeeps ==
    ASSUME StoreInv, AnswerDummy
    PROVE  StoreInv'
<1> DEFINE space == FindFreeSpace(tab, pending.len, TRUE)
           t3 == Undone(tab, space.at, pending.len, pending.id, Found)
<1>1. Handling /\ pending.op = "dummy"
  BY DEF AnswerDummy
<1>2. /\ mode = "up" /\ stack = <<>> /\ Running(flash, tab, <<>>, pending) /\ shadow = flash
      /\ Flashes(flash) /\ tab \in TabType /\ pending # NoReq /\ pending.id \in Id
      /\ pending.len \in RecLen
  BY <1>1, HandlingState
<1>3. \/ space.how = "found" /\ tab' = t3 /\ Answer(Reply("ok", NoVal, NoId))
      \/ tab' = tab /\ Answer(Reply("error", NoVal, NoId))
  BY Zenon DEF AnswerDummy, Undone
<1>4. CASE space.how = "found" /\ tab' = t3 /\ Answer(Reply("ok", NoVal, NoId))
  <2>1. Found = FoundOffset(tab, pending.id)
    BY DEF Found
  <2> DEFINE o == space.at
  <2>2. tab' = Undone(tab, o, pending.len, pending.id, FoundOffset(tab, pending.id))
    BY <1>4, <2>1
  <2> HIDE DEF t3, space
  <2>3. space = FindFreeSpace(tab, pending.len, TRUE) /\ space.how = "found"
    BY <1>4, Zenon DEF space
  <2>4. Running(flash, tab', <<>>, NoReq) /\ tab' \in TabType
    BY ONLY <1>2, <2>2, <2>3, DummyIs, Zenon
  <2>5. /\ reply' = Reply("ok", NoVal, NoId) /\ pending' = NoReq
        /\ UNCHANGED <<flash, shadow, done, mode, stack>>
    BY <1>4 DEF Answer, NoFlashOp
  <2>6. /\ mode' = "up" /\ Running(flash', tab', stack', pending') /\ Flashes(flash')
        /\ shadow' = flash' /\ stack' = <<>>
    BY <1>2, <2>4, <2>5
  <2>7. reply'.status \in {"none", "ok", "notfound", "error"}
    BY <2>5, ReplyIs
  <2>8. pending' \in Request \cup {NoReq} /\ done' \in BOOLEAN
    BY <2>5 DEF StoreInv
  <2> QED BY <2>4, <2>6, <2>7, <2>8, RunsOn
<1>5. CASE tab' = tab /\ Answer(Reply("error", NoVal, NoId))
  <2>1. Reply("error", NoVal, NoId).status = "error"
    BY ReplyIs
  <2> QED BY <1>1, <1>5, <2>1, AnsweredKeeps
<1> QED BY <1>3, <1>4, <1>5, Zenon

\* What a status byte that is written does to flash and shadow.
LEMMA StatusStep ==
    ASSUME NEW at, NEW st, Succeeds(StatusOp(at, st)), shadow = flash
    PROVE  flash' = SetStatus(flash, at, st) /\ shadow' = flash'
BY DEF Succeeds, OnFlash, OnShadow, StatusOp

\* Clear keeps the invariant.
LEMMA ClearKeeps ==
    ASSUME StoreInv, Clear
    PROVE  StoreInv'
<1>1. /\ Handling /\ Found # NoOff /\ Succeeds(StatusOp(Found, "DELETED")) /\ tab' = Cleared(tab, Found)
      /\ done' = TRUE /\ UNCHANGED <<mode, stack, pending, reply>>
  BY DEF Clear
<1>2. /\ mode = "up" /\ stack = <<>> /\ Running(flash, tab, <<>>, pending) /\ shadow = flash
      /\ Flashes(flash) /\ tab \in TabType /\ pending # NoReq
  BY <1>1, HandlingState
<1>3. flash' = SetStatus(flash, Found, "DELETED") /\ shadow' = flash'
  BY <1>1, <1>2, StatusStep
<1>4. Found = FoundOffset(tab, pending.id)
  BY DEF Found
<1>5. Found # NoOff /\ tab' = Cleared(tab, Found)
  BY <1>1
<1> HIDE DEF Found
<1>6. Running(flash', tab', <<>>, pending) /\ Flashes(flash') /\ tab' \in TabType
  BY ONLY <1>2, <1>3, <1>4, <1>5, ClearIs
<1>7. mode' = "up" /\ Running(flash', tab', stack', pending') /\ stack' = <<>>
  BY <1>1, <1>2, <1>6
<1>8. pending' \in Request \cup {NoReq} /\ done' \in BOOLEAN
      /\ reply'.status \in {"none", "ok", "notfound", "error"}
  BY <1>1 DEF StoreInv
<1> QED BY <1>3, <1>6, <1>7, <1>8, RunsOn

\* A step that leaves the request, or answers it with an error.
LEMMA Meanwhile ==
    ASSUME StoreInv, pending' \in {pending, NoReq}, done' = done,
           reply' = reply \/ reply'.status = "error"
    PROVE  pending' \in Request \cup {NoReq} /\ done' \in BOOLEAN
           /\ reply'.status \in {"none", "ok", "notfound", "error"}
BY DEF StoreInv

\* StartWrite keeps the invariant.
LEMMA StartWriteKeeps ==
    ASSUME StoreInv, StartWrite
    PROVE  StoreInv'
<1>1. /\ Handling /\ pending.op = "write" /\ stack' = Push(Opening(pending))
      /\ UNCHANGED <<flash, shadow, tab, mode, pending, done, reply>>
  BY DEF StartWrite, NoFlashOp, Opening
<1>2. /\ mode = "up" /\ stack = <<>> /\ Running(flash, tab, <<>>, pending) /\ shadow = flash
      /\ Flashes(flash) /\ tab \in TabType /\ pending # NoReq /\ pending \in Request
      /\ pending.id \in Id /\ pending.len \in RecLen /\ pending.val \in Val
  BY <1>1, HandlingState
<1>3. stack' = PushOn(Opening(pending), <<>>)
  BY <1>1, <1>2 DEF Push, PushOn
<1>4. Running(flash, tab, stack', pending) /\ PutBelow(stack')
  <2>1. /\ tab \in TabType /\ pending \in Request /\ pending.op = "write" /\ pending # NoReq
        /\ pending.id \in Id /\ pending.len \in RecLen /\ pending.val \in Val
        /\ Running(flash, tab, <<>>, pending)
    BY <1>1, <1>2
  <2> QED BY ONLY <2>1, <1>3, StartWriteIs
<1>5. mode' = "up" /\ Running(flash', tab', stack', pending') /\ tab' \in TabType
      /\ Flashes(flash') /\ shadow' = flash'
  BY <1>1, <1>2, <1>4
<1>6. pending' \in Request \cup {NoReq} /\ done' \in BOOLEAN
      /\ reply'.status \in {"none", "ok", "notfound", "error"}
  BY <1>1 DEF StoreInv
<1> QED BY <1>4, <1>5, <1>6, RunsOn

\* TakeSpace keeps the invariant.
LEMMA TakeSpaceKeeps ==
    ASSUME StoreInv, TakeSpace
    PROVE  StoreInv'
<1> DEFINE f     == stack[1]
           space == FindFreeSpace(tab, f.len, FALSE)
           cur   == IF f.who = "write" THEN FoundOffset(tab, f.id) ELSE f.cur
<1>1. /\ Doing("put") /\ f.step = "space" /\ space.how = "found"
      /\ tab' = IF cur = NoOff
                  THEN AllocateNew(Prepare(tab, space.at, f.len), Entry(f.id, f.len, space.at))
                  ELSE Unsync(Prepare(tab, space.at, f.len), 1)
      /\ stack' = PushOn(Placing(f, cur, space.at), Tail(stack))
      /\ UNCHANGED <<flash, shadow, mode, pending, done, reply>>
  BY Zenon DEF TakeSpace, NoFlashOp, Top, Replaced, PushOn, Placing
<1>2. /\ mode = "up" /\ Running(flash, tab, stack, pending) /\ shadow = flash
      /\ Flashes(flash) /\ tab \in TabType /\ stack # <<>> /\ f.f = "put"
  BY <1>1, PutState
<1>3. AtStep(stack, "space")
  BY <1>1 DEF AtStep
<1>4. Running(flash, tab', stack', pending) /\ tab' \in TabType /\ PutBelow(stack')
  <2>1. Taking(tab, stack, space, cur, tab', stack')
    BY <1>1, Zenon DEF Taking
  <2>2. stack[1].f = "put"
    BY <1>2
  <2> HIDE DEF f, space, cur
  <2>3. tab \in TabType /\ Running(flash, tab, stack, pending) /\ stack # <<>>
    BY <1>2
  <2> QED BY ONLY <1>3, <2>1, <2>2, <2>3, TakeSpaceIs
<1>5. mode' = "up" /\ Running(flash', tab', stack', pending')
      /\ Flashes(flash') /\ shadow' = flash'
  BY <1>1, <1>2, <1>4, Zenon
<1>6. pending' \in Request \cup {NoReq} /\ done' \in BOOLEAN
      /\ reply'.status \in {"none", "ok", "notfound", "error"}
  BY <1>1 DEF StoreInv
<1> QED BY <1>4, <1>5, <1>6, RunsOn

\* StartReclaim keeps the invariant.
LEMMA StartReclaimKeeps ==
    ASSUME StoreInv, StartReclaim
    PROVE  StoreInv'
<1> DEFINE space == FindFreeSpace(tab, stack[1].len, FALSE)
<1>1. /\ Doing("put") /\ stack[1].step = "space" /\ space.how = "reclaim"
      /\ tab' = Reclaiming(tab, space.at) /\ stack' = PushOn(ReclaimFrame(space.at), stack)
      /\ UNCHANGED <<flash, shadow, mode, pending, done, reply>>
  BY Zenon DEF StartReclaim, NoFlashOp, Top, Push, PushOn
<1>2. /\ mode = "up" /\ Running(flash, tab, stack, pending) /\ shadow = flash
      /\ Flashes(flash) /\ tab \in TabType /\ stack # <<>> /\ stack[1].f = "put"
  BY <1>1, PutState
<1>3. AtStep(stack, "space")
  BY <1>1 DEF AtStep
<1>4. Running(flash, tab', stack', pending) /\ tab' \in TabType /\ PutBelow(stack')
  <2>1. space = FindFreeSpace(tab, stack[1].len, FALSE)
    OBVIOUS
  <2> HIDE DEF space
  <2> QED BY ONLY <1>1, <1>2, <1>3, <2>1, StartReclaimIs, Zenon
<1>5. mode' = "up" /\ Running(flash', tab', stack', pending')
      /\ Flashes(flash') /\ shadow' = flash'
  BY <1>1, <1>2, <1>4, Zenon
<1>6. pending' \in Request \cup {NoReq} /\ done' \in BOOLEAN
      /\ reply'.status \in {"none", "ok", "notfound", "error"}
  BY <1>1 DEF StoreInv
<1> QED BY <1>4, <1>5, <1>6, RunsOn

\* NoSpace keeps the invariant.
LEMMA NoSpaceKeeps ==
    ASSUME StoreInv, NoSpace
    PROVE  StoreInv'
<1> DEFINE space == FindFreeSpace(tab, stack[1].len, FALSE)
<1>1. /\ Doing("put") /\ stack[1].step = "space" /\ space.how = "none"
      /\ Unwind(tab) /\ UNCHANGED <<flash, shadow, done>>
  BY Zenon DEF NoSpace, NoFlashOp, Top
<1>2. /\ mode = "up" /\ ~Initing /\ Running(flash, tab, stack, pending) /\ shadow = flash
      /\ Flashes(flash) /\ tab \in TabType /\ stack # <<>> /\ stack[1].f = "put"
  BY <1>1, PutState
<1>3. AtStep(stack, "space")
  BY <1>1 DEF AtStep
<1>4. Running(flash, tab, <<>>, NoReq)
  <2>1. space = FindFreeSpace(tab, stack[1].len, FALSE)
    OBVIOUS
  <2> HIDE DEF space
  <2> QED BY ONLY <1>1, <1>2, <1>3, <2>1, NoSpaceIs, Zenon
<1>5. /\ stack' = <<>> /\ mode' = "up" /\ tab' = tab /\ pending' = NoReq
      /\ reply' = reply \/ reply' = Reply("error", NoVal, NoId)
  BY <1>1, <1>2 DEF Unwind
<1>6. Running(flash', tab', stack', pending') /\ tab' \in TabType
      /\ Flashes(flash') /\ shadow' = flash'
  BY <1>1, <1>2, <1>4, <1>5
<1>7. reply' = reply \/ reply'.status = "error"
  BY <1>5, ReplyIs
<1>8. pending' \in Request \cup {NoReq} /\ done' \in BOOLEAN
      /\ reply'.status \in {"none", "ok", "notfound", "error"}
  BY <1>1, <1>5, <1>7, Meanwhile
<1> QED BY <1>5, <1>6, <1>8, RunsOn

\* The content of a record.
LEMMA ValAtIs ==
    ASSUME NEW mem, NEW o, NEW n
    PROVE  ValAt(mem, o, n) \in Val \cup {NoVal}
BY DEF ValAt

\* Relocate keeps the invariant; its error path is not taken.
LEMMA RelocateKeeps ==
    ASSUME StoreInv, Relocate
    PROVE  StoreInv' /\ pending' = pending
<1> DEFINE k == FirstIn(tab, stack[1].b)
           e == tab.list[k]
           v == ValAt(shadow, e.off, e.len)
<1>1. /\ Doing("reclaim") /\ tab.blk[stack[1].b].valid < 0
      /\ UNCHANGED <<flash, shadow, done>>
      /\ k # 0 => stack' = PushOn(Moving(e, v), stack) /\ UNCHANGED <<tab, mode, pending, reply>>
  BY Zenon DEF Relocate, NoFlashOp, Top, Push, PushOn, Moving, FirstIn
<1>2. /\ mode = "up" /\ Running(flash, tab, stack, pending) /\ shadow = flash
      /\ Flashes(flash) /\ tab \in TabType /\ stack # <<>> /\ stack[1].f = "reclaim"
  BY <1>1, ReclaimState
<1>3. v \in Val \cup {NoVal}
  BY ValAtIs
<1>4. k # 0 /\ Running(flash, tab, PushOn(Moving(e, v), stack), pending)
      /\ PutBelow(PushOn(Moving(e, v), stack))
  <2>1. /\ k = FirstIn(tab, stack[1].b) /\ e = tab.list[k]
    OBVIOUS
  <2>2. tab \in TabType /\ Running(flash, tab, stack, pending) /\ stack # <<>>
    BY <1>2
  <2>3. stack[1].f = "reclaim"
    BY <1>2
  <2>4. tab.blk[stack[1].b].valid < 0
    BY <1>1
  <2> HIDE DEF v, k
  <2> QED BY ONLY <1>3, <2>1, <2>2, <2>3, <2>4, RelocateIs, Zenon
<1>5. stack' = PushOn(Moving(e, v), stack) /\ UNCHANGED <<tab, mode, pending, reply>>
  BY <1>1, <1>4
<1>6. mode' = "up" /\ Running(flash', tab', stack', pending') /\ tab' \in TabType
      /\ Flashes(flash') /\ shadow' = flash' /\ PutBelow(stack')
  BY <1>1, <1>2, <1>4, <1>5
<1>7. pending' \in Request \cup {NoReq} /\ done' \in BOOLEAN
      /\ reply'.status \in {"none", "ok", "notfound", "error"}
  BY <1>1, <1>5 DEF StoreInv
<1> QED BY <1>5, <1>6, <1>7, RunsOn

\* What an erase does to flash and shadow.
LEMMA EraseStep ==
    ASSUME NEW b, Succeeds(EraseOp(b)), shadow = flash
    PROVE  flash' = EraseAll(flash, b) /\ shadow' = flash'
BY DEF Succeeds, OnFlash, OnShadow, EraseOp

\* EraseReclaimed keeps the invariant.
LEMMA EraseReclaimedKeeps ==
    ASSUME StoreInv, EraseReclaimed
    PROVE  StoreInv'
<1>1. /\ Doing("reclaim") /\ tab.blk[stack[1].b].valid >= 0 /\ Succeeds(EraseOp(stack[1].b))
      /\ tab' = Emptied(tab, stack[1].b) /\ stack' = Tail(stack)
      /\ UNCHANGED <<mode, pending, done, reply>>
  BY DEF EraseReclaimed, Top, Pop, Emptied
<1>2. /\ mode = "up" /\ Running(flash, tab, stack, pending) /\ shadow = flash
      /\ Flashes(flash) /\ tab \in TabType /\ stack # <<>> /\ stack[1].f = "reclaim"
  BY <1>1, ReclaimState
<1>3. flash' = EraseAll(flash, stack[1].b) /\ shadow' = flash'
  BY <1>1, <1>2, EraseStep
<1>4. Running(flash', tab', Tail(stack), pending) /\ Flashes(flash') /\ tab' \in TabType
      /\ PutBelow(Tail(stack))
  BY ONLY <1>1, <1>2, <1>3, EraseReclaimedIs
<1>5. mode' = "up" /\ Running(flash', tab', stack', pending') /\ PutBelow(stack')
  BY <1>1, <1>2, <1>4
<1>6. pending' \in Request \cup {NoReq} /\ done' \in BOOLEAN
      /\ reply'.status \in {"none", "ok", "notfound", "error"}
  BY <1>1 DEF StoreInv
<1> QED BY <1>3, <1>4, <1>5, <1>6, RunsOn

-----------------------------------------------------------------------------

\* The driver writes a record; none is merged.
LEMMA WritingState ==
    ASSUME StoreInv, Writing
    PROVE  /\ mode = "up" /\ Running(flash, tab, stack, pending) /\ shadow = flash
           /\ Flashes(flash) /\ tab \in TabType /\ stack # <<>> /\ stack[1].f = "put"
           /\ stack[1] \in PutType /\ stack[1].step # "space" /\ Busy(stack)
           /\ stack[1].who # "merge"
<1>1. Doing("put") /\ stack[1].step # "space"
  BY DEF Writing, Top
<1>2. /\ mode = "up" /\ Running(flash, tab, stack, pending) /\ shadow = flash
      /\ Flashes(flash) /\ tab \in TabType /\ stack # <<>> /\ stack[1].f = "put"
  BY <1>1, PutState
<1>3. Shape(stack, tab.list, pending)
  BY <1>2 DEF Running
<1>4. stack[1] \in PutType
  BY ONLY <1>2, <1>3, TopIs
<1>5. stack[1].who # "merge"
  <2>1. stack[1].who \in {"write", "move"}
    BY <1>4 DEF PutType
  <2> QED BY <2>1
<1> QED BY <1>1, <1>2, <1>4, <1>5 DEF Busy

\* What a step of the write sequence writes, and what comes next.
LEMMA OpIs ==
    ASSUME Writing
    PROVE  /\ Top.step = "INCOMING" => WriteOp = StatusOp(Top.new, "INCOMING") /\ NextStep = "data"
           /\ Top.step = "data" =>
                /\ WriteOp = DataOp(Top.new, RecordCells(Top.id, Top.len, Top.val))
                /\ NextStep = IF Top.cur # NoOff THEN "OUTGOING" ELSE "VALID"
           /\ Top.step = "OUTGOING" => WriteOp = StatusOp(Top.cur, "OUTGOING") /\ NextStep = "VALID"
           /\ Top.step = "VALID" =>
                /\ WriteOp = StatusOp(Top.new, "VALID")
                /\ NextStep = IF Top.cur # NoOff THEN "DELETED" ELSE "none"
           /\ Top.step = "DELETED" => WriteOp = StatusOp(Top.cur, "DELETED") /\ NextStep = "none"
BY DEF WriteOp, NextStep

\* The fields of the write of a status byte,
LEMMA StatusOpIs ==
    ASSUME NEW at, NEW st
    PROVE  /\ StatusOp(at, st).kind = "status" /\ StatusOp(at, st).at = at /\ StatusOp(at, st).st = st
BY DEF StatusOp

\* ... and of that of a record.
LEMMA DataOpIs ==
    ASSUME NEW at, NEW cells
    PROVE  DataOp(at, cells).kind = "data" /\ DataOp(at, cells).at = at /\ DataOp(at, cells).cells = cells
BY DEF DataOp

\* A step of the write sequence that writes a status byte.
LEMMA StatusWrite ==
    ASSUME StoreInv, Writing, NEW at, NEW st, WriteOp = StatusOp(at, st)
    PROVE  /\ AfterWrite = Tracked(tab, at, st)
           /\ TrackingAllows(tab, at, st) /\ StatusAccepted(flash, at, st) => WriteAllowed
           /\ WriteStep => flash' = SetStatus(flash, at, st) /\ shadow' = flash'
<1>1. WriteOp.kind = "status" /\ WriteOp.at = at /\ WriteOp.st = st
  BY StatusOpIs
<1>2. WriteOp.kind # "data"
  BY <1>1
<1>3. shadow = flash
  BY WritingState
<1>4. AfterWrite = Tracked(tab, at, st)
  BY <1>1, <1>2 DEF AfterWrite
<1>5. TrackingAllows(tab, at, st) /\ StatusAccepted(flash, at, st) => WriteAllowed
  BY <1>1, <1>3 DEF WriteAllowed, StatusAllowed
<1>6. ASSUME WriteStep PROVE flash' = SetStatus(flash, at, st) /\ shadow' = flash'
  <2>1. Succeeds(StatusOp(at, st))
    BY <1>6 DEF WriteStep
  <2> QED BY <1>3, <2>1, StatusStep
<1> QED BY <1>4, <1>5, <1>6

\* What a step of the write sequence leaves as it is.
LEMMA WriteLeaves ==
    ASSUME StoreInv, WriteStep
    PROVE  /\ Writing /\ UNCHANGED <<mode, pending, reply>>
           /\ pending' \in Request \cup {NoReq} /\ done' \in BOOLEAN
           /\ reply'.status \in {"none", "ok", "notfound", "error"}
<1>1. Writing /\ UNCHANGED <<mode, pending, reply>> /\ done' = (done \/ Commits)
  BY DEF WriteStep
<1>2. done' \in BOOLEAN
  <2>1. Commits \in BOOLEAN
    BY DEF Commits
  <2>2. done \in BOOLEAN
    BY DEF StoreInv
  <2> QED BY <1>1, <2>1, <2>2
<1> QED BY <1>1, <1>2 DEF StoreInv

\* The first step of ErstWriteRecord is allowed and keeps the invariant.
LEMMA IncomingStep ==
    ASSUME StoreInv, Writing, AtStep(stack, "INCOMING")
    PROVE  WriteAllowed /\ (WriteStep => StoreInv')
<1> DEFINE f == stack[1]
           t2 == Unsync(Tracked(tab, f.new, "INCOMING"), 1)
           s2 == PushOn(Faced(f, "data"), Tail(stack))
<1>1. /\ mode = "up" /\ Running(flash, tab, stack, pending) /\ shadow = flash
      /\ Flashes(flash) /\ tab \in TabType /\ Busy(stack)
  BY WritingState
<1>2. stack[1].step = "INCOMING"
  BY DEF AtStep
<1>3. Top.step = "INCOMING" /\ Top = f
  BY <1>2 DEF Top
<1>4. WriteOp = StatusOp(f.new, "INCOMING") /\ NextStep = "data"
  BY <1>3, OpIs
<1>5. /\ AfterWrite = Tracked(tab, f.new, "INCOMING")
      /\ TrackingAllows(tab, f.new, "INCOMING") /\ StatusAccepted(flash, f.new, "INCOMING") => WriteAllowed
      /\ WriteStep => flash' = SetStatus(flash, f.new, "INCOMING") /\ shadow' = flash'
  BY <1>4, StatusWrite
<1>6. /\ Running(SetStatus(flash, f.new, "INCOMING"), t2, s2, pending)
      /\ Flashes(SetStatus(flash, f.new, "INCOMING")) /\ t2 \in TabType /\ PutBelow(s2)
      /\ TrackingAllows(tab, f.new, "INCOMING") /\ flash[f.new] = Erased
  <2>1. f = stack[1] /\ f.step = "INCOMING"
    BY <1>2
  <2> DEFINE fl2 == SetStatus(flash, f.new, "INCOMING")
  <2>2. fl2 = SetStatus(flash, f.new, "INCOMING") /\ t2 = Unsync(Tracked(tab, f.new, "INCOMING"), 1)
        /\ s2 = PushOn(Faced(f, "data"), Tail(stack))
    OBVIOUS
  <2> HIDE DEF f, t2, s2, fl2
  <2>3. Running(fl2, t2, s2, pending) /\ Flashes(fl2) /\ t2 \in TabType /\ PutBelow(s2)
        /\ TrackingAllows(tab, f.new, "INCOMING") /\ flash[f.new] = Erased
    BY ONLY <1>1, <2>1, <2>2, WriteIncoming
  <2> QED BY <2>3 DEF fl2
<1>7. WriteAllowed
  BY <1>5, <1>6 DEF StatusAccepted
<1>8. ASSUME WriteStep PROVE StoreInv'
  <2>1. tab' = t2
    BY <1>3, <1>5, <1>8 DEF WriteStep
  <2>2. stack' = s2
    BY <1>3, <1>4, <1>8 DEF WriteStep, Replaced, PushOn, Faced
  <2>3. flash' = SetStatus(flash, f.new, "INCOMING") /\ shadow' = flash'
    BY <1>5, <1>8
  <2> HIDE DEF f, t2, s2
  <2>4. /\ UNCHANGED <<mode, pending>> /\ pending' \in Request \cup {NoReq} /\ done' \in BOOLEAN
        /\ reply'.status \in {"none", "ok", "notfound", "error"}
    BY <1>8, WriteLeaves
  <2>5. mode' = "up" /\ Running(flash', tab', stack', pending') /\ tab' \in TabType
        /\ Flashes(flash') /\ PutBelow(stack')
    BY <1>1, <1>6, <2>1, <2>2, <2>3, <2>4
  <2> QED BY <2>3, <2>4, <2>5, RunsOn
<1> QED BY <1>7, <1>8

\* ... the second,
LEMMA DataStep ==
    ASSUME StoreInv, Writing, AtStep(stack, "data")
    PROVE  WriteAllowed /\ (WriteStep => StoreInv')
<1> DEFINE f == stack[1]
           cells == RecordCells(f.id, f.len, f.val)
           st == IF f.cur # NoOff THEN "OUTGOING" ELSE "VALID"
           fl2 == Programmed(flash, f.new, cells)
           s2 == PushOn(Faced(f, st), Tail(stack))
<1>1. /\ mode = "up" /\ Running(flash, tab, stack, pending) /\ shadow = flash
      /\ Flashes(flash) /\ tab \in TabType /\ Busy(stack)
  BY WritingState
<1>2. Top.step = "data" /\ Top = f
  BY DEF AtStep, Top
<1>3. WriteOp = DataOp(f.new, cells) /\ NextStep = st
  BY <1>2, OpIs
<1>4. WriteOp.kind = "data" /\ WriteOp.at = f.new /\ WriteOp.cells = cells
  BY <1>3, DataOpIs
<1>5. WriteAllowed /\ AfterWrite = tab
  BY <1>4 DEF WriteAllowed, AfterWrite
<1>6. AfterData(stack, st)
  BY DEF AfterData
<1>7. /\ Running(fl2, tab, s2, pending) /\ Flashes(fl2) /\ PutBelow(s2)
      /\ fl2 = Copied(flash, f.new, cells)
  <2>1. fl2 = Programmed(flash, stack[1].new, RecordCells(stack[1].id, stack[1].len, stack[1].val))
        /\ s2 = PushOn(Faced(stack[1], st), Tail(stack))
    OBVIOUS
  <2> HIDE DEF fl2, s2, st
  <2>2. /\ Running(fl2, tab, s2, pending) /\ Flashes(fl2) /\ PutBelow(s2)
        /\ fl2 = Copied(flash, stack[1].new, RecordCells(stack[1].id, stack[1].len, stack[1].val))
    BY ONLY <1>1, <1>6, <2>1, AtStep(stack, "data"), WriteData
  <2> QED BY <2>2
<1>8. ASSUME WriteStep PROVE StoreInv'
  <2>1. tab' = tab
    BY <1>2, <1>5, <1>8 DEF WriteStep
  <2>2. NextStep # "none"
    BY <1>3
  <2>3. stack' = s2
    BY <1>2, <1>3, <1>8, <2>2 DEF WriteStep, Replaced, PushOn, Faced
  <2>4. flash' = fl2 /\ shadow' = Copied(flash, f.new, cells)
    <3>1. flash' = OnFlash(WriteOp) /\ shadow' = OnShadow(WriteOp)
      BY <1>8 DEF WriteStep, Succeeds
    <3> QED BY <3>1, <1>1, <1>4 DEF OnFlash, OnShadow
  <2> HIDE DEF f, fl2, s2, cells
  <2>5. /\ UNCHANGED <<mode, pending>> /\ pending' \in Request \cup {NoReq} /\ done' \in BOOLEAN
        /\ reply'.status \in {"none", "ok", "notfound", "error"}
    BY <1>8, WriteLeaves
  <2>6. mode' = "up" /\ Running(flash', tab', stack', pending') /\ tab' \in TabType
        /\ Flashes(flash') /\ PutBelow(stack') /\ shadow' = flash'
    BY <1>1, <1>7, <2>1, <2>3, <2>4, <2>5
  <2> QED BY <2>5, <2>6, RunsOn
<1> QED BY <1>5, <1>8

\* ... the third,
LEMMA OutgoingStep ==
    ASSUME StoreInv, Writing, AtStep(stack, "OUTGOING")
    PROVE  WriteAllowed /\ (WriteStep => StoreInv')
<1> DEFINE f == stack[1]
           t2 == Tracked(tab, f.cur, "OUTGOING")
           s2 == PushOn(Faced(f, "VALID"), Tail(stack))
           fl2 == SetStatus(flash, f.cur, "OUTGOING")
<1>1. /\ mode = "up" /\ Running(flash, tab, stack, pending) /\ shadow = flash
      /\ Flashes(flash) /\ tab \in TabType /\ Busy(stack)
  BY WritingState
<1>2. Top.step = "OUTGOING" /\ Top = f
  BY DEF AtStep, Top
<1>3. WriteOp = StatusOp(f.cur, "OUTGOING") /\ NextStep = "VALID"
  BY <1>2, OpIs
<1>4. /\ AfterWrite = t2
      /\ TrackingAllows(tab, f.cur, "OUTGOING") /\ StatusAccepted(flash, f.cur, "OUTGOING") => WriteAllowed
      /\ WriteStep => flash' = fl2 /\ shadow' = flash'
  BY <1>3, StatusWrite
<1>5. /\ Running(fl2, t2, s2, pending) /\ Flashes(fl2) /\ t2 \in TabType /\ PutBelow(s2)
      /\ TrackingAllows(tab, f.cur, "OUTGOING") /\ StatusAccepted(flash, f.cur, "OUTGOING")
  <2>1. fl2 = SetStatus(flash, stack[1].cur, "OUTGOING") /\ t2 = Tracked(tab, stack[1].cur, "OUTGOING")
        /\ s2 = PushOn(Faced(stack[1], "VALID"), Tail(stack))
    OBVIOUS
  <2> HIDE DEF fl2, t2, s2
  <2>2. /\ Running(fl2, t2, s2, pending) /\ Flashes(fl2) /\ t2 \in TabType /\ PutBelow(s2)
        /\ TrackingAllows(tab, stack[1].cur, "OUTGOING") /\ StatusAccepted(flash, stack[1].cur, "OUTGOING")
    BY ONLY <1>1, <2>1, AtStep(stack, "OUTGOING"), WriteOutgoing
  <2> QED BY <2>2
<1>6. ASSUME WriteStep PROVE StoreInv'
  <2>1. tab' = t2
    BY <1>2, <1>4, <1>6 DEF WriteStep
  <2>2. stack' = s2
    BY <1>2, <1>3, <1>6 DEF WriteStep, Replaced, PushOn, Faced
  <2>3. flash' = fl2 /\ shadow' = flash'
    BY <1>4, <1>6
  <2> HIDE DEF f, t2, s2, fl2
  <2>4. /\ UNCHANGED <<mode, pending>> /\ pending' \in Request \cup {NoReq} /\ done' \in BOOLEAN
        /\ reply'.status \in {"none", "ok", "notfound", "error"}
    BY <1>6, WriteLeaves
  <2>5. mode' = "up" /\ Running(flash', tab', stack', pending') /\ tab' \in TabType
        /\ Flashes(flash') /\ PutBelow(stack')
    BY <1>1, <1>5, <2>1, <2>2, <2>3, <2>4
  <2> QED BY <2>3, <2>4, <2>5, RunsOn
<1> QED BY <1>4, <1>5, <1>6

\* The end of the write sequence of a record that is not a merge.
LEMMA FinishedIs ==
    ASSUME NEW t, Top.who # "merge"
    PROVE  Finished(t) = Ended(t, Top.new)
BY DEF Finished, Ended, Entry

\* ... the one that makes the record VALID,
LEMMA ValidStep ==
    ASSUME StoreInv, Writing, AtStep(stack, "VALID")
    PROVE  WriteAllowed /\ (WriteStep => StoreInv')
<1> DEFINE f == stack[1]
           t1 == Tracked(tab, f.new, "VALID")
           s2 == PushOn(Faced(f, "DELETED"), Tail(stack))
           fl2 == SetStatus(flash, f.new, "VALID")
<1>1. /\ mode = "up" /\ Running(flash, tab, stack, pending) /\ shadow = flash
      /\ Flashes(flash) /\ tab \in TabType /\ Busy(stack)
  BY WritingState
<1>2. Top.step = "VALID" /\ Top = f
  BY DEF AtStep, Top
<1>3. WriteOp = StatusOp(f.new, "VALID")
      /\ NextStep = IF f.cur # NoOff THEN "DELETED" ELSE "none"
  BY <1>2, OpIs
<1>4. /\ AfterWrite = t1
      /\ TrackingAllows(tab, f.new, "VALID") /\ StatusAccepted(flash, f.new, "VALID") => WriteAllowed
      /\ WriteStep => flash' = fl2 /\ shadow' = flash'
  BY <1>3, StatusWrite
<1>5. Flashes(fl2) /\ t1 \in TabType /\ WriteAllowed
  <2>1. fl2 = SetStatus(flash, stack[1].new, "VALID") /\ t1 = Tracked(tab, stack[1].new, "VALID")
    OBVIOUS
  <2> HIDE DEF fl2, t1
  <2>2. Promoted(flash, fl2, tab, stack, t1)
    BY ONLY <1>1, <2>1, AtStep(stack, "VALID"), NowValid
  <2> QED BY <2>2, <1>4 DEF Promoted
<1>6. ASSUME WriteStep, f.cur # NoOff PROVE StoreInv'
  <2>1. tab' = t1
    BY <1>2, <1>4, <1>6 DEF WriteStep
  <2>2. stack' = s2
    BY <1>2, <1>3, <1>6 DEF WriteStep, Replaced, PushOn, Faced
  <2>3. flash' = fl2 /\ shadow' = flash'
    BY <1>4, <1>6
  <2>4. Running(fl2, t1, s2, pending) /\ PutBelow(s2)
    <3>1. fl2 = SetStatus(flash, stack[1].new, "VALID") /\ t1 = Tracked(tab, stack[1].new, "VALID")
          /\ s2 = PushOn(Faced(stack[1], "DELETED"), Tail(stack)) /\ stack[1].cur # NoOff
      BY <1>6
    <3> HIDE DEF fl2, t1, s2
    <3> QED BY ONLY <1>1, <3>1, AtStep(stack, "VALID"), WriteValid
  <2> HIDE DEF f, t1, s2, fl2
  <2>5. /\ UNCHANGED <<mode, pending>> /\ pending' \in Request \cup {NoReq} /\ done' \in BOOLEAN
        /\ reply'.status \in {"none", "ok", "notfound", "error"}
    BY <1>6, WriteLeaves
  <2>6. mode' = "up" /\ Running(flash', tab', stack', pending') /\ tab' \in TabType
        /\ Flashes(flash') /\ PutBelow(stack')
    BY <1>1, <1>5, <2>1, <2>2, <2>3, <2>4, <2>5
  <2> QED BY <2>3, <2>5, <2>6, RunsOn
<1>7. ASSUME WriteStep, f.cur = NoOff PROVE StoreInv'
  <2> DEFINE t2 == Ended(t1, f.new)
  <2>1. tab' = t2
    <3>1. tab' = Finished(AfterWrite)
      BY <1>2, <1>7 DEF WriteStep
    <3>2. Top.who # "merge"
      BY <1>2, WritingState
    <3> QED BY <1>2, <1>4, <3>1, <3>2, FinishedIs
  <2>2. stack' = Tail(stack)
    BY <1>3, <1>7 DEF WriteStep, Pop
  <2>3. flash' = fl2 /\ shadow' = flash'
    BY <1>4, <1>7
  <2>4. Running(fl2, t2, <<>>, pending) /\ t2 \in TabType /\ Tail(stack) = <<>>
    <3>1. fl2 = SetStatus(flash, stack[1].new, "VALID")
          /\ t2 = Ended(Tracked(tab, stack[1].new, "VALID"), stack[1].new) /\ stack[1].cur = NoOff
      BY <1>7
    <3> HIDE DEF fl2, t2
    <3> QED BY ONLY <1>1, <3>1, AtStep(stack, "VALID"), WriteLast
  <2> HIDE DEF f, t1, s2, fl2, t2
  <2>5. /\ UNCHANGED <<mode, pending>> /\ pending' \in Request \cup {NoReq} /\ done' \in BOOLEAN
        /\ reply'.status \in {"none", "ok", "notfound", "error"}
    BY <1>7, WriteLeaves
  <2>6. mode' = "up" /\ Running(flash', tab', stack', pending') /\ tab' \in TabType
        /\ Flashes(flash') /\ stack' = <<>>
    BY <1>1, <1>5, <2>1, <2>2, <2>3, <2>4, <2>5, Zenon
  <2> QED BY <2>3, <2>5, <2>6, RunsOn
<1> QED BY <1>5, <1>6, <1>7

\* ... and the last.
LEMMA DeletedStep ==
    ASSUME StoreInv, Writing, AtStep(stack, "DELETED")
    PROVE  WriteAllowed /\ (WriteStep => StoreInv')
<1> DEFINE f == stack[1]
           t1 == Tracked(tab, f.cur, "DELETED")
           t2 == Ended(TakenOver(t1, f.cur, NewEntry(f)), f.new)
           fl2 == SetStatus(flash, f.cur, "DELETED")
<1>1. /\ mode = "up" /\ Running(flash, tab, stack, pending) /\ shadow = flash
      /\ Flashes(flash) /\ tab \in TabType /\ Busy(stack)
  BY WritingState
<1>2. Top.step = "DELETED" /\ Top = f
  BY DEF AtStep, Top
<1>3. WriteOp = StatusOp(f.cur, "DELETED") /\ NextStep = "none"
  BY <1>2, OpIs
<1>4. /\ AfterWrite = t1
      /\ TrackingAllows(tab, f.cur, "DELETED") /\ StatusAccepted(flash, f.cur, "DELETED") => WriteAllowed
      /\ WriteStep => flash' = fl2 /\ shadow' = flash'
  BY <1>3, StatusWrite
<1>5. /\ Running(fl2, t2, Tail(stack), pending) /\ Flashes(fl2) /\ t2 \in TabType
      /\ Tail(stack) # <<>> => PutBelow(Tail(stack))
      /\ TrackingAllows(tab, f.cur, "DELETED") /\ StatusAccepted(flash, f.cur, "DELETED")
  <2>1. fl2 = SetStatus(flash, stack[1].cur, "DELETED") /\ t1 = Tracked(tab, stack[1].cur, "DELETED")
        /\ t2 = Ended(TakenOver(t1, stack[1].cur, NewEntry(stack[1])), stack[1].new)
    OBVIOUS
  <2> HIDE DEF fl2, t1, t2
  <2>2. /\ Running(fl2, t2, Tail(stack), pending) /\ Flashes(fl2) /\ t2 \in TabType
        /\ Tail(stack) # <<>> => PutBelow(Tail(stack))
        /\ TrackingAllows(tab, stack[1].cur, "DELETED") /\ StatusAccepted(flash, stack[1].cur, "DELETED")
    BY ONLY <1>1, <2>1, AtStep(stack, "DELETED"), WriteDeleted
  <2> QED BY <2>2
<1>6. ASSUME WriteStep PROVE StoreInv'
  <2>1. tab' = t2
    <3>1. tab' = Finished(Superseded(AfterWrite))
      BY <1>2, <1>6 DEF WriteStep
    <3>2. Top.who # "merge"
      BY <1>2, WritingState
    <3>3. Superseded(t1) = TakenOver(t1, f.cur, NewEntry(f))
      BY <1>2, <3>2 DEF Superseded, TakenOver, NewEntry
    <3> QED BY <1>2, <1>4, <3>1, <3>2, <3>3, FinishedIs
  <2>2. stack' = Tail(stack)
    BY <1>3, <1>6 DEF WriteStep, Pop
  <2>3. flash' = fl2 /\ shadow' = flash'
    BY <1>4, <1>6
  <2> HIDE DEF f, t1, t2, fl2
  <2>4. /\ UNCHANGED <<mode, pending>> /\ pending' \in Request \cup {NoReq} /\ done' \in BOOLEAN
        /\ reply'.status \in {"none", "ok", "notfound", "error"}
    BY <1>6, WriteLeaves
  <2>5. mode' = "up" /\ Running(flash', tab', stack', pending') /\ tab' \in TabType
        /\ Flashes(flash') /\ (stack' = <<>> \/ PutBelow(stack'))
    BY <1>1, <1>5, <2>1, <2>2, <2>3, <2>4
  <2> QED BY <2>3, <2>4, <2>5, RunsOn
<1> QED BY <1>4, <1>5, <1>6

\* No write of the sequence is refused, and each keeps the invariant.
LEMMA WriteKeeps ==
    ASSUME StoreInv, Writing
    PROVE  WriteAllowed /\ (WriteStep => StoreInv')
<1>1. stack[1] \in PutType /\ stack[1].step # "space"
  BY WritingState
<1>2. stack[1].step \in Steps
  BY <1>1 DEF PutType
<1>3. \/ AtStep(stack, "INCOMING") \/ AtStep(stack, "data") \/ AtStep(stack, "OUTGOING")
      \/ AtStep(stack, "VALID") \/ AtStep(stack, "DELETED")
  BY <1>1, <1>2, StepsAre DEF AtStep
<1> QED BY <1>3, IncomingStep, DataStep, OutgoingStep, ValidStep, DeletedStep

\* The frame of an initialization is the only one.
LEMMA NextPhaseIs ==
    ASSUME NEW ph, NEW b, NEW o, Tail(stack) = <<>>
    PROVE  NextPhase(ph, b, o) = <<InitFrame(ph, b, o)>>
<1> DEFINE f == InitFrame(ph, b, o)
<1>1. NextPhase(ph, b, o) = <<f>> \o <<>>
  BY Zenon DEF NextPhase, Replaced
<1> HIDE DEF f
<1>2. <<f>> \in Seq({f})
  OBVIOUS
<1>3. <<f>> \o <<>> = <<f>>
  BY ONLY <1>2, ConcatEmptySeq
<1> QED BY <1>1, <1>3 DEF f

\* ScanBlock keeps the invariant.
LEMMA ScanBlockKeeps ==
    ASSUME StoreInv, ScanBlock
    PROVE  StoreInv'
<1> DEFINE b   == stack[1].b
           w   == Walk(flash, b)
           fl2 == IF MustErase(w) THEN EraseAll(flash, b) ELSE flash
           t2  == Collected(tab, b, w)
           s2  == IF b + 1 < NumBlocks THEN <<InitFrame("scan", b + 1, "none")>>
                  ELSE <<InitFrame("incoming", 0, "none")>>
<1>1. InPhase("scan")
  BY DEF ScanBlock
<1>2. /\ mode = "up" /\ Starts(flash, tab, stack) /\ shadow = flash
      /\ Flashes(flash) /\ tab \in TabType /\ stack[1].phase = "scan" /\ Tail(stack) = <<>>
  BY <1>1, InitState
<1>3. Scanned = w /\ Top.b = b
  BY <1>2 DEF Scanned, Top
<1>4. /\ flash' = fl2 /\ shadow' = flash'
  <2>1. CASE MustErase(w)
    <3>1. Succeeds(EraseOp(b))
      BY <1>3, <2>1 DEF ScanBlock
    <3> QED BY <1>2, <2>1, <3>1, EraseStep
  <2>2. CASE ~MustErase(w)
    <3>1. UNCHANGED <<flash, shadow>>
      BY <1>3, <2>2 DEF ScanBlock, NoFlashOp
    <3> QED BY <1>2, <2>2, <3>1
  <2> QED BY <2>1, <2>2
<1>5. tab' = t2 /\ UNCHANGED <<mode, pending, done, reply>>
  BY <1>3 DEF ScanBlock
<1>6. stack' = s2
  <2>1. stack' = IF b + 1 < NumBlocks THEN NextPhase("scan", b + 1, "none")
                 ELSE NextPhase("incoming", 0, "none")
    BY <1>3 DEF ScanBlock, AfterScan
  <2> QED BY <1>2, <2>1, NextPhaseIs
<1>7. Starts(fl2, t2, s2) /\ t2 \in TabType /\ Flashes(fl2)
  <2>1. w = Walk(flash, stack[1].b) /\ t2 = Collected(tab, stack[1].b, w)
        /\ fl2 = IF MustErase(w) THEN EraseAll(flash, stack[1].b) ELSE flash
    OBVIOUS
  <2>2. s2 = IF stack[1].b + 1 < NumBlocks THEN <<InitFrame("scan", stack[1].b + 1, "none")>>
             ELSE <<InitFrame("incoming", 0, "none")>>
    OBVIOUS
  <2> HIDE DEF w, t2, fl2, s2
  <2> QED BY ONLY <1>2, <2>1, <2>2, ScanIs
<1> HIDE DEF b, w, fl2, t2, s2
<1>8. mode' = "up" /\ Starts(flash', tab', stack') /\ tab' \in TabType /\ Flashes(flash')
  BY <1>2, <1>4, <1>5, <1>6, <1>7
<1>9. pending' \in Request \cup {NoReq} /\ done' \in BOOLEAN
      /\ reply'.status \in {"none", "ok", "notfound", "error"}
  BY <1>5 DEF StoreInv
<1> QED BY <1>4, <1>8, <1>9, StartsOn

\* NoIncoming keeps the invariant.
LEMMA NoIncomingKeeps ==
    ASSUME StoreInv, NoIncoming
    PROVE  StoreInv'
<1>1. InPhase("incoming")
  BY DEF NoIncoming
<1>2. /\ mode = "up" /\ Starts(flash, tab, stack) /\ shadow = flash /\ tab.out = NoOff
      /\ Flashes(flash) /\ tab \in TabType /\ stack[1].phase = "incoming" /\ Tail(stack) = <<>>
  BY <1>1, InitState
<1>3. stack' = <<InitFrame("reclaim", 0, "none")>>
      /\ UNCHANGED <<flash, shadow, tab, mode, pending, done, reply>>
  BY <1>2, NextPhaseIs DEF NoIncoming, NoFlashOp
<1>4. Starts(flash, tab, stack')
  BY ONLY <1>2, <1>3, NoIncomingIs
<1>5. mode' = "up" /\ Starts(flash', tab', stack') /\ tab' \in TabType /\ Flashes(flash')
      /\ shadow' = flash'
  BY <1>2, <1>3, <1>4
<1>6. pending' \in Request \cup {NoReq} /\ done' \in BOOLEAN
      /\ reply'.status \in {"none", "ok", "notfound", "error"}
  BY <1>3 DEF StoreInv
<1> QED BY <1>5, <1>6, StartsOn

\* Nothing is to be reclaimed at the end of an initialization.
LEMMA InitReady ==
    ASSUME StoreInv, InPhase("reclaim")
    PROVE  /\ ToReclaim = {}
           /\ FreeBlocks = 0 => NumBlocks >= 256
           /\ FreeBlocks \in Nat
           /\ \A p : Running(flash, Initialized(tab, LastUsed(tab)), <<>>, p)
           /\ Initialized(tab, LastUsed(tab)) \in TabType
<1> DEFINE t2 == Initialized(tab, LastUsed(tab))
<1>1. /\ mode = "up" /\ Starts(flash, tab, stack) /\ shadow = flash
      /\ Flashes(flash) /\ tab \in TabType /\ stack[1].phase = "reclaim"
  BY InitState
<1>3. t2 = Initialized(tab, LastUsed(tab))
  OBVIOUS
<1> HIDE DEF t2
<1>4. ASSUME NEW p
      PROVE  /\ Running(flash, t2, <<>>, p) /\ t2 \in TabType
             /\ \A b \in Block : tab.blk[b].valid >= 0
             /\ (NumBlocks - Cardinality(UsedIn(tab))) % 256 = 0 => NumBlocks >= 256
  BY ONLY <1>1, <1>3, InitDoneIs, Zenon
<1>5. UsedIn(tab) = UsedBlocks
  BY DEF UsedIn, UsedBlocks
<1>6. ToReclaim = {}
  <2>1. stack[1].b \in Block
    BY <1>1 DEF Starts
  <2>2. Top.b \in Int /\ Top.b >= 0
    BY <2>1, LayoutAssumption DEF Top, Block
  <2>3. \A b \in Top.b..(NumBlocks - 1) : b \in Block
    BY <2>2, LayoutAssumption DEF Block
  <2>4. \A b \in Block : tab.blk[b].valid >= 0 /\ tab.blk[b].valid \in Int
    BY <1>1, <1>4, Zenon DEF TabType, BlockType
  <2> QED BY <2>3, <2>4 DEF ToReclaim
<1>7. FreeBlocks = 0 => NumBlocks >= 256
  BY <1>4, <1>5 DEF FreeBlocks
<1>8. FreeBlocks \in Nat
  <2>1. IsFiniteSet(Block)
    BY FS_Interval, LayoutAssumption DEF Block
  <2>2. UsedBlocks \subseteq Block
    BY DEF UsedBlocks
  <2>3. Cardinality(UsedBlocks) \in Nat
    BY <2>1, <2>2, FS_Subset, FS_CardinalityType
  <2> DEFINE n == Cardinality(UsedBlocks)
  <2> HIDE DEF n
  <2>4. (NumBlocks - n) % 256 \in Nat
    BY <2>3, LayoutAssumption DEF n
  <2> QED BY <2>4 DEF FreeBlocks, n
<1> QED BY <1>3, <1>4, <1>6, <1>7, <1>8

\* InitDone keeps the invariant.
LEMMA InitDoneKeeps ==
    ASSUME StoreInv, InitDone
    PROVE  StoreInv' /\ (pending' = pending \/ NumBlocks >= 256)
<1> DEFINE t2 == Initialized(tab, LastUsed(tab))
<1>1. InPhase("reclaim") /\ UNCHANGED <<flash, shadow, done>>
  BY DEF InitDone, NoFlashOp
<1>2. /\ mode = "up" /\ Initing /\ shadow = flash
      /\ Flashes(flash) /\ tab \in TabType
  BY <1>1, InitState
<1>3. /\ FreeBlocks = 0 => NumBlocks >= 256
      /\ FreeBlocks \in Nat
      /\ \A p : Running(flash, t2, <<>>, p)
      /\ t2 \in TabType
  BY <1>1, InitReady
<1>4. CASE FreeBlocks > 0
  <2>1. /\ tab' = t2 /\ stack' = <<>> /\ UNCHANGED <<mode, pending, reply>>
    <3>1. UsedIn(tab) = UsedBlocks
      BY DEF UsedIn, UsedBlocks
    <3>2. /\ tab' = [tab EXCEPT
                             !.unsynced = 0,
                             !.recent = IF UsedBlocks = {} THEN @
                                        ELSE CHOOSE b \in UsedBlocks : \A c \in UsedBlocks : c <= b]
          /\ stack' = <<>> /\ UNCHANGED <<mode, pending, reply>>
      BY <1>4 DEF InitDone
    <3> QED BY <3>1, <3>2 DEF Initialized, LastUsed
  <2> HIDE DEF t2
  <2>2. mode' = "up" /\ Running(flash', tab', stack', pending') /\ tab' \in TabType
        /\ Flashes(flash') /\ shadow' = flash'
    BY <1>1, <1>2, <1>3, <2>1
  <2>3. pending' \in Request \cup {NoReq} /\ done' \in BOOLEAN
        /\ reply'.status \in {"none", "ok", "notfound", "error"}
    BY <1>1, <2>1 DEF StoreInv
  <2> QED BY <2>1, <2>2, <2>3, RunsOn
<1>5. CASE ~(FreeBlocks > 0)
  <2>1. FreeBlocks = 0
    <3> DEFINE n == FreeBlocks
    <3>1. n \in Nat /\ ~(n > 0)
      BY <1>3, <1>5
    <3> HIDE DEF n
    <3>2. n = 0
      BY ONLY <3>1
    <3> QED BY <3>2 DEF n
  <2>2. NumBlocks >= 256
    BY <1>3, <2>1
  <2>3. /\ stack' = <<>> /\ mode' = "failed" /\ tab' = EmptyTables /\ pending' = NoReq
        /\ reply' = reply \/ reply' = Reply("error", NoVal, NoId)
    BY <1>2, <1>5 DEF InitDone, Unwind
  <2>4. pending' \in Request \cup {NoReq} /\ done' \in BOOLEAN
        /\ reply'.status \in {"none", "ok", "notfound", "error"}
    <3>1. reply' = reply \/ reply'.status = "error"
      BY <2>3, ReplyIs
    <3> QED BY <1>1, <2>3, <3>1, Meanwhile
  <2>5. tab' \in TabType
    BY <2>3, EmptyTabIs
  <2>6. "failed" # "off" /\ "failed" # "up"
    OBVIOUS
  <2>7. flash' = flash /\ flash = [o \in Off |-> flash[o]]
    BY <1>1 DEF StoreInv
  <2> QED BY <2>2, <2>3, <2>4, <2>5, <2>6, <2>7 DEF StoreInv
<1> QED BY <1>4, <1>5

(***************************************************************************)
(* The invariant.                                                          *)
(***************************************************************************)

\* The counts of errors are those that the model allows.
Bounds == crashes \in 0..MaxCrashes /\ faults \in 0..MaxFaults

\* A flash error is counted,
LEMMA FailsTroubles ==
    ASSUME Bounds, NEW op, NEW full, Fails(op, full)
    PROVE  Bounds' /\ ~Untroubled'
<1>1. faults \in Nat /\ faults < MaxFaults /\ faults' = faults + 1 /\ crashes' = crashes
  BY BoundsAssumption DEF Fails, FaultAllowed, Bounds
<1>2. faults' \in 0..MaxFaults /\ faults' # 0
  BY <1>1, BoundsAssumption
<1> QED BY <1>1, <1>2 DEF Untroubled, Bounds

\* ... so is a power loss.
LEMMA CrashTroubles ==
    ASSUME Bounds, Crash
    PROVE  Bounds' /\ ~Untroubled'
<1>1. crashes \in Nat /\ crashes < MaxCrashes /\ crashes' = crashes + 1 /\ faults' = faults
  BY BoundsAssumption DEF Crash, Bounds
<1>2. crashes' \in 0..MaxCrashes /\ crashes' # 0
  BY <1>1, BoundsAssumption
<1> QED BY <1>1, <1>2 DEF Untroubled, Bounds

\* A step that meets no flash error and no power loss.
Undisturbed ==
    \/ PowerOn
    \/ \E r \in Request : Receive(r)
    \/ AnswerFailed \/ AnswerDone \/ AnswerRead \/ AnswerDummy
    \/ ClearNotFound \/ Clear
    \/ StartWrite \/ TakeSpace \/ StartReclaim \/ NoSpace
    \/ Relocate \/ EraseReclaimed
    \/ WriteStep \/ WriteRefused
    \/ ScanBlock
    \/ ResolveIncoming \/ MergeIncoming \/ InvalidateIncoming \/ NoIncoming
    \/ ResolveOutgoing
    \/ ReclaimInvalid \/ InitDone

\* The steps that meet a flash error.
Faulty == ClearFault \/ EraseFault \/ WriteFault \/ ScanFault \/ ResolveFault

\* The steps of the driver, by whether they meet an error.
LEMMA NextIs == Next <=> Undisturbed \/ Faulty \/ Crash
BY DEF Next, DriverStep, Undisturbed, Faulty

\* A step that meets a flash error is counted.
LEMMA FaultyTroubles ==
    ASSUME Bounds, Faulty
    PROVE  Bounds' /\ ~Untroubled'
<1>1. ASSUME ClearFault PROVE Bounds' /\ ~Untroubled'
  BY <1>1, FailsTroubles, Zenon DEF ClearFault
<1>2. ASSUME EraseFault PROVE Bounds' /\ ~Untroubled'
  BY <1>2, FailsTroubles, Zenon DEF EraseFault
<1>3. ASSUME WriteFault PROVE Bounds' /\ ~Untroubled'
  BY <1>3, FailsTroubles DEF WriteFault
<1>4. ASSUME ScanFault PROVE Bounds' /\ ~Untroubled'
  BY <1>4, FailsTroubles, Zenon DEF ScanFault
<1>5. ASSUME ResolveFault PROVE Bounds' /\ ~Untroubled'
  BY <1>5, FailsTroubles, Zenon DEF ResolveFault
<1> QED BY <1>1, <1>2, <1>3, <1>4, <1>5 DEF Faulty

\* A step that meets none is not.
LEMMA UndisturbedCounts ==
    ASSUME Undisturbed
    PROVE  UNCHANGED <<crashes, faults>>
<1>1. ASSUME NEW op, Succeeds(op) PROVE UNCHANGED <<crashes, faults>>
  BY <1>1 DEF Succeeds
<1>2. ASSUME NoFlashOp PROVE UNCHANGED <<crashes, faults>>
  BY <1>2 DEF NoFlashOp
<1>3. ASSUME NEW rep, Answer(rep) PROVE UNCHANGED <<crashes, faults>>
  BY <1>3, <1>2 DEF Answer
<1>4. ASSUME PowerOn PROVE UNCHANGED <<crashes, faults>>
  BY <1>4 DEF PowerOn
<1>5. ASSUME NEW r \in Request, Receive(r) PROVE UNCHANGED <<crashes, faults>>
  BY <1>5 DEF Receive
<1>6. ASSUME AnswerFailed PROVE UNCHANGED <<crashes, faults>>
  BY <1>3, <1>6 DEF AnswerFailed
<1>7. ASSUME AnswerDone PROVE UNCHANGED <<crashes, faults>>
  BY <1>3, <1>7 DEF AnswerDone
<1>8. ASSUME AnswerRead PROVE UNCHANGED <<crashes, faults>>
  BY <1>3, <1>8 DEF AnswerRead
<1>9. ASSUME AnswerDummy PROVE UNCHANGED <<crashes, faults>>
  <2>1. (\E rep : Answer(rep))
    BY <1>9, Zenon DEF AnswerDummy
  <2> QED BY <2>1, <1>3
<1>10. ASSUME ClearNotFound PROVE UNCHANGED <<crashes, faults>>
  BY <1>3, <1>10 DEF ClearNotFound
<1>11. ASSUME Clear PROVE UNCHANGED <<crashes, faults>>
  BY <1>1, <1>11 DEF Clear
<1>12. ASSUME StartWrite \/ TakeSpace \/ StartReclaim \/ NoSpace \/ Relocate
       PROVE  UNCHANGED <<crashes, faults>>
  BY <1>2, <1>12, Zenon DEF StartWrite, TakeSpace, StartReclaim, NoSpace, Relocate
<1>13. ASSUME EraseReclaimed PROVE UNCHANGED <<crashes, faults>>
  BY <1>1, <1>13 DEF EraseReclaimed
<1>14. ASSUME WriteStep PROVE UNCHANGED <<crashes, faults>>
  BY <1>1, <1>14 DEF WriteStep
<1>15. ASSUME WriteRefused \/ NoIncoming \/ MergeIncoming \/ ReclaimInvalid \/ InitDone
       PROVE  UNCHANGED <<crashes, faults>>
  BY <1>2, <1>15 DEF WriteRefused, NoIncoming, MergeIncoming, ReclaimInvalid, InitDone
<1>16. ASSUME ScanBlock PROVE UNCHANGED <<crashes, faults>>
  BY <1>1, <1>2, <1>16 DEF ScanBlock
<1>17. ASSUME ResolveIncoming PROVE UNCHANGED <<crashes, faults>>
  BY <1>1, <1>17 DEF ResolveIncoming
<1>18. ASSUME InvalidateIncoming PROVE UNCHANGED <<crashes, faults>>
  BY <1>1, <1>18 DEF InvalidateIncoming
<1>19. ASSUME ResolveOutgoing PROVE UNCHANGED <<crashes, faults>>
  BY <1>1, <1>19 DEF ResolveOutgoing
<1> QED BY <1>4, <1>5, <1>6, <1>7, <1>8, <1>9, <1>10, <1>11, <1>12, <1>13, <1>14, <1>15, <1>16,
           <1>17, <1>18, <1>19 DEF Undisturbed

\* Steps that only a store takes that met a power loss or a flash error.
LEMMA NeverRecovers ==
    ASSUME StoreInv
    PROVE  /\ ~WriteRefused /\ ~ResolveIncoming /\ ~MergeIncoming /\ ~InvalidateIncoming
           /\ ~ResolveOutgoing /\ ~ReclaimInvalid
<1>1. ~WriteRefused
  BY WriteKeeps DEF WriteRefused
<1>2. \A ph : InPhase(ph) => tab.inc = NoOff /\ ph \in {"scan", "incoming", "reclaim"}
  BY InitState
<1>3. ~ResolveIncoming /\ ~MergeIncoming /\ ~InvalidateIncoming
  BY <1>2 DEF ResolveIncoming, MergeIncoming, InvalidateIncoming
<1>4. ~ResolveOutgoing
  <2>1. "outgoing" \notin {"scan", "incoming", "reclaim"}
    OBVIOUS
  <2> QED BY <1>2, <2>1 DEF ResolveOutgoing
<1>5. ~ReclaimInvalid
  BY InitReady DEF ReclaimInvalid
<1> QED BY <1>1, <1>3, <1>4, <1>5

\* Every step that meets no error keeps the invariant.
LEMMA UndisturbedKeeps ==
    ASSUME StoreInv, Undisturbed
    PROVE  StoreInv'
<1>1. WriteStep => StoreInv'
  BY WriteKeeps DEF WriteStep
<1> QED BY <1>1, NeverRecovers, PowerOnKeeps, ReceiveKeeps, AnsweredAnyKeeps, AnswerDummyKeeps, ClearKeeps,
           StartWriteKeeps, TakeSpaceKeeps, StartReclaimKeeps, NoSpaceKeeps, RelocateKeeps,
           EraseReclaimedKeeps, ScanBlockKeeps, NoIncomingKeeps, InitDoneKeeps
        DEF Undisturbed

\* The invariant holds at first.
LEMMA SpaceInit == Init => Bounds /\ SpaceInv
<1>1. SUFFICES ASSUME Init PROVE Bounds /\ StoreInv
  BY DEF SpaceInv
<1>2. Bounds
  BY <1>1, BoundsAssumption DEF Init, Bounds
<1>3. flash = [o \in Off |-> Erased] /\ tab = EmptyTables /\ mode = "off" /\ stack = <<>>
      /\ pending = NoReq /\ done = FALSE /\ reply = NoReply
  BY <1>1 DEF Init
<1>4. "off" # "up" /\ "off" # "failed"
  OBVIOUS
<1> QED BY <1>2, <1>3, <1>4, EmptyTabIs, NoReplyIs, Zenon DEF StoreInv

\* ... and every step keeps it.
LEMMA SpaceStep == Bounds /\ SpaceInv /\ [Next]_vars => Bounds' /\ SpaceInv'
<1>1. SUFFICES ASSUME Bounds, SpaceInv, [Next]_vars PROVE Bounds' /\ SpaceInv'
  OBVIOUS
<1>2. CASE Undisturbed
  <2>1. UNCHANGED <<crashes, faults>>
    BY <1>2, UndisturbedCounts
  <2>2. Untroubled' => Untroubled
    BY <2>1 DEF Untroubled
  <2>3. Untroubled => StoreInv'
    BY <1>1, <1>2, UndisturbedKeeps DEF SpaceInv
  <2> QED BY <1>1, <2>1, <2>2, <2>3 DEF Bounds, SpaceInv
<1>3. CASE Faulty
  BY <1>1, <1>3, FaultyTroubles DEF SpaceInv
<1>4. CASE Crash
  BY <1>1, <1>4, CrashTroubles DEF SpaceInv
<1>5. CASE UNCHANGED vars
  <2>1. Bounds' = Bounds
    BY <1>5 DEF vars, Bounds
  <2>2. StoreInv' = StoreInv
    BY <1>5 DEF vars, StoreInv, Initing
  <2>3. Untroubled' = Untroubled
    BY <1>5 DEF vars, Untroubled
  <2> QED BY <1>1, <2>1, <2>2, <2>3 DEF SpaceInv
<1> QED BY <1>1, <1>2, <1>3, <1>4, <1>5, NextIs

\* As long as no power loss and no flash error has happened, the tables, the
\* blocks and the shadow of the driver are what the flash holds, at every
\* moment of every request, reclaim, relocation and initialization: for any
\* number and size of blocks and any record lengths.
THEOREM SpaceInvariant == Spec => [](Bounds /\ SpaceInv)
<1> QED BY SpaceInit, SpaceStep, PTL DEF Spec

(***************************************************************************)
(* The properties follow.                                                  *)
(***************************************************************************)

\* The frames of the invariant are frames of TypeOK.
LEMMA PutFramesAre == PutType \subseteq Frame
BY DEF PutType, Frame

\* ... those of a reclaim,
LEMMA ReclaimFramesAre == \A b \in Block : ReclaimFrame(b) \in Frame
BY DEF ReclaimFrame, Frame

\* ... and those of an initialization.
LEMMA InitFramesAre ==
    \A ph \in {"scan", "incoming", "reclaim"}, b \in Block : InitFrame(ph, b, "none") \in Frame
<1>1. \A b \in Block : b \in 0..NumBlocks
  BY LayoutAssumption DEF Block
<1> QED BY <1>1 DEF InitFrame, Frame

\* A stack of at most four frames.
FramesOK(s) == Len(s) \in 0..4 /\ \A k \in 1..Len(s) : s[k] \in Frame

\* Four frames hold at most four records.
LEMMA FrameCount ==
    ASSUME NEW s, FramesOK(s)
    PROVE  /\ \A k \in 1..Len(s) : s[k] \in Frame
           /\ Cardinality({k \in 1..Len(s) : s[k].f = "put"}) <= 4
<1> DEFINE n == Len(s)
           T == {k \in 1..n : s[k].f = "put"}
<1>1. n \in 0..4
  BY DEF FramesOK
<1>2. T \subseteq 1..n
  OBVIOUS
<1> HIDE DEF n, T
<1>3. IsFiniteSet(1..n) /\ Cardinality(1..n) = IF 1 > n THEN 0 ELSE n - 1 + 1
  BY <1>1, FS_Interval
<1>4. Cardinality(T) <= Cardinality(1..n) /\ Cardinality(T) \in Nat /\ Cardinality(1..n) \in Nat
  BY <1>2, <1>3, FS_Subset, FS_CardinalityType, Zenon
<1>5. Cardinality(1..n) <= 4
  BY <1>1, <1>3
<1>6. Cardinality(T) <= 4
  BY <1>4, <1>5
<1> QED BY <1>6 DEF T, n, FramesOK

\* The stacks of a running store,
LEMMA ShapeFrames ==
    ASSUME NEW s, NEW list, NEW p, Shape(s, list, p)
    PROVE  FramesOK(s)
<1>1. CASE s = <<>>
  <2>1. Len(s) = 0
    BY <1>1
  <2> QED BY <2>1 DEF FramesOK
<1>2. ASSUME NEW f \in PutType, s = Stack1(f) PROVE FramesOK(s)
  <2>1. s[1] = f /\ Len(s) = 1
    BY <1>2, Stack1Is
  <2>2. \A k \in 1..1 : k = 1
    OBVIOUS
  <2> QED BY <2>1, <2>2, PutFramesAre DEF FramesOK
<1>3. ASSUME NEW b \in Block, NEW w \in PutType, s = Stack2(b, w) PROVE FramesOK(s)
  <2>1. s[1] = ReclaimFrame(b) /\ s[2] = w /\ Len(s) = 2
    BY <1>3 DEF Stack2
  <2>2. \A k \in 1..2 : k = 1 \/ k = 2
    OBVIOUS
  <2> QED BY <2>1, <2>2, PutFramesAre, ReclaimFramesAre DEF FramesOK
<1>4. ASSUME NEW b \in Block, NEW w \in PutType, NEW f \in PutType, s = Stack3(f, b, w) PROVE FramesOK(s)
  <2>1. s[1] = f /\ s[2] = ReclaimFrame(b) /\ s[3] = w /\ Len(s) = 3
    BY <1>4 DEF Stack3
  <2>2. \A k \in 1..3 : k = 1 \/ k = 2 \/ k = 3
    OBVIOUS
  <2> QED BY <2>1, <2>2, PutFramesAre, ReclaimFramesAre DEF FramesOK
<1> QED BY <1>1, <1>2, <1>3, <1>4, ShapeIs

\* ... and of one that is initializing.
LEMMA StartsFrames ==
    ASSUME NEW fl, NEW t, NEW s, Starts(fl, t, s)
    PROVE  FramesOK(s)
<1>1. /\ Len(s) = 1 /\ s[1] = InitFrame(s[1].phase, s[1].b, "none")
      /\ s[1].phase \in {"scan", "incoming", "reclaim"} /\ s[1].b \in Block
  BY StartsIs
<1>2. s[1] \in Frame
  BY <1>1, InitFramesAre
<1>3. \A k \in 1..1 : k = 1
  OBVIOUS
<1> QED BY <1>1, <1>2, <1>3 DEF FramesOK

\* The type invariant follows.
LEMMA TypeFollows == Bounds /\ StoreInv => TypeOK
<1>1. SUFFICES ASSUME Bounds, StoreInv PROVE TypeOK
  OBVIOUS
<1>2. FramesOK(stack) /\ tab.unsynced \in Nat
  <2>1. CASE mode \in {"off", "failed"}
    <3>1. stack = <<>> /\ tab = EmptyTables
      BY <1>1, <2>1 DEF StoreInv
    <3>2. FramesOK(stack)
      BY <3>1 DEF FramesOK
    <3> QED BY <3>1, <3>2, EmptyTabIs
  <2>2. CASE mode = "up" /\ Initing
    <3>1. Starts(flash, tab, stack)
      BY <1>1, <2>2 DEF StoreInv
    <3>2. tab.unsynced \in Nat
      BY <3>1 DEF Starts
    <3> QED BY <3>1, <3>2, StartsFrames
  <2>3. CASE mode = "up" /\ ~Initing
    <3>1. Running(flash, tab, stack, pending)
      BY <1>1, <2>3 DEF StoreInv
    <3>2. Shape(stack, tab.list, pending) /\ tab.unsynced \in Nat
      BY <3>1 DEF Running, Tracking
    <3> QED BY <3>2, ShapeFrames
  <2> QED BY <1>1, <2>1, <2>2, <2>3 DEF StoreInv
<1>3. tab.inc \in Off \cup {NoOff} /\ tab.out \in Off \cup {NoOff} /\ tab.recent \in Block
  BY <1>1 DEF StoreInv, TabType
<1> QED BY <1>1, <1>2, <1>3, FrameCount, Zenon DEF TypeOK, StoreInv, Bounds

\* Between two requests the tables are what a walk finds.
LEMMA TalliesFollow ==
    ASSUME StoreInv, Settled
    PROVE  Tallies(flash, tab) /\ shadow = flash /\ Distinct(tab.list) /\ tab \in TabType
<1>1. mode = "up" /\ stack = <<>>
  BY DEF Settled
<1>2. Running(flash, tab, <<>>, pending) /\ shadow = flash /\ tab \in TabType
  BY <1>1, IdleState
<1> QED BY <1>2, TalliesIs DEF Running

\* The space behind the last record that no header fits in.
LEMMA TailIs == \A b \in Block : TailWaste(b) = WasteBehind(EndOf(flash, b))
BY DEF TailWaste, WasteBehind

\* RecordsTracked follows.
LEMMA RecordsFollow == StoreInv => RecordsTracked
<1>1. SUFFICES ASSUME StoreInv, Settled
               PROVE  /\ Range(tab.list) = UNION {Listed(flash, b) : b \in Block}
                      /\ Len(tab.list) = Cardinality(Range(tab.list))
                      /\ \A b \in Block :
                           /\ tab.blk[b].valid = Cardinality(Listed(flash, b))
                           /\ tab.blk[b].valid > 0 => tab.blk[b].wasted - DeletedIn(flash, b) \in TailWaste(b)
                           /\ IsFree(tab, b) => EndOf(flash, b) = 0
  BY DEF RecordsTracked
<1>2. Tallies(flash, tab)
  BY <1>1, TalliesFollow
<1>3. \A b \in Block : IsFree(tab, b) => tab.blk[b].used = 0
  BY DEF IsFree, EmptyBlock
<1> QED BY <1>2, <1>3, TailIs DEF Tallies

\* SpaceTracked follows.
LEMMA SpaceFollows == StoreInv => SpaceTracked
<1>1. SUFFICES ASSUME StoreInv, Settled PROVE \A b \in Block : tab.blk[b].used = EndOf(flash, b)
  BY DEF SpaceTracked
<1> QED BY <1>1, TalliesFollow DEF Tallies

\* OneFreeBlock follows.
LEMMA FreeFollows == StoreInv => OneFreeBlock
BY TalliesFollow DEF OneFreeBlock, Tallies

\* ShadowInSync follows.
LEMMA ShadowFollows == StoreInv => ShadowInSync
BY TalliesFollow DEF ShadowInSync

\* The cells that the content of a record will be written on.
LEMMA ErasedBehind ==
    ASSUME NEW fl, NEW t \in TabType, NEW s, NEW p, Running(fl, t, s, p), Begins(s)
    PROVE  \A k \in 1..(s[1].len - 1) : fl[s[1].new + k] = Erased
<1> DEFINE f == s[1]
<1>1. Busy(s)
  BY DEF Begins
<1>2. f.new \in Off /\ f.len \in RecLen
  BY <1>1, BusyIs, Zenon DEF PutIs
<1>3. PICK b \in Block : Placed(fl, t, s, b)
  BY PlaceIs
<1> DEFINE u == BareBlock(t, s, b).used
<1>4. f.new = Base(b) + u /\ u \in Nat /\ u + f.len <= BlockSize
  BY <1>3 DEF Placed
<1>5. \A o \in Off : o > f.new /\ o < f.new + f.len => fl[o] = Erased
  <2>1. f = s[1]
    OBVIOUS
  <2> HIDE DEF f
  <2> QED BY <2>1, PlaceFree
<1> HIDE DEF u
<1>6. ASSUME NEW k \in 1..(f.len - 1) PROVE fl[f.new + k] = Erased
  <2>1. Base(b) \in Nat /\ f.len \in Nat /\ BlockSize \in Nat
    BY <1>2, Sizes, BlockCells
  <2> DEFINE n == f.len
             o == f.new + k
             a == f.new
  <2>2. o \in Nat /\ o >= Base(b) /\ o < Base(b) + BlockSize /\ o > a /\ o < a + n
    <3>1. a = Base(b) + u /\ u \in Nat /\ u + n <= BlockSize /\ n \in Nat /\ k \in 1..(n - 1) /\ o = a + k
      BY <1>4, <1>6, <2>1
    <3> HIDE DEF n, o, a
    <3> QED BY ONLY <2>1, <3>1
  <2>3. o \in CellsOf(b)
    <3> HIDE DEF n, o, a
    <3> QED BY ONLY <2>1, <2>2 DEF CellsOf
  <2>4. o \in Off
    BY <2>3, BlockCells
  <2> QED BY <2>2, <2>4, <1>5
<1> QED BY <1>6

\* NeverOverwrite follows.
LEMMA OverwriteFollows == StoreInv => NeverOverwrite
<1>1. SUFFICES ASSUME StoreInv, Writing, stack[1].step = "INCOMING"
               PROVE  flash[stack[1].new] = Erased
                      /\ \A k \in 1..(stack[1].len - 1) : flash[stack[1].new + k] = Erased
  BY DEF NeverOverwrite, Top
<1>2. Running(flash, tab, stack, pending) /\ tab \in TabType /\ Busy(stack)
  BY <1>1, WritingState
<1>3. Begins(stack)
  BY <1>1, <1>2 DEF Begins
<1>4. \A k \in 1..(stack[1].len - 1) : flash[stack[1].new + k] = Erased
  BY ONLY <1>2, <1>3, ErasedBehind
<1>5. flash[stack[1].new] = Erased
  <2> DEFINE f == stack[1]
  <2>1. f = stack[1]
    OBVIOUS
  <2> HIDE DEF f
  <2>2. f.step = "INCOMING" => flash[f.new] = Erased
    BY ONLY <1>2, <1>3, <2>1, PlaceFree
  <2> QED BY <1>1, <2>1, <2>2
<1> QED BY <1>4, <1>5

\* The state has its type: a stack never holds more frames than there are
\* record buffers (MAX_RECORD_POOLS), and UnsyncedSpinorChanges never goes
\* below 0.
THEOREM TypesKept == Spec => [](Untroubled => TypeOK)
<1>1. Bounds /\ SpaceInv => (Untroubled => TypeOK)
  BY TypeFollows DEF SpaceInv
<1> QED BY <1>1, SpaceInvariant, PTL

\* The list holds exactly the records on the flash, and each block's entry has
\* their number and the space of the deleted ones, after any sequence of
\* writes, clears, reclaims and relocations (ErstAllocateNewRecord,
\* ErstDeallocateRecord, ErstFreeRecord).
THEOREM RecordsKept == Spec => [](Untroubled => RecordsTracked)
<1>1. Bounds /\ SpaceInv => (Untroubled => RecordsTracked)
  BY RecordsFollow DEF SpaceInv
<1> QED BY <1>1, SpaceInvariant, PTL

\* UsedSize is where the next record of a block goes (ErstPrepareNewRecord).
THEOREM SpaceKept == Spec => [](Untroubled => SpaceTracked)
<1>1. Bounds /\ SpaceInv => (Untroubled => SpaceTracked)
  BY SpaceFollows DEF SpaceInv
<1> QED BY <1>1, SpaceInvariant, PTL

\* A block is erased between requests, for the next reclaim
\* (ErstFindFreeSpace).
THEOREM FreeBlockKept == Spec => [](Untroubled => OneFreeBlock)
<1>1. Bounds /\ SpaceInv => (Untroubled => OneFreeBlock)
  BY FreeFollows DEF SpaceInv
<1> QED BY <1>1, SpaceInvariant, PTL

\* The copy that reads are answered from is what the flash holds
\* (ErstWriteSpiNor, ErstEraseSpiNor).
THEOREM ShadowKept == Spec => [](Untroubled => ShadowInSync)
<1>1. Bounds /\ SpaceInv => (Untroubled => ShadowInSync)
  BY ShadowFollows DEF SpaceInv
<1> QED BY <1>1, SpaceInvariant, PTL

\* No record is written over another: ErstWriteRecord writes on erased flash.
THEOREM NothingOverwritten == Spec => [](Untroubled => NeverOverwrite)
<1>1. Bounds /\ SpaceInv => (Untroubled => NeverOverwrite)
  BY OverwriteFollows DEF SpaceInv
<1> QED BY <1>1, SpaceInvariant, PTL

(***************************************************************************)
(* The order in which records are enumerated, and what is refused.         *)
(***************************************************************************)

\* ErstGetNextRecordID: the id behind that of the record at place k.
LEMMA NextIdIs ==
    ASSUME NEW t, Distinct(t.list), NEW k \in 1..Len(t.list)
    PROVE  NextId(t, t.list[k].id) = IF k < Len(t.list) THEN t.list[k + 1].id ELSE FirstId(t)
<1> DEFINE i == t.list[k].id
           T == {j \in 1..Len(t.list) : t.list[j].id = i}
           m == SelectInSeq(t.list, LAMBDA e : e.id = i)
<1>1. Len(t.list) \in Nat
  BY ListIs
<1>2. T # {} /\ T \subseteq Nat /\ k \in T
  BY <1>1
<1>3. Min(T) \in T
  BY <1>2, MinOf, Zenon
<1>4. m = Min(T)
  BY <1>2 DEF SelectInSeq
<1>5. \A j \in T : j = k
  BY DEF Distinct
<1>6. m = k
  BY <1>3, <1>4, <1>5, Zenon
<1>7. NextId(t, i) = IF m \in 1..(Len(t.list) - 1) THEN t.list[m + 1].id ELSE FirstId(t)
  BY DEF NextId
<1>8. m \in 1..(Len(t.list) - 1) <=> k < Len(t.list)
  BY <1>1, <1>6
<1> QED BY <1>6, <1>7, <1>8, Zenon

\* The ids that an OS gets which starts at the first and follows them.
IdsFollow(t, f) ==
    f = [k \in 1..(Len(t.list) + 1) |-> IF k = 1 THEN FirstId(t) ELSE NextId(t, f[k - 1])]

\* The ids of the list, and the first once more.
Around(t) == [k \in 1..(Len(t.list) + 1) |-> IF k <= Len(t.list) THEN t.list[k].id ELSE FirstId(t)]

\* The ids of the list, and the first again, are such a sequence.
LEMMA AroundFollows ==
    ASSUME NEW t, Distinct(t.list), t.list # <<>>
    PROVE  IdsFollow(t, Around(t))
<1> DEFINE n == Len(t.list)
           g == Around(t)
<1>1. n \in Nat /\ n # 0
  BY ListIs
<1>2. FirstId(t) = t.list[1].id
  BY DEF FirstId
<1>3. g = [k \in 1..(n + 1) |-> g[k]]
  BY DEF Around
<1>4. \A k \in 1..(n + 1) : g[k] = IF k <= n THEN t.list[k].id ELSE FirstId(t)
  BY DEF Around
<1> HIDE DEF g
<1>5. ASSUME NEW k \in 1..(n + 1) PROVE g[k] = IF k = 1 THEN FirstId(t) ELSE NextId(t, g[k - 1])
  <2>1. CASE k = 1
    BY <1>1, <1>2, <1>4, <2>1
  <2>2. CASE k # 1
    <3>1. k - 1 \in 1..n /\ k - 1 <= n /\ k - 1 \in 1..(n + 1) /\ (k - 1) + 1 = k
          /\ (k - 1 < n <=> k <= n)
      BY <1>1, <2>2
    <3>2. g[k - 1] = t.list[k - 1].id
      BY <1>4, <3>1
    <3> DEFINE j == k - 1
    <3>3. NextId(t, t.list[j].id) = IF j < n THEN t.list[j + 1].id ELSE FirstId(t)
      <4>1. j \in 1..Len(t.list)
        BY <3>1
      <4> HIDE DEF j
      <4> QED BY <4>1, NextIdIs
    <3> QED BY <2>2, <3>1, <3>2, <3>3, <1>4
  <2> QED BY <2>1, <2>2
<1>6. g = [k \in 1..(n + 1) |-> IF k = 1 THEN FirstId(t) ELSE NextId(t, g[k - 1])]
  BY <1>3, <1>5, Zenon
<1> QED BY <1>6 DEF IdsFollow, g

\* There is only one.
LEMMA OneFollows ==
    ASSUME NEW t, Distinct(t.list), NEW f, IdsFollow(t, f), NEW g, IdsFollow(t, g)
    PROVE  \A k \in 1..(Len(t.list) + 1) : f[k] = g[k]
<1> DEFINE n == Len(t.list)
           Bad == {k \in 1..(n + 1) : f[k] # g[k]}
<1>1. n \in Nat
  BY ListIs
<1>2. \A k \in 1..(n + 1) : f[k] = IF k = 1 THEN FirstId(t) ELSE NextId(t, f[k - 1])
  BY DEF IdsFollow
<1>3. \A k \in 1..(n + 1) : g[k] = IF k = 1 THEN FirstId(t) ELSE NextId(t, g[k - 1])
  BY DEF IdsFollow
<1>4. ASSUME Bad # {} PROVE FALSE
  <2>1. PICK m \in Bad : \A j \in Bad : m <= j
    <3>1. Bad \subseteq Nat
      BY <1>1
    <3> QED BY <3>1, <1>4, SmallestIn, Zenon
  <2>2. m \in 1..(n + 1) /\ f[m] # g[m]
    OBVIOUS
  <2>3. m # 1
    BY <1>2, <1>3, <2>2
  <2>4. m - 1 \in 1..(n + 1) /\ ~(m <= m - 1)
    BY <1>1, <2>2, <2>3
  <2>5. f[m - 1] = g[m - 1]
    BY <2>1, <2>4
  <2> HIDE DEF Bad
  <2> QED BY <1>2, <1>3, <2>2, <2>3, <2>5
<1> QED BY <1>4

\* EnumerationComplete follows.
LEMMA EnumerationFollows == StoreInv => EnumerationComplete
<1> DEFINE n == Len(tab.list)
           id == CHOOSE f : IdsFollow(tab, f)
<1>1. SUFFICES ASSUME StoreInv, Settled, tab.list # <<>>
               PROVE  /\ {id[k] : k \in 1..n} = {r.id : r \in UNION {Listed(flash, b) : b \in Block}}
                      /\ id[n + 1] = FirstId(tab)
  BY Zenon DEF EnumerationComplete, IdsFollow
<1>2. Distinct(tab.list) /\ Range(tab.list) = UNION {Listed(flash, b) : b \in Block}
  BY <1>1, TalliesFollow DEF Tallies
<1>3. IdsFollow(tab, Around(tab))
  BY <1>1, <1>2, AroundFollows
<1>4. IdsFollow(tab, id)
  BY <1>3
<1> HIDE DEF id
<1>5. \A k \in 1..(n + 1) : id[k] = Around(tab)[k]
  BY <1>2, <1>3, <1>4, OneFollows
<1>6. n \in Nat
  BY <1>2, ListIs
<1>7. \A k \in 1..n : id[k] = tab.list[k].id
  <2>1. \A k \in 1..n : k \in 1..(n + 1) /\ k <= n
    BY <1>6
  <2> QED BY <1>5, <2>1, Zenon DEF Around
<1>8. id[n + 1] = FirstId(tab)
  <2>1. n + 1 \in 1..(n + 1) /\ ~(n + 1 <= n)
    BY <1>6
  <2> QED BY <1>5, <2>1, Zenon DEF Around
<1>9. \A r : r \in Range(tab.list) <=> \E k \in 1..n : tab.list[k] = r
  BY <1>2, ListIs, Zenon
<1>10. {id[k] : k \in 1..n} = {r.id : r \in Range(tab.list)}
  BY <1>7, <1>9
<1> QED BY <1>2, <1>8, <1>10, Zenon

\* An OS that follows the ids from ERST_FIRST_RECORD_ID on meets every stored
\* record before it is back at the first (ErstGetNextRecordID).
THEOREM AllEnumerated == Spec => [](Untroubled => EnumerationComplete)
<1>1. Bounds /\ SpaceInv => (Untroubled => EnumerationComplete)
  BY EnumerationFollows DEF SpaceInv
<1> QED BY <1>1, SpaceInvariant, PTL

-----------------------------------------------------------------------------

\* A write that finds no space fits into no block but the one in reserve.
LEMMA NoSpaceFull ==
    ASSUME StoreInv, NoSpace
    PROVE  Full(pending.len)
<1> DEFINE space == FindFreeSpace(tab, stack[1].len, FALSE)
<1>1. /\ Doing("put") /\ stack[1].step = "space" /\ space.how = "none"
  BY Zenon DEF NoSpace, Top
<1>2. /\ Running(flash, tab, stack, pending) /\ tab \in TabType /\ stack # <<>> /\ stack[1].f = "put"
  BY <1>1, PutState
<1>3. AtStep(stack, "space")
  BY <1>1 DEF AtStep
<1>4. /\ WriteFrame(stack[1], tab.list, pending)
      /\ Store(flash, NoOff, NoOff, tab.blk, Range(tab.list))
      /\ \A b \in Block : /\ tab.blk[b].valid = 0 => IsFree(tab, b)
                          /\ tab.blk[b].valid > 0 => ~(Live(tab, b) + stack[1].len <= BlockSize)
      /\ \E r \in Block : IsFree(tab, r) /\ \A b \in Block \ {r} : tab.blk[b].valid > 0
  <2>1. space = FindFreeSpace(tab, stack[1].len, FALSE)
    OBVIOUS
  <2> HIDE DEF space
  <2> QED BY ONLY <1>1, <1>2, <1>3, <2>1, NoSpaceIs, Zenon
<1> DEFINE n == pending.len
<1>5. stack[1].len = n /\ n \in Nat
  <2>1. stack[1].len = pending.len /\ stack[1] \in PutType
    BY <1>4 DEF WriteFrame, PutOK
  <2>2. stack[1].len \in RecLen
    BY <2>1 DEF PutType
  <2> QED BY <2>1, <2>2, Sizes
<1>6. \A d, e \in Range(tab.list) : d # e => d.id # e.id
  <2>1. Distinct(tab.list)
    BY <1>2 DEF Running
  <2>2. SUFFICES ASSUME NEW d \in Range(tab.list), NEW e \in Range(tab.list), d # e PROVE d.id # e.id
    OBVIOUS
  <2>3. PICK k \in 1..Len(tab.list) : tab.list[k] = d
    BY <2>1, ListIs
  <2>4. PICK m \in 1..Len(tab.list) : tab.list[m] = e
    BY <2>1, ListIs
  <2>5. k # m
    BY <2>2, <2>3, <2>4
  <2> QED BY <2>1, <2>3, <2>4, <2>5 DEF Distinct
<1>7. ASSUME NEW b \in Block
      PROVE  /\ tab.blk[b].valid = 0 => BlockErased(flash, b)
             /\ tab.blk[b].valid > 0 => LiveIn(flash, b) + n > BlockSize
  <2>1. Scans(flash, b, tab.blk[b].used, Walk(flash, b)) /\ BlockOK(flash, b, tab.blk[b])
    BY ONLY <1>4, <1>6, b \in Block, RestingScans
  <2>2. tab.blk[b].valid = 0 => IsFree(tab, b)
    BY <1>4
  <2>3. tab.blk[b].valid > 0 => ~(Live(tab, b) + n <= BlockSize)
    BY <1>4, <1>5
  <2>4. n \in Nat
    BY <1>5
  <2> HIDE DEF n
  <2> QED BY ONLY <1>2, <2>1, <2>2, <2>3, <2>4, b \in Block, FullIs
<1>8. PICK r \in Block : IsFree(tab, r) /\ \A b \in Block \ {r} : tab.blk[b].valid > 0
  BY <1>4
<1>9. BlockErased(flash, r)
  BY <1>7, <1>8 DEF IsFree, EmptyBlock
<1>10. \A b \in Block \ {r} : LiveIn(flash, b) + n > BlockSize
  BY <1>7, <1>8
<1> QED BY <1>9, <1>10 DEF Full

\* A write is refused for this reason only.
LEMMA RefusalFollows ==
    ASSUME StoreInv, Undisturbed, NumBlocks < 256, Refuses
    PROVE  Full(pending.len)
<1>1. pending # NoReq /\ pending.op = "write" /\ pending' = NoReq /\ pending' # pending
      /\ reply'.status = "error"
  BY DEF Refuses
<1>2. ~(NumBlocks >= 256)
  BY LayoutAssumption
<1>3. ~PowerOn /\ \A r \in Request : ~Receive(r)
  BY <1>1 DEF PowerOn, Receive
<1>4. ~AnswerFailed
  BY <1>2 DEF AnswerFailed, StoreInv
<1>5. ~AnswerDone
  <2>1. \A n : Reply("ok", NoVal, n).status = "ok"
    BY ReplyIs
  <2>2. "ok" # "error"
    OBVIOUS
  <2> QED BY <1>1, <2>1, <2>2 DEF AnswerDone, Answer
<1>6. ~AnswerRead /\ ~AnswerDummy /\ ~ClearNotFound /\ ~Clear
  <2>1. "write" # "read" /\ "write" # "dummy" /\ "write" # "clear"
    OBVIOUS
  <2> QED BY <1>1, <2>1 DEF AnswerRead, AnswerDummy, ClearNotFound, Clear
<1>7. ~StartWrite /\ ~TakeSpace /\ ~StartReclaim /\ ~EraseReclaimed /\ ~WriteStep /\ ~ScanBlock /\ ~NoIncoming
  BY <1>1, Zenon DEF StartWrite, TakeSpace, StartReclaim, EraseReclaimed, WriteStep, ScanBlock, NoIncoming
<1>8. ~Relocate
  BY <1>1, RelocateKeeps
<1>9. ~InitDone
  BY <1>1, <1>2, InitDoneKeeps
<1>10. NoSpace
  BY <1>3, <1>4, <1>5, <1>6, <1>7, <1>8, <1>9, NeverRecovers DEF Undisturbed
<1> QED BY <1>10, NoSpaceFull

\* A write is refused only when one erased block is left, the reserve, and every
\* other block has too many live bytes (ErstFindFreeSpace, ErstReclaimBlock:
\* neither a second free block nor space that a reclaim would give back is
\* passed over): where no power loss
\* and no flash error happens, and the number of blocks fits the UINT8 that
\* counts the free ones.
THEOREM RefusedWhenFull ==
    ASSUME MaxCrashes = 0, MaxFaults = 0, NumBlocks < 256
    PROVE  Spec => RefusedOnlyWhenFull
<1>1. Bounds /\ SpaceInv /\ Bounds' /\ [Next]_vars => [Refuses => Full(pending.len)]_vars
  <2>1. SUFFICES ASSUME Bounds, SpaceInv, Bounds', Next, Refuses PROVE Full(pending.len)
    OBVIOUS
  <2>2. Untroubled /\ Untroubled'
    BY <2>1 DEF Bounds, Untroubled
  <2>3. StoreInv
    BY <2>1, <2>2 DEF SpaceInv
  <2>4. Undisturbed
    BY <2>1, <2>2, NextIs, FaultyTroubles, CrashTroubles
  <2> QED BY <2>1, <2>3, <2>4, RefusalFollows
<1> QED BY <1>1, SpaceInvariant, PTL DEF Spec, RefusedOnlyWhenFull

(***************************************************************************)
(* The order of the records.                                               *)
(***************************************************************************)

\* The list does not reorder what the sequence s of ids has.
InOrder(list, s) == \A i, j \in Id : Before(s, i, j) => ~Before(Ids(list), j, i)

\* The ids of a list.
LEMMA IdsAre ==
    ASSUME NEW s, Distinct(s)
    PROVE  /\ Len(Ids(s)) = Len(s) /\ Len(s) \in Nat
           /\ \A k \in 1..Len(s) : Ids(s)[k] = s[k].id /\ s[k].id \in Id
           /\ \A i, j : Before(Ids(s), i, j) <=>
                \E m, n \in 1..Len(s) : m < n /\ s[m].id = i /\ s[n].id = j
<1>1. Len(s) \in Nat /\ \A k \in 1..Len(s) : s[k].id \in Id
  BY ListIs
<1>2. Ids(s) = [k \in 1..Len(s) |-> s[k].id]
  BY DEF Ids
<1>3. Ids(s) \in Seq(Id)
  BY <1>1, <1>2, SeqDef
<1>4. Len(Ids(s)) = Len(s)
  <2>1. DOMAIN Ids(s) = 1..Len(s)
    BY <1>2
  <2>2. DOMAIN Ids(s) = 1..Len(Ids(s)) /\ Len(Ids(s)) \in Nat
    BY <1>3
  <2> QED BY <2>1, <2>2, <1>1
<1>5. \A k \in 1..Len(s) : Ids(s)[k] = s[k].id
  BY <1>2
<1> QED BY <1>1, <1>4, <1>5 DEF Before

\* A list has its own order,
LEMMA SameOrder ==
    ASSUME NEW s, Distinct(s)
    PROVE  InOrder(s, Ids(s))
<1>1. SUFFICES ASSUME NEW m \in 1..Len(s), NEW n \in 1..Len(s), m < n,
                      NEW p \in 1..Len(s), NEW q \in 1..Len(s), p < q,
                      s[m].id = s[q].id, s[n].id = s[p].id
               PROVE  FALSE
  BY IdsAre DEF InOrder
<1>2. m = q /\ n = p
  BY <1>1 DEF Distinct
<1> QED BY <1>1, <1>2, IdsAre

\* ... keeps it when a record of a new id is appended,
LEMMA AppendedOrder ==
    ASSUME NEW s, Distinct(s), NEW e, Distinct(Append(s, e))
    PROVE  InOrder(Append(s, e), Ids(s))
<1> DEFINE a == Append(s, e)
<1>1. s \in Seq(EntryType \cup {e}) /\ Len(s) \in Nat
  <2>1. s \in Seq(EntryType)
    BY DEF Distinct
  <2> QED BY <2>1
<1>2. Distinct(a) /\ Len(a) = Len(s) + 1 /\ \A k \in 1..Len(s) : a[k] = s[k]
  BY <1>1, AppendProperties
<1> SUFFICES InOrder(a, Ids(s))
  OBVIOUS
<1> HIDE DEF a
<1>3. SUFFICES ASSUME NEW m \in 1..Len(s), NEW n \in 1..Len(s), m < n,
                      NEW p \in 1..Len(a), NEW q \in 1..Len(a), p < q,
                      s[m].id = a[q].id, s[n].id = a[p].id
               PROVE  FALSE
  BY <1>2, IdsAre, SMTT(60) DEF InOrder
<1>4. m \in 1..Len(a) /\ n \in 1..Len(a) /\ a[m].id = s[m].id /\ a[n].id = s[n].id
  BY <1>1, <1>2
<1>5. m = q /\ n = p
  BY <1>2, <1>3, <1>4 DEF Distinct
<1> QED BY <1>1, <1>3, <1>5

\* What is left when the element at place k is removed.
LEMMA RemoveIs ==
    ASSUME NEW S, NEW s \in Seq(S), NEW k \in 1..Len(s)
    PROVE  /\ Len(RemoveAt(s, k)) = Len(s) - 1
           /\ \A i \in 1..Len(RemoveAt(s, k)) : RemoveAt(s, k)[i] = IF i < k THEN s[i] ELSE s[i + 1]
<1> DEFINE r == RemoveAt(s, k)
           x == SubSeq(s, 1, k - 1)
           y == SubSeq(s, k + 1, Len(s))
<1>1. Len(s) \in Nat /\ k \in Nat
  OBVIOUS
<1>2. x \in Seq(S) /\ Len(x) = k - 1 /\ \A i \in 1..(k - 1) : x[i] = s[i]
  BY <1>1
<1>3. y \in Seq(S) /\ Len(y) = Len(s) - k /\ \A i \in 1..(Len(s) - k) : y[i] = s[i + k]
  BY <1>1
<1>4. r = x \o y
  BY DEF RemoveAt
<1> HIDE DEF r, x, y
<1>5. /\ r \in Seq(S) /\ Len(r) = Len(x) + Len(y)
      /\ \A i \in 1..(Len(x) + Len(y)) : r[i] = IF i <= Len(x) THEN x[i] ELSE y[i - Len(x)]
  BY <1>2, <1>3, <1>4, ConcatProperties
<1>6. Len(r) = Len(s) - 1 /\ Len(x) + Len(y) = Len(s) - 1
  BY <1>1, <1>2, <1>3, <1>5
<1>7. ASSUME NEW i \in 1..Len(r) PROVE r[i] = IF i < k THEN s[i] ELSE s[i + 1]
  <2>1. CASE i < k
    BY <2>1, <1>1, <1>2, <1>5, <1>6, SMTT(60)
  <2>2. CASE ~(i < k)
    <3>1. i - Len(x) \in 1..(Len(s) - k) /\ (i - Len(x)) + k = i + 1 /\ ~(i <= Len(x))
      BY <2>2, <1>1, <1>2, <1>6
    <3> QED BY <3>1, <2>2, <1>3, <1>5, <1>6
  <2> QED BY <2>1, <2>2
<1> QED BY <1>6, <1>7 DEF r

\* ... and when one is removed,
LEMMA RemovedOrder ==
    ASSUME NEW s, Distinct(s), NEW k \in 1..Len(s)
    PROVE  InOrder(RemoveAt(s, k), Ids(s))
<1> DEFINE r == RemoveAt(s, k)
           at(i) == IF i < k THEN i ELSE i + 1
<1>1. Distinct(r) /\ Len(s) \in Nat /\ Len(r) \in Nat
  BY RemoveList, ListIs
<1>2. Len(r) = Len(s) - 1 /\ \A i \in 1..Len(r) : r[i] = s[at(i)] /\ at(i) \in 1..Len(s)
  <2>1. s \in Seq(EntryType) /\ k \in Nat
    BY DEF Distinct
  <2>2. Len(r) = Len(s) - 1 /\ \A i \in 1..Len(r) : r[i] = IF i < k THEN s[i] ELSE s[i + 1]
    BY <2>1, RemoveIs
  <2> HIDE DEF r
  <2> QED BY <1>1, <2>1, <2>2
<1>3. \A i, j \in 1..Len(r) : i < j => at(i) < at(j)
  BY <1>1
<1> HIDE DEF r, at
<1>4. SUFFICES ASSUME NEW m \in 1..Len(s), NEW n \in 1..Len(s), m < n,
                      NEW p \in 1..Len(r), NEW q \in 1..Len(r), p < q,
                      s[m].id = r[q].id, s[n].id = r[p].id
               PROVE  FALSE
  BY <1>1, IdsAre DEF InOrder, r
<1>5. at(p) \in 1..Len(s) /\ at(q) \in 1..Len(s) /\ r[p] = s[at(p)] /\ r[q] = s[at(q)] /\ at(p) < at(q)
  BY <1>2, <1>3, <1>4
<1>6. m = at(q) /\ n = at(p)
  BY <1>4, <1>5 DEF Distinct
<1> QED BY <1>1, <1>4, <1>5, <1>6

\* The ids of a list one of whose records has moved.
LEMMA SameIds ==
    ASSUME NEW s, Distinct(s), NEW k \in 1..Len(s), NEW e \in EntryType, e.id = s[k].id
    PROVE  Ids([s EXCEPT ![k] = e]) = Ids(s)
<1> DEFINE r == [s EXCEPT ![k] = e]
<1>1. s \in Seq(EntryType)
  BY DEF Distinct
<1>2. r \in Seq(EntryType) /\ Len(r) = Len(s) /\ \A j \in 1..Len(s) : r[j] = IF j = k THEN e ELSE s[j]
  BY <1>1, ExceptSeq
<1> HIDE DEF r
<1>3. \A j \in 1..Len(s) : r[j].id = s[j].id
  BY <1>2
<1>4. Ids(r) = Ids(s)
  BY <1>2, <1>3 DEF Ids
<1> QED BY <1>4 DEF r

\* No id is told twice: no two of them in both orders.
OneWay(s) == \A i, j \in Id : Before(s, i, j) => ~Before(s, j, i)

\* Nothing that changes the order of the list has happened for the request.
Untouched(s, d) == IF s = <<>> THEN ~d ELSE Last(s).step = "space"

\* What the list is to an OS that was told the sequence to: while a request is
\* handled the list is that sequence, until the record is appended or removed.
\* A replaced record has taken effect before its entry is changed, so that a
\* write is not started twice.
Ordered(t, s, p, d, to) ==
    /\ InOrder(t.list, to)
    /\ (s # <<>> \/ p # NoReq) /\ Untouched(s, d) => to = Ids(t.list)
    /\ s = <<>> => t.unsynced = 0
    /\ s # <<>> => p # NoReq
    /\ s # <<>> => (Last(s).cur # NoOff /\ Last(s).step \in {"VALID", "DELETED"} => d)

\* The inductive invariant: an initialization only happens before the first
\* request, when nothing has been told.
OrderInv ==
    /\ OneWay(told)
    /\ mode = "up" /\ ~Initing => Ordered(tab, stack, pending, done, told)
    /\ mode = "up" /\ stack = <<>> /\ pending = NoReq => told = Ids(tab.list)
    /\ mode # "up" \/ Initing => told = <<>>
    /\ Initing => pending = NoReq

\* What OrderKept says of a step.
KeepsOrder == \A i, j \in Id : Before(told, i, j) => ~Before(told', j, i)

-----------------------------------------------------------------------------

\* Nothing is before anything in the empty sequence.
LEMMA NothingBefore == \A i, j : ~Before(<<>>, i, j)
BY DEF Before

\* What is told once a step has left the store handling requests.
LEMMA GoesOn ==
    ASSUME StoreInv', OneWay(told), mode' = "up", ~(Initing'),
           Ordered(tab', stack', pending', done', told), OrderNext
    PROVE  OrderInv' /\ KeepsOrder
<1>1. Distinct(tab'.list)
  <2>1. Running(flash', tab', stack', pending')
    BY DEF StoreInv
  <2> QED BY <2>1 DEF Running
<1>2. told' = IF mode' = "off" THEN <<>>
              ELSE IF mode' = "up" /\ stack' = <<>> /\ pending' = NoReq THEN Ids(tab'.list) ELSE told
  BY DEF OrderNext
<1>3. "up" # "off"
  OBVIOUS
<1>4. CASE stack' = <<>> /\ pending' = NoReq
  <2>1. told' = Ids(tab'.list)
    BY <1>2, <1>3, <1>4
  <2>2. InOrder(tab'.list, told) /\ tab'.unsynced = 0
    BY <1>4 DEF Ordered
  <2>3. InOrder(tab'.list, told')
    BY <1>1, <2>1, SameOrder
  <2>4. OneWay(told') /\ KeepsOrder
    BY <2>1, <2>2, <2>3 DEF InOrder, OneWay, KeepsOrder
  <2>5. Ordered(tab', stack', pending', done', told')
    BY <1>4, <2>2, <2>3 DEF Ordered
  <2> QED BY <1>4, <2>1, <2>4, <2>5 DEF OrderInv
<1>5. CASE ~(stack' = <<>> /\ pending' = NoReq)
  <2>1. told' = told
    BY <1>2, <1>3, <1>5
  <2>2. KeepsOrder /\ OneWay(told') /\ Ordered(tab', stack', pending', done', told')
    BY <2>1 DEF KeepsOrder, OneWay
  <2> QED BY <1>5, <2>2 DEF OrderInv
<1> QED BY <1>4, <1>5

\* ... and before it handles any.
LEMMA StaysQuiet ==
    ASSUME told = <<>>, mode' # "up" \/ Initing', Initing' => pending' = NoReq, OrderNext
    PROVE  OrderInv' /\ KeepsOrder
<1>1. told' = IF mode' = "off" THEN <<>>
              ELSE IF mode' = "up" /\ stack' = <<>> /\ pending' = NoReq THEN Ids(tab'.list) ELSE told
  BY DEF OrderNext
<1>2. Initing' => stack' # <<>>
  BY DEF Initing
<1>3. told' = <<>>
  BY <1>1, <1>2
<1> QED BY <1>2, <1>3, NothingBefore DEF OrderInv, KeepsOrder, OneWay

\* A stack of frames other than that of an initialization.
LEMMA NotInit ==
    ASSUME stack' = <<>> \/ PutBelow(stack')
    PROVE  ~(Initing')
BY DEF Initing, PutBelow

-----------------------------------------------------------------------------

\* The frame of the request stays and the ids of the list do.
LEMMA OrderedBelow ==
    ASSUME NEW t, NEW s, NEW p, NEW d, NEW to, Ordered(t, s, p, d, to), s # <<>>,
           NEW t2, Ids(t2.list) = Ids(t.list), NEW s2, s2 # <<>>, Last(s2) = Last(s),
           NEW d2, d => d2
    PROVE  Ordered(t2, s2, p, d2, to)
BY DEF Ordered, InOrder, Untouched

\* The record of the request is being written.
LEMMA OrderedWrite ==
    ASSUME NEW t2, NEW s2, NEW p, p # NoReq, NEW d2, NEW to, InOrder(t2.list, to),
           s2 # <<>>, Last(s2).step # "space",
           Last(s2).cur # NoOff /\ Last(s2).step \in {"VALID", "DELETED"} => d2
    PROVE  Ordered(t2, s2, p, d2, to)
BY DEF Ordered, Untouched

\* The request has taken effect, or is answered.
LEMMA OrderedEnd ==
    ASSUME NEW t2, NEW p2, NEW d2, NEW to, InOrder(t2.list, to), t2.unsynced = 0,
           d2 \/ p2 = NoReq
    PROVE  Ordered(t2, <<>>, p2, d2, to)
BY DEF Ordered, Untouched

\* An answer between two requests does not change the list.
LEMMA AnswerOrder ==
    ASSUME StoreInv, OrderInv, StoreInv', OrderNext,
           AnswerFailed \/ AnswerDone \/ AnswerRead \/ ClearNotFound
    PROVE  OrderInv' /\ KeepsOrder
<1>1. /\ mode = "failed" \/ Handling
      /\ pending' = NoReq /\ UNCHANGED <<tab, done, mode, stack>>
  <2>1. ASSUME NEW rep, Answer(rep) PROVE pending' = NoReq /\ UNCHANGED <<done, mode, stack>>
    BY <2>1 DEF Answer
  <2>2. CASE AnswerFailed
    BY <2>1, <2>2, Zenon DEF AnswerFailed
  <2>3. CASE AnswerDone
    BY <2>1, <2>3, Zenon DEF AnswerDone
  <2>4. CASE AnswerRead
    <3>1. Handling /\ tab' = tab /\ \E rep : Answer(rep)
      BY <2>4, Zenon DEF AnswerRead
    <3> QED BY <2>1, <3>1
  <2>5. CASE ClearNotFound
    BY <2>1, <2>5, Zenon DEF ClearNotFound
  <2> QED BY <2>2, <2>3, <2>4, <2>5
<1>2. CASE mode = "failed"
  <2>1. stack = <<>> /\ "failed" # "up"
    BY <1>2 DEF StoreInv
  <2>2. told = <<>> /\ mode' # "up" /\ ~(Initing')
    BY <1>1, <1>2, <2>1 DEF OrderInv, Initing
  <2> QED BY <2>2, StaysQuiet
<1>3. CASE Handling
  <2>1. mode = "up" /\ stack = <<>>
    BY <1>3 DEF Handling
  <2>2. ~Initing /\ ~(Initing')
    BY <1>1, <2>1 DEF Initing
  <2>3. Ordered(tab, <<>>, pending, done, told) /\ OneWay(told)
    BY <2>1, <2>2 DEF OrderInv
  <2>4. InOrder(tab.list, told) /\ tab.unsynced = 0
    BY <2>3 DEF Ordered
  <2>5. Ordered(tab', stack', pending', done', told)
    BY <1>1, <2>1, <2>4, OrderedEnd
  <2> QED BY <1>1, <2>1, <2>2, <2>3, <2>5, GoesOn
<1> QED BY <1>1, <1>2, <1>3

\* PowerOn starts the first initialization.
LEMMA PowerOnOrder ==
    ASSUME StoreInv, OrderInv, OrderNext, PowerOn
    PROVE  OrderInv' /\ KeepsOrder
<1>1. mode = "off" /\ stack' = <<InitFrame("scan", 0, "none")>> /\ pending' = pending
  BY DEF PowerOn, StartInit
<1>2. told = <<>> /\ pending = NoReq
  <2>1. "off" # "up"
    OBVIOUS
  <2> QED BY <1>1, <2>1 DEF OrderInv, StoreInv
<1>3. Initing'
  <2> DEFINE f == InitFrame("scan", 0, "none")
  <2>1. f.f = "init"
    BY ONLY InitFrameIs
  <2>2. stack' = <<f>>
    BY <1>1
  <2> HIDE DEF f
  <2>3. stack' # <<>> /\ Last(stack') = f
    BY ONLY <2>2, OneLong
  <2> QED BY <2>1, <2>3 DEF Initing
<1> QED BY <1>1, <1>2, <1>3, StaysQuiet

\* The driver is not initialized again: it knows of nothing that is out of sync
\* between two requests.
LEMMA NeverStale ==
    ASSUME StoreInv, OrderInv, mode = "up", stack = <<>>
    PROVE  ~Stale /\ ~Initing
<1>1. ~Initing /\ Running(flash, tab, <<>>, pending) /\ tab \in TabType
  BY IdleState
<1>2. tab.inc = NoOff /\ tab.out = NoOff
  BY <1>1, IdleIs
<1>3. tab.unsynced = 0
  BY <1>1 DEF OrderInv, Ordered
<1> QED BY <1>1, <1>2, <1>3 DEF Stale

\* Receive: the list is what the OS was told.
LEMMA ReceiveOrder ==
    ASSUME StoreInv, OrderInv, StoreInv', OrderNext, NEW r \in Request, Receive(r)
    PROVE  OrderInv' /\ KeepsOrder
<1>1. mode \in {"up", "failed"} /\ stack = <<>> /\ pending = NoReq /\ pending' = r
  BY DEF Receive
<1>2. UNCHANGED <<tab, stack, mode>>
  <2>1. ~(mode = "up" /\ Stale)
    BY <1>1, NeverStale
  <2> QED BY <2>1 DEF Receive
<1>3. ~Initing /\ ~(Initing')
  BY <1>1, <1>2 DEF Initing
<1>4. CASE mode = "failed"
  <2>1. "failed" # "up"
    OBVIOUS
  <2>2. told = <<>> /\ mode' # "up"
    BY <1>2, <1>4, <2>1 DEF OrderInv
  <2> QED BY <1>3, <2>2, StaysQuiet
<1>5. CASE mode = "up"
  <2>1. OneWay(told) /\ told = Ids(tab.list) /\ Ordered(tab, stack, pending, done, told)
    BY <1>1, <1>3, <1>5 DEF OrderInv
  <2>2. Ordered(tab', stack', pending', done', told)
    BY <1>1, <1>2, <2>1 DEF Ordered
  <2> QED BY <1>2, <1>3, <1>5, <2>1, <2>2, GoesOn
<1> QED BY <1>1, <1>4, <1>5

\* The store handles a request.
LEMMA HandlingOrder ==
    ASSUME StoreInv, OrderInv, Handling
    PROVE  /\ Ordered(tab, <<>>, pending, done, told) /\ OneWay(told)
           /\ ~done => told = Ids(tab.list)
<1>1. mode = "up" /\ stack = <<>> /\ pending # NoReq
  BY DEF Handling
<1>2. ~Initing
  BY <1>1 DEF Initing
<1>3. Ordered(tab, <<>>, pending, done, told) /\ OneWay(told)
  BY <1>1, <1>2 DEF OrderInv
<1> QED BY <1>1, <1>3 DEF Ordered, Untouched

\* Clear removes a record from the list that the OS was told.
LEMMA ClearOrder ==
    ASSUME StoreInv, OrderInv, StoreInv', OrderNext, Clear
    PROVE  OrderInv' /\ KeepsOrder
<1>1. /\ Handling /\ ~done /\ Found # NoOff /\ tab' = Cleared(tab, Found)
      /\ done' = TRUE /\ UNCHANGED <<mode, stack, pending, reply>>
  BY DEF Clear
<1>2. /\ mode = "up" /\ stack = <<>> /\ Running(flash, tab, <<>>, pending) /\ tab \in TabType
      /\ pending # NoReq
  BY <1>1, HandlingState
<1>3. /\ Distinct(tab.list) /\ tab.inc = NoOff /\ tab.out = NoOff /\ tab.unsynced = 0
  BY <1>2, IdleIs
<1>4. PICK k \in 1..Len(tab.list) : tab.list[k].off = Found
  <2>1. Found = FoundOffset(tab, pending.id)
    BY DEF Found
  <2> DEFINE i == pending.id
             o == Found
  <2>2. o = FoundOffset(tab, i) /\ o # NoOff
    BY <1>1, <2>1
  <2> HIDE DEF i, o
  <2>3. \/ FoundOffset(tab, i) = NoOff
        \/ FindRecord(tab, i) \in 1..Len(tab.list) /\ FoundOffset(tab, i) = tab.list[FindRecord(tab, i)].off
    BY ONLY <1>3, FoundIs
  <2>4. \E k \in 1..Len(tab.list) : tab.list[k].off = o
    BY <2>2, <2>3
  <2> QED BY <2>4 DEF o
<1>5. tab'.list = RemoveAt(tab.list, k) /\ tab'.unsynced = 0
  <2> DEFINE o == Found
  <2>1. o = tab.list[k].off /\ tab' = Cleared(tab, o) /\ k \in 1..Len(tab.list) /\ tab \in TabType
    BY <1>1, <1>2, <1>4
  <2> HIDE DEF o
  <2>2. o \in Off
    BY <1>3, <2>1, ListIs
  <2>3. \E b \in Block : o \in CellsOf(b)
    BY <2>2, CellsBlock
  <2>4. PICK b \in Block : o \in CellsOf(b)
    BY <2>3
  <2> QED BY ONLY <2>1, <2>4, <1>3, ClearedIs
<1>6. InOrder(tab'.list, told)
  <2>1. told = Ids(tab.list)
    BY <1>1, HandlingOrder
  <2> QED BY <1>3, <1>5, <2>1, RemovedOrder
<1>7. mode' = "up" /\ stack' = <<>> /\ done'
  BY <1>1, <1>2
<1>8. ~(Initing') /\ OneWay(told)
  BY <1>7, NotInit DEF OrderInv
<1>9. Ordered(tab', stack', pending', done', told)
  BY <1>5, <1>6, <1>7, OrderedEnd
<1> QED BY <1>7, <1>8, <1>9, GoesOn

\* StartWrite: the frame of the request.
LEMMA StartWriteOrder ==
    ASSUME StoreInv, OrderInv, StoreInv', OrderNext, StartWrite
    PROVE  OrderInv' /\ KeepsOrder
<1> DEFINE g == Opening(pending)
<1>1. /\ Handling /\ ~done /\ stack' = Push(g)
      /\ UNCHANGED <<tab, mode, pending, done>>
  BY DEF StartWrite, Opening
<1>2. mode = "up" /\ stack = <<>> /\ pending # NoReq
  BY <1>1 DEF Handling
<1>3. g.step = "space" /\ g.cur = NoOff /\ g.f = "put"
  BY DEF Opening, PutFrame
<1>4. stack' = <<g>>
  BY <1>1, <1>2, PushFirst DEF Push
<1> HIDE DEF g
<1>5. stack' # <<>> /\ Last(stack') = g
  BY ONLY <1>4, OneLong
<1>6. told = Ids(tab.list) /\ OneWay(told) /\ InOrder(tab.list, told)
  BY <1>1, HandlingOrder DEF Ordered
<1>7. ~(Initing')
  BY <1>3, <1>5, NotInit DEF PutBelow
<1>8. Ordered(tab', stack', pending', done', told)
  BY <1>1, <1>2, <1>3, <1>5, <1>6 DEF Ordered
<1> QED BY <1>1, <1>2, <1>6, <1>7, <1>8, GoesOn

\* A frame is pushed: the last one stays.
LEMMA LastPushed ==
    ASSUME NEW S, NEW s \in Seq(S), s # <<>>, NEW a
    PROVE  PushOn(a, s) # <<>> /\ Last(PushOn(a, s)) = Last(s)
<1> DEFINE q == PushOn(a, s)
           T == S \cup {a}
<1>1. s \in Seq(T) /\ <<a>> \in Seq(T) /\ Len(<<a>>) = 1 /\ Len(s) \in Nat /\ Len(s) > 0
  OBVIOUS
<1>2. q \in Seq(T) /\ Len(q) = 1 + Len(s)
      /\ \A i \in 1..(1 + Len(s)) : q[i] = IF i <= 1 THEN <<a>>[i] ELSE s[i - 1]
  BY <1>1, ConcatProperties DEF PushOn
<1> HIDE DEF q
<1>3. q[Len(q)] = s[Len(s)] /\ q # <<>>
  BY <1>1, <1>2
<1> QED BY <1>3 DEF Last, q

\* Every frame of a running store above the last one has the request's below it.
LEMMA StackIs ==
    ASSUME NEW s, NEW list, NEW p, Shape(s, list, p), s # <<>>
    PROVE  (\E S : s \in Seq(S)) /\ Last(s) \in PutType
<1>1. ASSUME NEW f \in PutType, s = Stack1(f) PROVE (\E S : s \in Seq(S)) /\ Last(s) \in PutType
  <2>1. s \in Seq({f})
    BY <1>1 DEF Stack1
  <2> QED BY <2>1, <1>1, Stack1Is
<1>2. ASSUME NEW b, NEW w \in PutType, s = Stack2(b, w)
      PROVE  (\E S : s \in Seq(S)) /\ Last(s) \in PutType
  <2>1. s \in Seq({ReclaimFrame(b), w})
    BY <1>2 DEF Stack2
  <2> QED BY <2>1, <1>2, Stack2Is
<1>3. ASSUME NEW b, NEW w \in PutType, NEW f, s = Stack3(f, b, w)
      PROVE  (\E S : s \in Seq(S)) /\ Last(s) \in PutType
  <2>1. s \in Seq({f, ReclaimFrame(b), w})
    BY <1>3 DEF Stack3
  <2> QED BY <2>1, <1>3, Stack3Is
<1> QED BY <1>1, <1>2, <1>3, ShapeIs

\* A step that neither touches the frame of the request nor the ids of the
\* list.
LEMMA BelowOrder ==
    ASSUME StoreInv, OrderInv, StoreInv', OrderNext, mode = "up", ~Initing, stack # <<>>,
           mode' = "up", pending' = pending, done => done', Ids(tab'.list) = Ids(tab.list),
           stack' # <<>>, Last(stack') = Last(stack)
    PROVE  OrderInv' /\ KeepsOrder
<1>1. Ordered(tab, stack, pending, done, told) /\ OneWay(told)
  BY DEF OrderInv
<1>2. Ordered(tab', stack', pending', done', told)
  BY <1>1, OrderedBelow
<1>3. Running(flash, tab, stack, pending)
  BY DEF StoreInv
<1>4. Shape(stack, tab.list, pending)
  BY <1>3 DEF Running
<1>5. Last(stack) \in PutType
  BY <1>4, StackIs
<1>6. ~(Initing')
  <2>1. Last(stack').f = "put"
    BY <1>5 DEF PutType
  <2> QED BY <2>1, NotInit DEF PutBelow
<1> QED BY <1>1, <1>2, <1>6, GoesOn

\* StartReclaim and Relocate push a frame.
LEMMA PushedOrder ==
    ASSUME StoreInv, OrderInv, StoreInv', OrderNext, mode = "up", ~Initing, stack # <<>>,
           NEW g, stack' = PushOn(g, stack), tab'.list = tab.list,
           UNCHANGED <<mode, pending, done>>
    PROVE  OrderInv' /\ KeepsOrder
<1>1. Running(flash, tab, stack, pending)
  BY DEF StoreInv
<1>2. Shape(stack, tab.list, pending)
  BY <1>1 DEF Running
<1>3. PICK S : stack \in Seq(S)
  BY <1>2, StackIs
<1>4. stack' # <<>> /\ Last(stack') = Last(stack)
  BY <1>3, LastPushed
<1> QED BY <1>4, BelowOrder

\* StartReclaim: the list stays.
LEMMA StartReclaimOrder ==
    ASSUME StoreInv, OrderInv, StoreInv', OrderNext, StartReclaim
    PROVE  OrderInv' /\ KeepsOrder
<1> DEFINE b == FindFreeSpace(tab, stack[1].len, FALSE).at
           g == ReclaimFrame(b)
<1>1. /\ Doing("put") /\ tab' = Reclaiming(tab, b) /\ stack' = PushOn(g, stack)
      /\ UNCHANGED <<mode, pending, done>>
  BY Zenon DEF StartReclaim, Top, Push, PushOn
<1> HIDE DEF b, g
<1>2. /\ mode = "up" /\ ~Initing /\ tab \in TabType /\ stack # <<>>
  BY <1>1, PutState
<1>3. tab'.list = tab.list
  BY <1>1, <1>2 DEF Reclaiming, TabType
<1> QED BY <1>1, <1>2, <1>3, PushedOrder

\* Relocate: the list stays.
LEMMA RelocateOrder ==
    ASSUME StoreInv, OrderInv, StoreInv', OrderNext, Relocate
    PROVE  OrderInv' /\ KeepsOrder
<1> DEFINE k == FirstIn(tab, stack[1].b)
           e == tab.list[k]
           g == Moving(e, ValAt(shadow, e.off, e.len))
<1>1. /\ Doing("reclaim") /\ done' = done
      /\ IF k = 0 THEN Unwind(tab) ELSE stack' = PushOn(g, stack) /\ UNCHANGED <<tab, mode, pending, reply>>
  BY Zenon DEF Relocate, Top, Push, PushOn, Moving, FirstIn
<1>2. mode = "up" /\ ~Initing /\ stack # <<>>
  BY <1>1, ReclaimState
<1>3. pending # NoReq
  BY <1>2 DEF OrderInv, Ordered
<1>4. k # 0
  <2>1. pending' = pending
    BY RelocateKeeps
  <2>2. ~Unwind(tab)
    BY <1>3, <2>1 DEF Unwind
  <2> QED BY <1>1, <2>2
<1>5. stack' = PushOn(g, stack) /\ UNCHANGED <<tab, mode, pending>>
  BY <1>1, <1>4
<1> HIDE DEF k, g
<1> QED BY <1>1, <1>2, <1>5, PushedOrder

\* EraseReclaimed: the list stays, and the request goes on.
LEMMA EraseReclaimedOrder ==
    ASSUME StoreInv, OrderInv, StoreInv', OrderNext, EraseReclaimed
    PROVE  OrderInv' /\ KeepsOrder
<1>1. /\ Doing("reclaim") /\ tab' = [tab EXCEPT !.blk[stack[1].b] = EmptyBlock]
      /\ stack' = Tail(stack) /\ UNCHANGED <<mode, pending, done>>
  BY DEF EraseReclaimed, Top, Pop
<1>2. /\ mode = "up" /\ ~Initing /\ tab \in TabType /\ stack # <<>>
      /\ Running(flash, tab, stack, pending) /\ stack[1].f = "reclaim"
  BY <1>1, ReclaimState
<1>3. tab'.list = tab.list
  BY <1>1, <1>2 DEF TabType
<1>4. Shape(stack, tab.list, pending)
  BY <1>2 DEF Running
<1>5. PICK b \in Block, w \in PutType : stack = Stack2(b, w) /\ Tail(stack) = Stack1(w)
  BY ONLY <1>2, <1>4, ReclaimTop
<1>6. Last(stack) = w
  BY ONLY <1>5, Stack2Is
<1>7. Stack1(w) # <<>> /\ Last(Stack1(w)) = w
  BY ONLY Stack1Is
<1>8. stack' # <<>> /\ Last(stack') = Last(stack)
  BY <1>1, <1>5, <1>6, <1>7
<1> QED BY <1>1, <1>2, <1>3, <1>8, BelowOrder

\* NoSpace: the list is still that which the OS was told.
LEMMA NoSpaceOrder ==
    ASSUME StoreInv, OrderInv, StoreInv', OrderNext, NoSpace
    PROVE  OrderInv' /\ KeepsOrder
<1>1. Doing("put") /\ stack[1].step = "space" /\ Unwind(tab)
  BY DEF NoSpace, Top
<1>2. /\ mode = "up" /\ ~Initing /\ Running(flash, tab, stack, pending)
      /\ tab \in TabType /\ stack # <<>>
  BY <1>1, PutState
<1>3. stack' = <<>> /\ mode' = "up" /\ tab' = tab /\ pending' = NoReq
  BY <1>1, <1>2 DEF Unwind
<1>4. ~Busy(stack)
  BY <1>1 DEF Busy
<1>5. tab.unsynced = 0
  BY <1>2, <1>4, ReadyIs DEF Ready
<1>6. InOrder(tab.list, told) /\ OneWay(told)
  BY <1>2 DEF OrderInv, Ordered
<1>7. ~(Initing')
  BY <1>3, NotInit
<1>8. Ordered(tab', stack', pending', done', told)
  BY <1>3, <1>5, <1>6, OrderedEnd
<1> QED BY <1>3, <1>6, <1>7, <1>8, GoesOn

\* TakeSpace: the entry of a new record is the last one.
LEMMA TakeSpaceOrder ==
    ASSUME StoreInv, OrderInv, StoreInv', OrderNext, TakeSpace
    PROVE  OrderInv' /\ KeepsOrder
<1> DEFINE f     == stack[1]
           space == FindFreeSpace(tab, f.len, FALSE)
           cur   == IF f.who = "write" THEN FoundOffset(tab, f.id) ELSE f.cur
           at    == space.at
           g     == Placing(f, cur, at)
<1>1. /\ Doing("put") /\ f.step = "space" /\ Taking(tab, stack, space, cur, tab', stack')
      /\ stack' = PushOn(g, Tail(stack)) /\ UNCHANGED <<mode, pending, done>>
  BY Zenon DEF TakeSpace, Top, Replaced, PushOn, Placing, Taking
<1>2. /\ mode = "up" /\ ~Initing /\ Running(flash, tab, stack, pending)
      /\ tab \in TabType /\ stack # <<>> /\ f.f = "put"
  BY <1>1, PutState
<1>3. Listing(tab, tab', f, cur, at) /\ at \in Off
  <2>1. AtStep(stack, "space") /\ stack[1].f = "put"
    BY <1>1, <1>2 DEF AtStep
  <2> HIDE DEF f, space, cur, at
  <2>2. PICK b \in Block : /\ Taken(flash, tab, stack, space.at, stack[1].len, b)
                          /\ Listing(tab, tab', stack[1], cur, space.at)
    BY <1>1, <1>2, <2>1, TakingIs
  <2> QED BY <2>2 DEF Taken, f, at
<1>4. Shape(stack, tab.list, pending) /\ Distinct(tab.list)
  BY <1>2 DEF Running
<1>5. f \in PutType
  BY <1>2, <1>4, TopIs
<1>6. cur \in Off \cup {NoOff}
  BY <1>3 DEF Listing
<1>7. g.step = "INCOMING" /\ g.f = "put"
  <2>1. g = Placing(f, cur, at)
    OBVIOUS
  <2> HIDE DEF f, cur, at, g
  <2> QED BY <2>1, <1>3, <1>5, <1>6, PlacingIs
<1>8. Distinct(tab'.list)
  <2>1. Running(flash', tab', stack', pending') \/ Initing'
    BY <1>1, <1>2 DEF StoreInv
  <2>2. PutBelow(stack')
    <3>1. AtStep(stack, "space") /\ stack[1].f = "put"
      BY <1>1, <1>2 DEF AtStep
    <3> HIDE DEF f, space, cur, at
    <3> QED BY <1>1, <1>2, <3>1, TakeSpaceIs
  <2> QED BY <2>1, <2>2, NotInit DEF Running
<1>9. OneWay(told) /\ Ordered(tab, stack, pending, done, told)
  BY <1>2 DEF OrderInv
<1> HIDE DEF space, cur, at, g
<1>10. CASE f.who = "write"
  <2>1. stack = Stack1(f) /\ Tail(stack) = <<>>
    <3>1. f.who # "move"
      BY <1>10
    <3> QED BY <1>2, <1>4, <3>1, TopIs
  <2>2. Last(stack) = f
    BY <2>1, Stack1Is
  <2>3. told = Ids(tab.list) /\ pending # NoReq
    BY <1>1, <1>2, <1>9, <2>2 DEF Ordered, Untouched
  <2>4. stack' # <<>> /\ Last(stack') = g
    <3>1. stack' = Stack1(g)
      BY <1>1, <2>1, PushFirst DEF PushOn, Stack1
    <3> QED BY <3>1, Stack1Is
  <2>5. InOrder(tab'.list, told)
    <3>1. CASE tab'.list = tab.list
      BY <3>1, <1>4, <2>3, SameOrder
    <3>2. CASE tab'.list = Append(tab.list, Entry(f.id, f.len, at))
      BY <3>2, <1>4, <1>8, <2>3, AppendedOrder
    <3> QED BY <1>3, <3>1, <3>2 DEF Listing
  <2>6. Last(stack').step = "INCOMING" /\ ~(Initing')
    BY <1>7, <2>4, NotInit DEF PutBelow
  <2>7. Ordered(tab', stack', pending', done', told)
    BY <1>1, <2>3, <2>4, <2>5, <2>6, OrderedWrite
  <2> QED BY <1>1, <1>2, <1>9, <2>6, <2>7, GoesOn
<1>11. CASE f.who # "write"
  <2>1. PICK b \in Block, w \in PutType : stack = Stack3(f, b, w) /\ Tail(stack) = Stack2(b, w)
    BY <1>2, <1>4, <1>11, TopIs
  <2>2. stack' = Stack3(g, b, w) /\ Last(stack) = w
    <3>1. PushOn(g, Stack2(b, w)) = Stack3(g, b, w)
      BY Stack3Is
    <3>2. stack' = PushOn(g, Stack2(b, w))
      BY <1>1, <2>1
    <3>3. Last(stack) = w
      BY <2>1, Stack3Is
    <3> QED BY <3>1, <3>2, <3>3
  <2>3. stack' # <<>> /\ Last(stack') = Last(stack)
    BY <2>2, Stack3Is
  <2>4. tab'.list = tab.list
    BY <1>3, <1>11 DEF Listing
  <2> QED BY <1>1, <1>2, <2>3, <2>4, BelowOrder
<1> QED BY <1>10, <1>11

\* The write sequence neither adds nor removes an entry, and gives none
\* another id.
LEMMA WriteIds ==
    ASSUME StoreInv, WriteStep
    PROVE  Ids(tab'.list) = Ids(tab.list)
<1> DEFINE f == stack[1]
<1>1. Writing /\ Top = f
  BY DEF WriteStep, Top
<1>2. /\ Running(flash, tab, stack, pending) /\ tab \in TabType /\ Busy(stack) /\ f.who # "merge"
  BY <1>1, WritingState
<1>3. PutIs(f, tab.list) /\ Distinct(tab.list)
  BY <1>2, BusyIs
<1>4. f.new \in Off /\ f.cur \in Off \cup {NoOff} /\ f.step \in Steps /\ f.step # "space"
  BY <1>3 DEF PutIs, PutType
<1>5. f.step \in {"OUTGOING", "DELETED"} => f.cur \in Off /\ f.cur # NoOff
  BY <1>3, <1>4 DEF PutIs
<1>6. tab' = CASE f.step = "INCOMING" -> Unsync(AfterWrite, 1)
               [] f.step = "VALID" /\ f.cur = NoOff -> Finished(AfterWrite)
               [] f.step = "DELETED" -> Finished(Superseded(AfterWrite))
               [] OTHER -> AfterWrite
  BY <1>1 DEF WriteStep
<1>7. CASE f.step = "data"
  <2>1. WriteOp.kind = "data"
    BY <1>1, <1>7, OpIs, DataOpIs
  <2>2. tab' = tab
    BY <1>6, <1>7, <2>1 DEF AfterWrite
  <2> QED BY <2>2
<1>8. ASSUME NEW o \in Off, NEW st, WriteOp = StatusOp(o, st)
      PROVE  AfterWrite \in TabType /\ AfterWrite.list = tab.list
  <2>1. AfterWrite = Tracked(tab, o, st)
    BY <1>1, <1>8, StatusWrite
  <2> QED BY <1>2, <2>1, TrackedIs
<1> HIDE DEF f
<1>9. CASE f.step = "INCOMING"
  <2>1. AfterWrite \in TabType /\ AfterWrite.list = tab.list
    BY <1>1, <1>4, <1>8, <1>9, OpIs
  <2>2. tab' = Unsync(AfterWrite, 1)
    BY <1>6, <1>9
  <2>3. tab'.list = tab.list
    BY <2>1, <2>2, UnsyncIs DEF Same
  <2> QED BY <2>3
<1>10. CASE f.step = "OUTGOING"
  <2>1. AfterWrite.list = tab.list
    BY <1>1, <1>5, <1>8, <1>10, OpIs
  <2>2. tab' = AfterWrite
    BY <1>6, <1>10
  <2> QED BY <2>1, <2>2
<1>11. CASE f.step = "VALID"
  <2>1. AfterWrite \in TabType /\ AfterWrite.list = tab.list
    BY <1>1, <1>4, <1>8, <1>11, OpIs
  <2>2. tab' = AfterWrite \/ tab' = Ended(AfterWrite, f.new)
    <3>1. Finished(AfterWrite) = Ended(AfterWrite, f.new)
      BY <1>1, <1>2, FinishedIs
    <3> QED BY <1>6, <1>11, <3>1
  <2>3. tab'.list = tab.list
    BY <1>4, <2>1, <2>2, EndedIs
  <2> QED BY <2>3
<1>12. CASE f.step = "DELETED"
  <2> DEFINE e == NewEntry(f)
             t1 == AfterWrite
             t2 == TakenOver(t1, f.cur, e)
  <2>1. t1 \in TabType /\ t1.list = tab.list
    BY <1>1, <1>5, <1>8, <1>12, OpIs
  <2>2. tab' = Ended(t2, f.new)
    <3>1. tab' = Finished(Superseded(AfterWrite))
      BY <1>6, <1>12
    <3>2. Superseded(t1) = TakenOver(t1, f.cur, e)
      BY <1>1, <1>2 DEF Superseded, TakenOver, NewEntry
    <3> QED BY <1>1, <1>2, <3>1, <3>2, FinishedIs
  <2>3. ~Begins(stack) /\ stack[1] = f
    BY <1>12 DEF Begins, f
  <2>4. stack[1].cur # NoOff
    BY <1>5, <1>12, <2>3
  <2>5. PICK k \in 1..Len(tab.list) : Replacing(flash, tab, stack, k)
    BY <1>2, <2>3, <2>4, ReplacingIs
  <2>6. /\ f.cur = tab.list[k].off /\ f.id = tab.list[k].id
        /\ BlockOf(f.cur) \in Block /\ f.cur \in CellsOf(BlockOf(f.cur))
    BY <2>3, <2>5 DEF Replacing
  <2>7. /\ e \in EntryType /\ e.off = f.new /\ e.id = f.id
        /\ \A m \in 1..Len(tab.list) : tab.list[m].off # f.new
    BY <1>3, <1>5, <1>12 DEF PutIs
  <2>8. t2 = TakenOver(t1, f.cur, e)
    OBVIOUS
  <2> HIDE DEF e, t1, t2
  <2>9. t2 \in TabType /\ t2.list = [t1.list EXCEPT ![k] = e]
    <3>1. /\ Distinct(t1.list) /\ k \in 1..Len(t1.list) /\ f.cur = t1.list[k].off /\ e.id = t1.list[k].id
          /\ \A m \in 1..Len(t1.list) : t1.list[m].off # e.off
      BY <1>3, <2>1, <2>5, <2>6, <2>7
    <3> QED BY <2>1, <2>6, <2>7, <2>8, <3>1, ReplacedIs
  <2>10. tab'.list = [tab.list EXCEPT ![k] = e]
    <3>1. tab'.list = t2.list
      BY <1>4, <2>2, <2>9, EndedIs
    <3> QED BY <2>1, <2>9, <3>1
  <2>11. e.id = tab.list[k].id
    BY <2>6, <2>7
  <2> QED BY <1>3, <2>5, <2>7, <2>10, <2>11, SameIds
<1> QED BY <1>4, <1>7, <1>9, <1>10, <1>11, <1>12, StepsAre

\* WriteStep: the list keeps the ids that it has.
LEMMA WriteStepOrder ==
    ASSUME StoreInv, OrderInv, StoreInv', OrderNext, WriteStep
    PROVE  OrderInv' /\ KeepsOrder
<1> DEFINE f == stack[1]
           st == NextStep
           g == Faced(f, st)
<1>1. /\ Writing /\ Top = f /\ done' = (done \/ Commits) /\ UNCHANGED <<mode, pending>>
      /\ stack' = IF st = "none" THEN Tail(stack) ELSE PushOn(g, Tail(stack))
  BY DEF WriteStep, Top, Pop, Replaced, PushOn, Faced
<1>2. /\ Running(flash, tab, stack, pending) /\ tab \in TabType /\ Busy(stack) /\ stack # <<>>
      /\ mode = "up" /\ ~Initing /\ f.f = "put" /\ f.step # "space" /\ f \in PutType
  <2>1. Doing("put")
    BY <1>1 DEF Writing
  <2> QED BY <1>1, <2>1, WritingState, PutState
<1>3. Shape(stack, tab.list, pending) /\ PutIs(f, tab.list)
  BY <1>2, BusyIs
<1>4. Ids(tab'.list) = Ids(tab.list)
  BY WriteIds
<1>5. OneWay(told) /\ Ordered(tab, stack, pending, done, told)
  BY <1>2 DEF OrderInv
<1>6. f.step \in Steps /\ (f.step \in {"OUTGOING", "DELETED"} => f.cur # NoOff)
  BY <1>3 DEF PutIs, PutType
<1>7. /\ f.step = "INCOMING" => st = "data"
      /\ f.step = "data" => st = IF f.cur # NoOff THEN "OUTGOING" ELSE "VALID"
      /\ f.step = "OUTGOING" => st = "VALID"
      /\ f.step = "VALID" => st = IF f.cur # NoOff THEN "DELETED" ELSE "none"
      /\ f.step = "DELETED" => st = "none"
  BY <1>1, OpIs
<1>8. st # "none" => g.cur = f.cur /\ g.step = st /\ g.f = "put" /\ st # "space"
  <2>1. st # "none" => st \in Steps /\ st # "space"
    BY <1>2, <1>6, <1>7, StepsAre
  <2>2. g = Faced(f, st)
    OBVIOUS
  <2> HIDE DEF f, st, g
  <2> QED BY <1>2, <2>1, <2>2, FaceIs
<1>9. Commits <=> f.who = "write" /\ f.step = (IF f.cur # NoOff THEN "OUTGOING" ELSE "VALID")
  BY <1>1 DEF Commits
<1> HIDE DEF f, st, g
<1>10. CASE f.who = "write"
  <2>1. stack = Stack1(f) /\ Tail(stack) = <<>>
    <3>1. f.who # "move"
      BY <1>10
    <3> QED BY <1>2, <1>3, <3>1, TopIs DEF f
  <2>2. Last(stack) = f
    BY <2>1, Stack1Is
  <2>3. pending # NoReq /\ InOrder(tab.list, told)
        /\ (f.cur # NoOff /\ f.step \in {"VALID", "DELETED"} => done)
    BY <1>2, <1>5, <2>2 DEF Ordered
  <2>4. InOrder(tab'.list, told)
    BY <1>4, <2>3 DEF InOrder
  <2>5. CASE st = "none"
    <3>1. stack' = <<>>
      BY <1>1, <2>1, <2>5
    <3>2. done'
      <4>1. (f.step = "VALID" /\ f.cur = NoOff) \/ f.step = "DELETED"
        BY <1>2, <1>6, <1>7, <2>5, StepsAre
      <4> QED BY <1>1, <1>6, <1>9, <1>10, <2>3, <4>1
    <3>3. ~(Initing')
      BY <3>1, NotInit
    <3>4. tab'.unsynced = 0
      <4>1. Running(flash', tab', <<>>, pending') /\ tab' \in TabType
        BY <1>1, <1>2, <3>1, <3>3 DEF StoreInv
      <4>2. pending' # NoReq
        BY <1>1, <2>3
      <4> QED BY <4>1, <4>2, IdleIs
    <3>5. Ordered(tab', stack', pending', done', told)
      BY <2>4, <3>1, <3>2, <3>4, OrderedEnd
    <3> QED BY <1>1, <1>2, <1>5, <3>3, <3>5, GoesOn
  <2>6. CASE st # "none"
    <3>1. stack' # <<>> /\ Last(stack') = g
      <4>1. stack' = Stack1(g)
        BY <1>1, <2>1, <2>6, PushFirst DEF PushOn, Stack1
      <4> QED BY <4>1, Stack1Is
    <3>2. Last(stack').step = st /\ Last(stack').cur = f.cur /\ ~(Initing') /\ st # "space"
      BY <1>8, <2>6, <3>1, NotInit DEF PutBelow
    <3>3. f.cur # NoOff /\ st \in {"VALID", "DELETED"} => done'
      <4>1. f.cur # NoOff /\ st \in {"VALID", "DELETED"} => f.step = "OUTGOING" \/ f.step = "VALID"
        BY <1>2, <1>6, <1>7, StepsAre
      <4> QED BY <1>1, <1>9, <1>10, <2>3, <4>1
    <3>4. pending' # NoReq
      BY <1>1, <2>3
    <3>5. Ordered(tab', stack', pending', done', told)
      BY <2>4, <3>1, <3>2, <3>3, <3>4, OrderedWrite
    <3> QED BY <1>1, <1>2, <1>5, <3>2, <3>5, GoesOn
  <2> QED BY <2>5, <2>6
<1>11. CASE f.who # "write"
  <2>1. PICK b \in Block, w \in PutType : stack = Stack3(f, b, w) /\ Tail(stack) = Stack2(b, w)
    BY <1>2, <1>3, <1>11, TopIs DEF f
  <2>2. Last(stack) = w
    BY <2>1, Stack3Is
  <2>3. stack' = Stack2(b, w) \/ stack' = Stack3(g, b, w)
    <3>1. PushOn(g, Stack2(b, w)) = Stack3(g, b, w)
      BY Stack3Is
    <3> QED BY <1>1, <2>1, <3>1
  <2>4. stack' # <<>> /\ Last(stack') = Last(stack)
    BY <2>2, <2>3, Stack2Is, Stack3Is
  <2>5. done => done'
    BY <1>1
  <2> QED BY <1>1, <1>2, <1>4, <2>4, <2>5, BelowOrder
<1> QED BY <1>10, <1>11

\* An initialization only happens before the first request.
LEMMA ScanOrderKept ==
    ASSUME StoreInv, OrderInv, OrderNext, ScanBlock \/ NoIncoming
    PROVE  OrderInv' /\ KeepsOrder
<1>1. (\E ph : InPhase(ph)) /\ pending' = pending
      /\ \E ph, b : stack' = NextPhase(ph, b, "none")
  <2>1. CASE ScanBlock
    BY <2>1, Zenon DEF ScanBlock, AfterScan
  <2>2. CASE NoIncoming
    <3>1. InPhase("incoming") /\ pending' = pending
      BY <2>2, Zenon DEF NoIncoming
    <3>2. tab.out = NoOff
      BY <3>1, InitState
    <3>3. stack' = NextPhase("reclaim", 0, "none")
      BY <2>2, <3>2 DEF NoIncoming
    <3> QED BY <3>1, <3>3
  <2> QED BY <2>1, <2>2
<1>2. Initing /\ Tail(stack) = <<>>
  BY <1>1, InitState
<1>3. told = <<>> /\ pending' = NoReq
  BY <1>1, <1>2 DEF OrderInv
<1>4. PICK ph, b : stack' = <<InitFrame(ph, b, "none")>>
  BY <1>1, <1>2, NextPhaseIs
<1>5. Initing'
  <2> DEFINE f == InitFrame(ph, b, "none")
  <2>1. f.f = "init"
    BY ONLY InitFrameIs
  <2>2. stack' = <<f>>
    BY <1>4
  <2> HIDE DEF f
  <2>3. stack' # <<>> /\ Last(stack') = f
    BY ONLY <2>2, OneLong
  <2> QED BY <2>1, <2>3 DEF Initing
<1> QED BY <1>3, <1>5, StaysQuiet

\* InitDone: the first list.
LEMMA InitDoneOrder ==
    ASSUME StoreInv, OrderInv, StoreInv', OrderNext, InitDone
    PROVE  OrderInv' /\ KeepsOrder
<1>1. InPhase("reclaim")
  BY DEF InitDone
<1>2. mode = "up" /\ Initing /\ tab \in TabType
  BY <1>1, InitState
<1>3. told = <<>> /\ pending = NoReq /\ OneWay(told)
  BY <1>2 DEF OrderInv
<1>4. CASE FreeBlocks > 0
  <2>1. tab'.unsynced = 0 /\ stack' = <<>> /\ UNCHANGED <<mode, pending>>
    BY <1>2, <1>4 DEF InitDone, TabType
  <2>2. InOrder(tab'.list, told)
    BY <1>3, NothingBefore DEF InOrder
  <2>3. pending' = NoReq
    BY <1>3, <2>1
  <2>4. Ordered(tab', stack', pending', done', told)
    BY <2>1, <2>2, <2>3, OrderedEnd
  <2>5. ~(Initing')
    BY <2>1, NotInit
  <2> QED BY <1>2, <1>3, <2>1, <2>4, <2>5, GoesOn
<1>5. CASE ~(FreeBlocks > 0)
  <2>1. stack' = <<>> /\ mode' = "failed"
    BY <1>2, <1>5 DEF InitDone, Unwind
  <2>2. "failed" # "up" /\ ~(Initing')
    BY <2>1, NotInit
  <2> QED BY <1>3, <2>1, <2>2, StaysQuiet
<1> QED BY <1>4, <1>5

\* No dummy write is handled where the OS requests none.
LEMMA NoDummyHandled ==
    ASSUME StoreInv, "dummy" \notin Ops
    PROVE  ~AnswerDummy
<1>1. SUFFICES ASSUME AnswerDummy PROVE FALSE
  OBVIOUS
<1>2. pending \in Request /\ pending.op = "dummy"
  BY <1>1 DEF AnswerDummy, Handling, StoreInv
<1>3. CASE pending \in [op : Ops \cap {"write", "dummy"}, id : Id, val : Val, len : RecLen]
  BY <1>2, <1>3
<1>4. CASE pending \in [op : Ops \cap {"read", "clear"}, id : Id, val : {NoVal}, len : {0}]
  <2>1. "dummy" \notin {"read", "clear"}
    OBVIOUS
  <2> QED BY <1>2, <1>4, <2>1
<1> QED BY <1>2, <1>3, <1>4 DEF Request

\* Every other step that meets no error keeps the order.
LEMMA UndisturbedOrder ==
    ASSUME StoreInv, OrderInv, OrderNext, Undisturbed, "dummy" \notin Ops
    PROVE  OrderInv' /\ KeepsOrder
<1>1. StoreInv'
  BY UndisturbedKeeps
<1>2. ~AnswerDummy
  BY NoDummyHandled
<1> QED BY <1>1, <1>2, NeverRecovers, PowerOnOrder, ReceiveOrder, AnswerOrder, ClearOrder, StartWriteOrder,
           TakeSpaceOrder, StartReclaimOrder, NoSpaceOrder, RelocateOrder, EraseReclaimedOrder,
           WriteStepOrder, ScanOrderKept, InitDoneOrder
        DEF Undisturbed

\* What the OS is told at first.
LEMMA OrderStarts == OrderInit => OrderInv
<1>1. SUFFICES ASSUME OrderInit PROVE OrderInv
  OBVIOUS
<1>2. told = <<>> /\ mode = "off" /\ stack = <<>> /\ pending = NoReq
  BY <1>1 DEF OrderInit, Init
<1>3. "off" # "up" /\ ~Initing
  BY <1>2 DEF Initing
<1> QED BY <1>2, <1>3, NothingBefore DEF OrderInv, OneWay

\* ... and by each step, until a power loss or a flash error.
LEMMA OrderStep ==
    ASSUME "dummy" \notin Ops, Bounds, SpaceInv, Untroubled => OrderInv, [OrderNext]_<<vars, told>>
    PROVE  Untroubled' => OrderInv' /\ KeepsOrder
<1>1. SUFFICES ASSUME Untroubled' PROVE OrderInv' /\ KeepsOrder
  OBVIOUS
<1>2. CASE OrderNext
  <2>1. Undisturbed
    BY <1>1, <1>2, NextIs, FaultyTroubles, CrashTroubles DEF OrderNext
  <2>2. Untroubled
    BY <1>1, <2>1, UndisturbedCounts DEF Untroubled
  <2> QED BY <1>2, <2>1, <2>2, UndisturbedOrder DEF SpaceInv
<1>3. CASE UNCHANGED <<vars, told>>
  <2>1. UNCHANGED <<mode, stack, pending, done, tab, crashes, faults, told>>
    BY <1>3 DEF vars
  <2>2. OrderInv
    BY <1>1, <2>1 DEF Untroubled
  <2>3. OrderInv' /\ (Initing' <=> Initing)
    BY <2>1, <2>2 DEF OrderInv, Initing
  <2>4. KeepsOrder
    BY <2>1, <2>2 DEF OrderInv, OneWay, KeepsOrder
  <2> QED BY <2>3, <2>4
<1> QED BY <1>2, <1>3

\* The invariant, as long as no power loss and no flash error has happened.
LEMMA OrderInvariant ==
    ASSUME "dummy" \notin Ops
    PROVE  OrderSpec => [](Bounds /\ SpaceInv /\ (Untroubled => OrderInv))
<1>1. OrderInit => Bounds /\ SpaceInv /\ (Untroubled => OrderInv)
  BY SpaceInit, OrderStarts DEF OrderInit
<1>2. Bounds /\ SpaceInv /\ (Untroubled => OrderInv) /\ [OrderNext]_<<vars, told>>
        => Bounds' /\ SpaceInv' /\ (Untroubled' => OrderInv')
  <2>1. SUFFICES ASSUME Bounds, SpaceInv, Untroubled => OrderInv, [OrderNext]_<<vars, told>>
                 PROVE  Bounds' /\ SpaceInv' /\ (Untroubled' => OrderInv')
    OBVIOUS
  <2>2. [Next]_vars
    BY <2>1 DEF OrderNext
  <2> QED BY <2>1, <2>2, SpaceStep, OrderStep
<1> QED BY <1>1, <1>2, PTL DEF OrderSpec

\* Records are never reordered relative to each other, whatever is written,
\* replaced, deleted, reclaimed and moved (ErstDeallocateRecord,
\* ErstWriteRecord): where no power loss and no flash error happens, and the OS
\* makes no dummy writes.
THEOREM RecordOrderKept ==
    ASSUME MaxCrashes = 0, MaxFaults = 0, "dummy" \notin Ops
    PROVE  OrderSpec => OrderKept
<1>1. Bounds /\ SpaceInv /\ (Untroubled => OrderInv) /\ Bounds' /\ [OrderNext]_<<vars, told>>
        => [KeepsOrder]_<<vars, told>>
  <2>1. ASSUME Bounds, SpaceInv, Untroubled => OrderInv, Bounds', [OrderNext]_<<vars, told>>
        PROVE  KeepsOrder
    <3>1. Untroubled'
      BY <2>1 DEF Bounds, Untroubled
    <3> QED BY <2>1, <3>1, OrderStep
  <2> QED BY <2>1
<1> QED BY <1>1, OrderInvariant, PTL DEF OrderSpec, OrderKept, KeepsOrder
==============================================================================
