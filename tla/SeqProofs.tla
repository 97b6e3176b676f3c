----------------------------- MODULE SeqProofs ------------------------------
(***************************************************************************)
(* Proofs about the sequential record storage, for partitions of any size, *)
(* any number of sockets and of requests, and any number of failed flash   *)
(* calls and losses of power.                                              *)
(*                                                                         *)
(* The driver keeps nothing in memory, so all it knows is which blocks are *)
(* flagged.  Placed says, step by step, which blocks may be flagged while  *)
(* a write goes on, and which of them holds the newest record; Good what   *)
(* is left of this when the write ends, wherever it ends.  The lemmas      *)
(* before "Types" are about one partition, those behind it about the       *)
(* steps of the system.                                                    *)
(***************************************************************************)
EXTENDS SeqProperties, WellFoundedInduction, TLAPS

(***************************************************************************)
(* Numbers.                                                                *)
(***************************************************************************)
\* A set of natural numbers has a smallest one.
LEMMA SmallestIn ==
    ASSUME NEW T, T \subseteq Nat, T # {}
    PROVE  \E x \in T : \A y \in T : x <= y
<1> DEFINE Less == {ss \in Nat \X Nat : ss[1] < ss[2]}
<1>1. IsWellFoundedOn(Less, Nat)
  BY NatLessThanWellFounded DEF OpToRel
<1>2. \A a, b \in Nat : a < b => <<a, b>> \in Less
  <2> TAKE a, b \in Nat
  <2> HAVE a < b
  <2>1. <<a, b>> \in Nat \X Nat OBVIOUS
  <2> QED BY <2>1
<1> HIDE DEF Less
<1>3. PICK x \in T : \A y \in T : ~(<<y, x>> \in Less)
  BY <1>1, WFMin, Zenon
<1>4. x \in Nat /\ \A y \in T : y \in Nat /\ ~(y < x)
  BY <1>3, <1>2, Zenon
<1> QED BY <1>4

(***************************************************************************)
(* Offsets.  Used adds up the lengths of the records with a recursive      *)
(* function: such a function exists for every block, and what it gives for *)
(* a block does not depend on the records written behind it.               *)
(***************************************************************************)
\* end[k] is the offset behind record k, for the first n records.
AddsUp(end, recs, n) ==
    \A k \in 0 .. n : end[k] = IF k = 0 THEN 0 ELSE end[k - 1] + recs[k].len

\* The lengths of any number of records of a block can be added up.
LEMMA EndsExist ==
    ASSUME NEW recs \in Seq(RecordType)
    PROVE  \E end \in [0 .. Len(recs) -> Nat] : AddsUp(end, recs, Len(recs))
<1> DEFINE Known(n) == \E f \in [0 .. n -> Nat] : AddsUp(f, recs, n)
           Bad == {n \in 0 .. Len(recs) : ~Known(n)}
<1>0. \A k \in 1 .. Len(recs) : recs[k].len \in Nat
  <2> TAKE k \in 1 .. Len(recs)
  <2>1. recs[k] \in RecordType
    OBVIOUS
  <2> QED BY <2>1, FlashAssumption DEF RecordType
<1>1. ASSUME Bad # {} PROVE FALSE
  <2> HIDE DEF Known
  <2>1. PICK n \in Bad : \A m \in Bad : n <= m
    <3>1. Bad \subseteq Nat
      OBVIOUS
    <3> QED BY <3>1, <1>1, SmallestIn
  <2>2. n \in 0 .. Len(recs) /\ n \in Nat /\ ~Known(n)
    OBVIOUS
  <2>3. ASSUME n # 0 PROVE Known(n - 1)
    <3>1. n - 1 \in 0 .. Len(recs)
      BY <2>2, <2>3
    <3>2. n - 1 \in Bad => n <= n - 1
      BY <2>1
    <3> QED BY <3>1, <3>2, <2>2
  <2> HIDE DEF Bad
  <2>4. CASE n = 0
    <3> DEFINE zero == [k \in 0 .. 0 |-> 0]
    <3>1. zero \in [0 .. 0 -> Nat] /\ \A k \in 0 .. 0 : k = 0 /\ zero[k] = 0
      OBVIOUS
    <3> HIDE DEF zero
    <3>2. AddsUp(zero, recs, 0)
      BY <3>1 DEF AddsUp
    <3>3. Known(0)
      BY <3>1, <3>2 DEF Known
    <3> QED BY <3>3, <2>2, <2>4
  <2>5. CASE n # 0
    <3>1. PICK f \in [0 .. n - 1 -> Nat] : AddsUp(f, recs, n - 1)
      BY <2>3, <2>5 DEF Known
    <3> DEFINE g == [k \in 0 .. n |-> IF k = n THEN f[n - 1] + recs[n].len
                                             ELSE f[k]]
    <3>2. f[n - 1] + recs[n].len \in Nat
      BY <1>0, <2>2, <2>5
    <3>3. \A k \in 0 .. n : k # n => k \in 0 .. n - 1
      BY <2>2, <2>5
    <3>4. g \in [0 .. n -> Nat]
      BY <3>2, <3>3
    <3>5. AddsUp(g, recs, n)
      <4>1. SUFFICES ASSUME NEW k \in 0 .. n
                     PROVE  g[k] = IF k = 0 THEN 0 ELSE g[k - 1] + recs[k].len
        BY DEF AddsUp
      <4>2. k # 0 => k - 1 \in 0 .. n /\ k - 1 # n
        BY <2>2
      <4>3. k # 0 => g[k - 1] = f[k - 1]
        BY <4>2
      <4>4. CASE k = n
        BY <4>3, <4>4, <2>5
      <4>5. CASE k # n
        BY <4>3, <4>5, <3>1, <3>3 DEF AddsUp
      <4> QED BY <4>4, <4>5
    <3> HIDE DEF g
    <3>6. Known(n)
      BY <3>4, <3>5 DEF Known
    <3> QED BY <3>6, <2>2
  <2> QED BY <2>4, <2>5
<1>2. Len(recs) \in 0 .. Len(recs)
  OBVIOUS
<1> QED BY <1>1, <1>2

\* The offsets of the first records of a block are the same when more records
\* have been written behind them.
LEMMA EndsAgree ==
    ASSUME NEW n \in Nat, NEW m \in Nat, n <= m, NEW recs, NEW e,
           NEW f \in [0 .. m -> Nat], AddsUp(e, recs, n), AddsUp(f, recs, m)
    PROVE  \A k \in 0 .. n : e[k] = f[k]
<1> DEFINE Bad == {k \in 0 .. n : e[k] # f[k]}
<1>1. ASSUME Bad # {} PROVE FALSE
  <2>1. PICK k \in Bad : \A j \in Bad : k <= j
    <3>1. Bad \subseteq Nat
      OBVIOUS
    <3> QED BY <3>1, <1>1, SmallestIn
  <2>2. k \in 0 .. n /\ k \in 0 .. m /\ e[k] # f[k]
    OBVIOUS
  <2>3. ASSUME k # 0 PROVE e[k - 1] = f[k - 1]
    <3>1. k - 1 \in 0 .. n
      BY <2>2, <2>3
    <3>2. k - 1 \in Bad => k <= k - 1
      BY <2>1
    <3> QED BY <3>1, <3>2, <2>2
  <2> HIDE DEF Bad
  <2> QED BY <2>2, <2>3 DEF AddsUp
<1> QED BY <1>1

\* Used is the offset behind the last record.
LEMMA UsedIs ==
    ASSUME NEW b, b.recs \in Seq(RecordType)
    PROVE  \E end \in [0 .. Len(b.recs) -> Nat] :
              AddsUp(end, b.recs, Len(b.recs)) /\ Used(b) = end[Len(b.recs)]
<1> DEFINE Ends(end) == end = [k \in 0 .. Len(b.recs) |->
                         IF k = 0 THEN 0 ELSE end[k - 1] + b.recs[k].len]
           end == CHOOSE end : Ends(end)
<1>1. Used(b) = end[Len(b.recs)]
  BY DEF Used
<1>2. PICK f \in [0 .. Len(b.recs) -> Nat] : AddsUp(f, b.recs, Len(b.recs))
  BY EndsExist
<1>3. Ends(f)
  BY <1>2 DEF AddsUp
<1>4. Ends(end)
  BY <1>3
<1> HIDE DEF end
<1>5. AddsUp(end, b.recs, Len(b.recs))
  BY <1>4 DEF AddsUp
<1>6. Len(b.recs) \in Nat /\ Len(b.recs) <= Len(b.recs)
  OBVIOUS
<1>7. \A k \in 0 .. Len(b.recs) : end[k] = f[k]
  BY <1>2, <1>5, <1>6, EndsAgree
<1>8. end \in [0 .. Len(b.recs) -> Nat]
  <2>1. end = [k \in 0 .. Len(b.recs) |-> end[k]]
    BY <1>4
  <2> QED BY <2>1, <1>7
<1> QED BY <1>1, <1>5, <1>8

\* Nothing is used of a block without records.
LEMMA UsedEmpty ==
    ASSUME NEW b, b.recs = << >>
    PROVE  Used(b) = 0
<1>1. b.recs \in Seq(RecordType) /\ Len(b.recs) = 0
  OBVIOUS
<1>2. PICK end \in [0 .. 0 -> Nat] :
         AddsUp(end, b.recs, 0) /\ Used(b) = end[0]
  BY <1>1, UsedIs
<1>3. 0 \in 0 .. 0
  OBVIOUS
<1> QED BY <1>2, <1>3 DEF AddsUp

\* The next record goes to the start of a block only if it has no record.
LEMMA UsedPositive ==
    ASSUME NEW b, b.recs \in Seq(RecordType)
    PROVE  Used(b) \in Nat /\ (b.recs # << >> => Used(b) # 0)
<1>1. PICK end \in [0 .. Len(b.recs) -> Nat] :
         AddsUp(end, b.recs, Len(b.recs)) /\ Used(b) = end[Len(b.recs)]
  BY UsedIs
<1>2. Used(b) \in Nat
  BY <1>1
<1>3. ASSUME b.recs # << >> PROVE Used(b) # 0
  <2>1. Len(b.recs) \in 1 .. Len(b.recs) /\ Len(b.recs) - 1 \in 0 .. Len(b.recs)
    BY <1>3
  <2>2. b.recs[Len(b.recs)] \in RecordType
    BY <2>1
  <2>3. b.recs[Len(b.recs)].len \in Nat /\ b.recs[Len(b.recs)].len >= 1
    BY <2>2, FlashAssumption DEF RecordType
  <2>4. end[Len(b.recs)] = end[Len(b.recs) - 1] + b.recs[Len(b.recs)].len
    BY <1>1, <2>1 DEF AddsUp
  <2>5. end[Len(b.recs) - 1] \in Nat
    BY <1>1, <2>1
  <2> QED BY <1>1, <2>3, <2>4, <2>5
<1> QED BY <1>2, <1>3

\* A record written behind the others takes its own length of the block.
LEMMA UsedAppend ==
    ASSUME NEW b, b.recs \in Seq(RecordType), NEW r \in RecordType,
           NEW c, c.recs = Append(b.recs, r)
    PROVE  Used(c) = Used(b) + r.len
<1>1. PICK n \in Nat, m \in Nat : n = Len(b.recs) /\ m = n + 1
  OBVIOUS
<1>2. /\ c.recs \in Seq(RecordType) /\ Len(c.recs) = m /\ c.recs[m] = r
      /\ \A k \in 1 .. n : c.recs[k] = b.recs[k]
  BY <1>1
<1>3. PICK e : AddsUp(e, b.recs, n) /\ Used(b) = e[n]
  BY <1>1, UsedIs
<1>4. PICK f \in [0 .. m -> Nat] : AddsUp(f, c.recs, m) /\ Used(c) = f[m]
  BY UsedIs, <1>2
<1>5. AddsUp(e, c.recs, n)
  <2>1. \A k \in 0 .. n : k # 0 => k \in 1 .. n
    OBVIOUS
  <2> QED BY <2>1, <1>2, <1>3 DEF AddsUp
<1>6. n <= m /\ n \in 0 .. n /\ m \in 0 .. m /\ m # 0 /\ m - 1 = n
  BY <1>1
<1>7. e[n] = f[n]
  BY <1>4, <1>5, <1>6, EndsAgree
<1>8. f[m] = f[n] + c.recs[m].len
  BY <1>4, <1>6 DEF AddsUp
<1> QED BY <1>2, <1>3, <1>4, <1>7, <1>8

\* A set of acknowledged records has a newest one.
LEMMA LargestIn ==
    ASSUME NEW s \in Nat, NEW T, T \subseteq 1 .. s, T # {}
    PROVE  Max(T) \in T /\ \A y \in T : y <= Max(T)
<1> DEFINE Above == {m \in Nat : \A y \in T : y <= m}
<1>1. s \in Above
  OBVIOUS
<1>2. PICK m \in Above : \A k \in Above : m <= k
  <2>1. Above \subseteq Nat /\ Above # {}
    BY <1>1
  <2> QED BY <2>1, SmallestIn
<1>3. m \in Nat /\ \A y \in T : y <= m
  OBVIOUS
<1>4. ASSUME m \notin T PROVE FALSE
  <2>1. PICK y \in T : TRUE
    OBVIOUS
  <2>2. m - 1 \in Nat /\ \A z \in T : z <= m - 1
    <3>1. m \in Nat /\ m >= 1
      BY <1>3, <2>1
    <3>2. \A z \in T : z \in Nat /\ z # m /\ z <= m
      BY <1>3, <1>4
    <3> QED BY <3>1, <3>2
  <2>3. m - 1 \in Above
    BY <2>2
  <2> QED BY <1>2, <1>3, <2>3
<1>5. \A y \in T : m >= y
  BY <1>3
<1>6. \E x \in T : \A y \in T : x >= y
  BY <1>4, <1>5
<1>7. Max(T) \in T /\ \A y \in T : Max(T) >= y
  BY <1>6 DEF Max
<1> QED BY <1>7

(***************************************************************************)
(* The inductive invariant.  The scans of the driver find the first block  *)
(* that is flagged, and its last record: what makes them right is which    *)
(* blocks are flagged, and what they hold, at every step of a write.       *)
(***************************************************************************)
Job == [at : {"idle", "place", "erase", "program", "retire", "written",
              "wipe", "cmet_erase", "cmet_program"},
        part : {"ras", "early"}, sock : Socket, last : Socket, n : Nat,
        len : 1 .. BlockUnits, from : Block, to : Block,
        first : BOOLEAN, sound : BOOLEAN, erase : BOOLEAN]

Partition == [Block -> BlockType]

Typed ==
    /\ flash \in [Log -> Partition]
    /\ cmet \in [Copy -> [state : {"blank", "torn", "whole"}, n : Nat]]
    /\ job \in Job /\ job.sock <= job.last
    /\ events \in 0 .. MaxEvents
    /\ acked \in [Log -> SUBSET (1 .. served)]
    /\ pair \in 0 .. served
    /\ attempts \in Nat
    /\ served \in Nat
    /\ ~At("idle") => job.n = served /\ served # 0

Switching == job.at \in {"erase", "program", "retire", "written"}

\* The records of a block get newer, and no record of A is between two that
\* are next to each other.
Tidy(b, A) ==
    \A k \in 1 .. Len(b.recs) - 1 :
       /\ b.recs[k].n < b.recs[k + 1].n
       /\ \A n \in A : ~(b.recs[k].n < n /\ n < b.recs[k + 1].n)

\* No record of the block is newer than the request bound.
Dated(b, bound) == \A k \in 1 .. Len(b.recs) : b.recs[k].n <= bound

\* The record of this request has not been written to the log.
Unwritten(l) ==
    /\ At("place") \/ Switching
    /\ l[1] = job.part
    /\ \/ l[2] > job.sock
       \/ l[2] = job.sock /\ job.at \in {"place", "erase", "program"}

\* Its write to the log has not been answered.
Unanswered(l) ==
    /\ At("place") \/ Switching
    /\ l[1] = job.part
    /\ l[2] >= job.sock

OrderedLog(l) ==
    /\ Unanswered(l) => \A n \in acked[l] : n < served
    /\ \A i \in Block :
          /\ Used(flash[l][i]) <= BlockUnits
          /\ Tidy(flash[l][i], acked[l])
          /\ Dated(flash[l][i], IF Unwritten(l) THEN served - 1 ELSE served)

Ordered == \A l \in Log : OrderedLog(l)

\* The last record of the block is at least as new as every record of A.
Holds(b, A) ==
    Flagged(b) /\ b.recs # << >> /\ \A n \in A : n <= Last(b.recs).n

First(p, a) == Flagged(p[a]) /\ \A i \in Block : Flagged(p[i]) => a <= i

\* Only a and i are flagged, a without a record, i with the newest one.
Hidden(p, A, a) ==
    /\ p[a].recs = << >>
    /\ \E i \in Block : /\ i # a
                        /\ Holds(p[i], A)
                        /\ \A j \in Block : Flagged(p[j]) => j = a \/ j = i

\* Between two writes.
Good(p, A) ==
    A # {} => \E a \in Block :
                 First(p, a) /\ (Holds(p[a], A) \/ Hidden(p, A, a))

\* While the write j goes on.
Placed(j, p, A) ==
    /\ j.to = j.from \/ j.to = GetNextWriteBlock(j.from)
    /\ j.to # j.from => j.first
    /\ ~j.sound => A = {}
    /\ j.at = "erase" => j.first /\ j.sound
    /\ j.at \in {"erase", "program"} =>
          /\ \A i \in Block : Flagged(p[i]) => j.from <= i
          /\ A # {} => IF j.to = j.from /\ j.first THEN Hidden(p, A, j.to)
                                                   ELSE Holds(p[j.from], A)
    /\ j.at = "program" /\ j.sound /\ j.first => p[j.to] = BlankBlock
    /\ j.at = "program" /\ ~j.first =>
          /\ Flagged(p[j.to]) /\ p[j.to].recs # << >> /\ p[j.to].end = "blank"
          /\ Used(p[j.to]) + j.len <= BlockUnits
    /\ j.at = "retire" =>
          /\ j.to # j.from
          /\ j.sound =>
                /\ \A i \in Block : Flagged(p[i]) /\ i # j.to => j.from <= i
                /\ p[j.to] = Append1(BlankBlock, [n |-> j.n, len |-> j.len])
                /\ A # {} => Holds(p[j.from], A)
    /\ j.at = "written" /\ j.sound =>
          First(p, j.to) /\ p[j.to].recs # << >> /\ Last(p[j.to].recs).n = j.n

LogsInv ==
    /\ \A l \in Log : (l = JobLog => ~Switching) => Good(flash[l], acked[l])
    /\ Switching => Placed(job, flash[JobLog], acked[JobLog])
    /\ At("place") => job.sound

InCmet == job.at \in {"cmet_erase", "cmet_program"}

Kept(c) == cmet[c].state = "whole" /\ cmet[c].n >= pair

CmetInv ==
    /\ InCmet => job.to \in Copy /\ attempts # 0
    /\ pair # 0 /\ attempts = 0 => \A c \in Copy : Kept(c)
    /\ pair # 0 /\ attempts = 1 =>
          IF InCmet THEN job.erase /\ (job.to = 1 => Kept(2))
                    ELSE \E c \in Copy : Kept(c)
    /\ InCmet /\ ~job.sound => pair = 0
    /\ InCmet /\ job.sound /\ job.to = 2 => cmet[1] = Whole(served)
    /\ At("cmet_program") /\ job.sound => cmet[job.to] = BlankCopy
    /\ InCmet /\ job.sound /\ ~job.erase =>
          \A c \in Copy : c >= job.to => cmet[c] = BlankCopy
    /\ At("cmet_erase") => job.erase

IInv == Typed /\ Ordered /\ LogsInv /\ CmetInv

(***************************************************************************)
(* What the operations on a partition give.                                *)
(***************************************************************************)
\* The block after i is another one: the next, or the first after the last.
NextBlockIs(i, next) ==
    /\ next \in Block /\ next # i
    /\ next # i + 1 => next = 1 /\ \A j \in Block : j <= i

\* Blocks are numbered from 1, and there are at least two.
LEMMA Constants ==
    /\ Block \subseteq Nat /\ 1 \in Block /\ 2 \in Block /\ Copy \subseteq Block
    /\ \A i \in Block : NextBlockIs(i, GetNextWriteBlock(i))
    /\ BlankBlock \in BlockType /\ ~Flagged(BlankBlock)
    /\ Used(BlankBlock) = 0
<1>1. NumBlocks \in Nat /\ NumBlocks >= 2
  BY FlashAssumption
<1>2. BlankBlock \in BlockType /\ ~Flagged(BlankBlock) /\ BlankBlock.recs = << >>
  BY DEF BlankBlock, BlockType, Flagged
<1>3. Used(BlankBlock) = 0
  BY <1>2, UsedEmpty
<1>4. ASSUME NEW i \in Block PROVE NextBlockIs(i, GetNextWriteBlock(i))
  <2>1. CASE i = NumBlocks
    BY <1>1, <2>1 DEF Block, GetNextWriteBlock, NextBlockIs
  <2>2. CASE i # NumBlocks
    BY <1>1, <2>2 DEF Block, GetNextWriteBlock, NextBlockIs
  <2> QED BY <2>1, <2>2
<1>5. Block \subseteq Nat /\ 1 \in Block /\ 2 \in Block /\ Copy \subseteq Block
  BY <1>1 DEF Block, Copy
<1> QED BY <1>2, <1>3, <1>4, <1>5

\* The active block is the first that is flagged.
LEMMA ActiveIs ==
    ASSUME NEW p
    PROVE  /\ ActiveBlock(p) \in Block
           /\ ~NoActiveBlock(p) => First(p, ActiveBlock(p))
           /\ \A a \in Block : First(p, a) => ~NoActiveBlock(p) /\ ActiveBlock(p) = a
<1>1. CASE NoActiveBlock(p)
  <2>1. ActiveBlock(p) = 1
    BY <1>1 DEF ActiveBlock
  <2>2. \A a \in Block : ~First(p, a)
    BY <1>1 DEF NoActiveBlock, First
  <2> QED BY <1>1, <2>1, <2>2, Constants
<1>2. CASE ~NoActiveBlock(p)
  <2> DEFINE F == {i \in Block : Flagged(p[i])}
  <2>1. F \subseteq Nat /\ F # {}
    BY <1>2, Constants DEF NoActiveBlock
  <2>2. \E x \in F : \A y \in F : x <= y
    BY <2>1, SmallestIn
  <2>3. ActiveBlock(p) = Min(F)
    BY <1>2 DEF ActiveBlock
  <2>4. Min(F) \in F /\ \A y \in F : Min(F) <= y
    BY <2>2 DEF Min
  <2>5. First(p, ActiveBlock(p)) /\ ActiveBlock(p) \in Block
    BY <2>3, <2>4 DEF First
  <2>6. ASSUME NEW a \in Block, First(p, a) PROVE ActiveBlock(p) = a
    <3>1. a <= ActiveBlock(p) /\ ActiveBlock(p) <= a
      BY <2>5, <2>6 DEF First
    <3>2. a \in Nat /\ ActiveBlock(p) \in Nat
      BY <2>5, Constants
    <3> QED BY <3>1, <3>2
  <2> QED BY <1>2, <2>5, <2>6
<1> QED BY <1>1, <1>2

\* A block that cannot be read any more has no record.
LEMMA UnreadableIs ==
    ASSUME NEW b \in BlockType, NEW end \in {"blank", "junk", "flagged"}
    PROVE  /\ Unreadable(b, end) \in BlockType
           /\ Unreadable(b, end).recs = << >> /\ Unreadable(b, end).end = end
           /\ Unreadable(b, end).retired = b.retired
<1>1. << >> \in Seq(RecordType)
  OBVIOUS
<1> QED BY <1>1 DEF Unreadable, BlockType

\* An erase that is cut short leaves the block as it was, or unflagged and
\* without a record.
LEMMA CutEraseIs ==
    ASSUME NEW b \in BlockType, NEW c \in CutErase(b)
    PROVE  /\ c \in BlockType
           /\ c = b \/ (c.recs = << >> /\ ~Flagged(c))
<1>1. c = b \/ c = BlankBlock \/ c = Unreadable(BlankBlock, "junk")
  BY DEF CutErase
<1>2. CASE c = Unreadable(BlankBlock, "junk")
  BY <1>2, Constants, UnreadableIs DEF Flagged
<1>3. CASE c = BlankBlock
  BY <1>3, Constants DEF BlankBlock
<1> QED BY <1>1, <1>2, <1>3

\* A write that is cut short leaves no record in the block it was to be the
\* first of, and the records of another block as they were.
LEMMA CutProgramIs ==
    ASSUME NEW b \in BlockType, NEW r, NEW first \in BOOLEAN,
           NEW c \in CutProgram(b, r, first)
    PROVE  /\ c \in BlockType /\ c.retired = b.retired
           /\ c = b \/ c.recs = IF first THEN << >> ELSE b.recs
<1>1. CASE c = b
  BY <1>1
<1>2. CASE c # b /\ first
  <2>1. PICK end \in {"junk", "flagged"} : c = Unreadable(b, end)
    BY <1>2 DEF CutProgram
  <2> QED BY <1>2, <2>1, UnreadableIs
<1>3. CASE c # b /\ ~first
  <2>1. c = [b EXCEPT !.end = "junk"]
    BY <1>3 DEF CutProgram
  <2> QED BY <1>3, <2>1 DEF BlockType
<1> QED BY <1>1, <1>2, <1>3

\* A record goes into erased flash, or it is not valid.
LEMMA ProgrammedIs ==
    ASSUME NEW b \in BlockType, NEW r \in RecordType, NEW first \in BOOLEAN,
           NEW c \in Programmed(b, r, first)
    PROVE  /\ c \in BlockType
           /\ \/ c = Append1(b, r) /\ IF first THEN b = BlankBlock ELSE b.end = "blank"
              \/ ~first /\ b.end # "blank" /\ c.recs = b.recs
              \/ first /\ b # BlankBlock /\ c.recs = << >>
<1>1. CASE (first /\ b = BlankBlock) \/ (~first /\ b.end = "blank")
  <2>1. c = Append1(b, r)
    BY <1>1 DEF Programmed
  <2>2. Append(b.recs, r) \in Seq(RecordType)
    BY DEF BlockType
  <2>3. c \in BlockType
    BY <2>1, <2>2 DEF Append1, BlockType
  <2> QED BY <1>1, <2>1, <2>3
<1>2. CASE ~first /\ b.end # "blank"
  <2>1. c = [b EXCEPT !.end = "junk"]
    BY <1>2 DEF Programmed
  <2> QED BY <1>2, <2>1 DEF BlockType
<1>3. CASE first /\ b # BlankBlock
  <2>1. PICK end \in {"junk", "flagged"} : c = Unreadable(b, end)
    BY <1>3 DEF Programmed
  <2> QED BY <1>3, <2>1, UnreadableIs
<1> QED BY <1>1, <1>2, <1>3

\* A record behind those of a block is its last, and flags the block.
LEMMA AppendIs ==
    ASSUME NEW b \in BlockType, NEW r \in RecordType
    PROVE  /\ Append1(b, r).recs = Append(b.recs, r)
           /\ Append1(b, r).retired = b.retired
           /\ Append1(b, r).recs # << >> /\ Last(Append1(b, r).recs) = r
<1>1. Append1(b, r).recs = Append(b.recs, r) /\ Append1(b, r).retired = b.retired
  BY DEF Append1, BlockType
<1>2. Append(b.recs, r) # << >> /\ Append(b.recs, r)[Len(Append(b.recs, r))] = r
  BY DEF BlockType
<1> QED BY <1>1, <1>2 DEF Last

(***************************************************************************)
(* What a write keeps of its partition.  p2 is p with block i replaced.    *)
(***************************************************************************)
Replaced(p2, p, i, c) ==
    p2 \in Partition /\ \A k \in Block : p2[k] = IF k = i THEN c ELSE p[k]

\* A flagged block that comes first and holds the newest record is enough.
LEMMA GoodByFirst ==
    ASSUME NEW p, NEW A, NEW a \in Block, Holds(p[a], A),
           \A k \in Block : Flagged(p[k]) => a <= k
    PROVE  Good(p, A)
BY DEF Good, First, Holds

\* A block that hides another one may become unreadable, or be erased.
LEMMA GoodByHidden ==
    ASSUME NEW p, NEW p2, NEW A, NEW a \in Block, NEW c, c.recs = << >>,
           Replaced(p2, p, a, c), Hidden(p, A, a),
           \A k \in Block : Flagged(p[k]) => a <= k
    PROVE  Good(p2, A)
<1>1. PICK i \in Block : /\ i # a /\ Holds(p[i], A)
                         /\ \A k \in Block : Flagged(p[k]) => k = a \/ k = i
  BY DEF Hidden
<1>2. p2[a].recs = << >> /\ p2[i] = p[i] /\ Holds(p2[i], A)
  BY <1>1 DEF Replaced
<1>3. \A k \in Block : Flagged(p2[k]) => k = a \/ k = i
  BY <1>1 DEF Replaced
<1>4. a <= i /\ a <= a /\ i <= i
  BY <1>1, Constants DEF Holds
<1>5. CASE Flagged(p2[a])
  <2>1. First(p2, a)
    BY <1>3, <1>4, <1>5 DEF First
  <2>2. Hidden(p2, A, a)
    BY <1>1, <1>2, <1>3 DEF Hidden
  <2> QED BY <2>1, <2>2 DEF Good
<1>6. CASE ~Flagged(p2[a])
  <2>1. \A k \in Block : Flagged(p2[k]) => i <= k
    BY <1>3, <1>4, <1>6
  <2> QED BY <1>2, <2>1, GoodByFirst
<1> QED BY <1>5, <1>6

\* Where a record goes.
LEMMA PlaceKeeps ==
    ASSUME NEW p \in Partition, NEW A, Good(p, A), NEW j \in Job, NEW j2 \in Job,
           j2.from = ActiveBlock(p), j2.to = WriteBlock(p, j.len),
           j2.first = IsFirstRecord(p, j.len), j2.sound, j2.len = j.len,
           j2.at = IF IsFirstRecord(p, j.len) THEN "erase" ELSE "program"
    PROVE  Placed(j2, p, A)
<1> DEFINE a == ActiveBlock(p)
<1>1. a \in Block /\ p[a] \in BlockType
  BY ActiveIs DEF Partition
<1>2. p[a].recs \in Seq(RecordType) /\ Used(p[a]) \in Nat
  BY <1>1, UsedPositive DEF BlockType
<1>3. BlockUnits \in Nat /\ j.len \in Nat /\ j.len <= BlockUnits
  BY FlashAssumption DEF Job
<1>4. GetWriteNextOffset(p) \in Nat
  BY <1>2 DEF GetWriteNextOffset
<1>5. GetWriteNextOffset(p) # 0 =>
         /\ First(p, a) /\ p[a].recs # << >> /\ GetWriteNextOffset(p) = Used(p[a])
  BY <1>1, ActiveIs, UsedEmpty DEF GetWriteNextOffset
<1>6. GetWriteNextOffset(p) # 0 /\ A # {} => Holds(p[a], A)
  BY <1>5, <1>1, ActiveIs DEF Good, Hidden
<1>7. \A i \in Block : Flagged(p[i]) => a <= i
  BY ActiveIs DEF First, NoActiveBlock
<1>8. CASE MustSwitch(p, j.len)
  <2>1. GetWriteNextOffset(p) # 0
    BY <1>3, <1>8 DEF MustSwitch
  <2>2. j2.to = GetNextWriteBlock(a) /\ j2.first = TRUE /\ j2.at = "erase"
    BY <1>8 DEF WriteBlock, IsFirstRecord
  <2>3. j2.to # j2.from
    BY <2>2, <1>1, Constants DEF NextBlockIs
  <2> QED BY <2>1, <2>2, <2>3, <1>6, <1>7 DEF Placed
<1>9. CASE ~MustSwitch(p, j.len)
  <2>1. j2.to = a
    BY <1>9 DEF WriteBlock
  <2>2. CASE GetWriteNextOffset(p) = 0
    <3>1. j2.first = TRUE /\ j2.at = "erase"
      BY <2>2 DEF IsFirstRecord
    <3>2. ASSUME A # {} PROVE Hidden(p, A, a)
      <4>1. PICK f \in Block : First(p, f) /\ (Holds(p[f], A) \/ Hidden(p, A, f))
        BY <3>2 DEF Good
      <4>2. f = a /\ ~NoActiveBlock(p)
        BY <4>1, ActiveIs
      <4>3. Used(p[a]) = 0
        BY <2>2, <4>2 DEF GetWriteNextOffset
      <4>4. p[a].recs = << >>
        BY <1>2, <4>3, UsedPositive
      <4> QED BY <4>1, <4>2, <4>4 DEF Holds
    <3> QED BY <2>1, <3>1, <3>2, <1>7 DEF Placed
  <2>3. CASE GetWriteNextOffset(p) # 0
    <3>1. j2.first = FALSE /\ j2.at = "program"
      BY <2>3, <1>9 DEF IsFirstRecord
    <3>2. p[a].end = "blank" /\ Used(p[a]) + j.len <= BlockUnits
      BY <1>3, <1>4, <1>5, <1>2, <1>9, <2>3 DEF MustSwitch, IsSpiNorRegionErased
    <3>3. Flagged(p[a])
      BY <1>5, <2>3 DEF First
    <3> QED BY <2>1, <2>3, <3>1, <3>2, <3>3, <1>5, <1>6, <1>7 DEF Placed
  <2> QED BY <2>2, <2>3
<1> QED BY <1>8, <1>9

\* The new block is erased while the old one still holds the records.
LEMMA EraseKeeps ==
    ASSUME NEW p \in Partition, NEW p2, NEW A, NEW j \in Job, Placed(j, p, A),
           j.at = "erase", Replaced(p2, p, j.to, BlankBlock), NEW j2 \in Job,
           j2 = [j EXCEPT !.at = "program"]
    PROVE  Placed(j2, p2, A)
<1>1. /\ j2.at = "program" /\ j2.to = j.to /\ j2.from = j.from
      /\ j2.first = j.first /\ j2.sound = j.sound /\ j2.len = j.len
  BY DEF Job
<1>2. j.first /\ j.sound /\ j.to \in Block /\ j.from \in Block
  BY DEF Placed, Job
<1>3. p2[j.to] = BlankBlock /\ \A k \in Block : Flagged(p2[k]) => k # j.to /\ Flagged(p[k])
  BY <1>2, Constants DEF Replaced
<1>4. ASSUME A # {}, j.to = j.from PROVE Hidden(p2, A, j.to)
  <2>1. Hidden(p, A, j.to)
    BY <1>2, <1>4 DEF Placed
  <2>2. PICK i \in Block : /\ i # j.to /\ Holds(p[i], A)
                           /\ \A k \in Block : Flagged(p[k]) => k = j.to \/ k = i
    BY <2>1 DEF Hidden
  <2>3. p2[i] = p[i] /\ p2[j.to].recs = << >>
    BY <1>3, <2>2 DEF Replaced, BlankBlock
  <2> QED BY <1>3, <2>2, <2>3 DEF Hidden
<1>5. ASSUME A # {}, j.to # j.from PROVE Holds(p2[j.from], A)
  <2>1. Holds(p[j.from], A)
    BY <1>5 DEF Placed
  <2> QED BY <2>1, <1>2, <1>5 DEF Replaced
<1>6. \A k \in Block : Flagged(p2[k]) => j.from <= k
  BY <1>3 DEF Placed
<1>7. /\ j.to = j.from \/ j.to = GetNextWriteBlock(j.from)
      /\ j.to # j.from => j.first
  BY DEF Placed
<1> QED BY <1>1, <1>2, <1>3, <1>4, <1>5, <1>6, <1>7 DEF Placed

\* A write over what an erase left behind keeps nothing, and loses nothing.
LEMMA UnsoundKeeps ==
    ASSUME NEW p, NEW p2, NEW A, NEW j \in Job, Placed(j, p, A), j.at = "erase",
           NEW c \in CutErase(p[j.to]), Replaced(p2, p, j.to, c), p \in Partition,
           NEW j2 \in Job, j2 = [j EXCEPT !.at = "program", !.sound = FALSE]
    PROVE  Placed(j2, p2, {})
<1>1. /\ j2.at = "program" /\ j2.to = j.to /\ j2.from = j.from
      /\ j2.first = j.first /\ j2.sound = FALSE /\ j2.len = j.len
  BY DEF Job
<1>2. j.first /\ j.to \in Block /\ j.from \in Block
  BY DEF Placed, Job
<1>3. \A k \in Block : Flagged(p2[k]) => Flagged(p[k])
  BY <1>2, CutEraseIs DEF Replaced, Partition
<1>4. \A k \in Block : Flagged(p2[k]) => j.from <= k
  BY <1>3 DEF Placed
<1>5. /\ j.to = j.from \/ j.to = GetNextWriteBlock(j.from)
      /\ j.to # j.from => j.first
  BY DEF Placed
<1> QED BY <1>1, <1>2, <1>4, <1>5 DEF Placed

\* The record is programmed.
LEMMA ProgramKeeps ==
    ASSUME NEW p \in Partition, NEW p2, NEW A, NEW j \in Job, Placed(j, p, A),
           j.at = "program", NEW r \in RecordType, r = [n |-> j.n, len |-> j.len],
           NEW c \in Programmed(p[j.to], r, j.first),
           Replaced(p2, p, j.to, c), NEW j2 \in Job,
           j2 = [j EXCEPT !.at = IF j.to # j.from THEN "retire" ELSE "written"]
    PROVE  Placed(j2, p2, A)
<1>1. /\ j2.at = (IF j.to # j.from THEN "retire" ELSE "written")
      /\ j2.to = j.to /\ j2.from = j.from /\ j2.n = j.n
      /\ j2.first = j.first /\ j2.sound = j.sound /\ j2.len = j.len
  BY DEF Job
<1>2. j.to \in Block /\ j.from \in Block /\ p[j.to] \in BlockType /\ j.first \in BOOLEAN
  BY DEF Job, Partition
<1>3. /\ j.to = j.from \/ j.to = GetNextWriteBlock(j.from)
      /\ j.to # j.from => j.first
      /\ ~j.sound => A = {}
  BY DEF Placed
<1>4. p2[j.to] = c /\ \A k \in Block : k # j.to => p2[k] = p[k]
  BY <1>2 DEF Replaced
<1>5. \A k \in Block : Flagged(p[k]) => j.from <= k
  BY DEF Placed
<1>6. ASSUME j.sound
      PROVE  /\ c = Append1(p[j.to], r) /\ c.recs # << >> /\ Last(c.recs).n = j.n
             /\ Flagged(c)
  <2>1. IF j.first THEN p[j.to] = BlankBlock
                   ELSE p[j.to].end = "blank" /\ Flagged(p[j.to])
    BY <1>6 DEF Placed
  <2>2. c = Append1(p[j.to], r)
    BY <1>2, <2>1, ProgrammedIs
  <2>3. c.recs # << >> /\ Last(c.recs).n = j.n /\ c.retired = p[j.to].retired
    BY <1>2, <2>2, AppendIs
  <2>4. ~p[j.to].retired
    BY <2>1 DEF Flagged, BlankBlock
  <2> QED BY <2>2, <2>3, <2>4 DEF Flagged
<1>7. CASE j.to # j.from
  <2>1. ASSUME j.sound
        PROVE  /\ \A k \in Block : Flagged(p2[k]) /\ k # j.to => j.from <= k
               /\ p2[j.to] = Append1(BlankBlock, [n |-> j.n, len |-> j.len])
               /\ A # {} => Holds(p2[j.from], A)
    <3>1. p[j.to] = BlankBlock
      BY <1>3, <1>7, <2>1 DEF Placed
    <3>2. A # {} => Holds(p[j.from], A)
      BY <1>7 DEF Placed
    <3> QED BY <1>2, <1>4, <1>5, <1>6, <1>7, <2>1, <3>1, <3>2
  <2> QED BY <1>1, <1>3, <1>7, <2>1 DEF Placed
<1>8. CASE j.to = j.from
  <2>1. ASSUME j.sound PROVE First(p2, j.to)
    <3>1. \A k \in Block : Flagged(p2[k]) => j.to <= k
      BY <1>2, <1>4, <1>5, <1>8, Constants
    <3> QED BY <1>4, <1>6, <2>1, <3>1 DEF First
  <2> QED BY <1>1, <1>3, <1>4, <1>6, <1>8, <2>1 DEF Placed
<1> QED BY <1>7, <1>8

\* The old block is retired: the new one is the first that is flagged.
LEMMA RetireKeeps ==
    ASSUME NEW p \in Partition, NEW p2, NEW A, NEW j \in Job, Placed(j, p, A),
           j.at = "retire", j.sound, [n |-> j.n, len |-> j.len] \in RecordType,
           Replaced(p2, p, j.from, Retired(p[j.from]))
    PROVE  First(p2, j.to) /\ p2[j.to].recs # << >> /\ Last(p2[j.to].recs).n = j.n
<1> DEFINE r == [n |-> j.n, len |-> j.len]
<1>1. j.to \in Block /\ j.from \in Block
  BY DEF Job
<1>2. /\ j.to # j.from /\ j.to = GetNextWriteBlock(j.from)
      /\ \A k \in Block : Flagged(p[k]) /\ k # j.to => j.from <= k
      /\ p[j.to] = Append1(BlankBlock, r)
  BY DEF Placed
<1>3. p2[j.to] = p[j.to] /\ p2[j.from] = Retired(p[j.from])
  BY <1>1, <1>2 DEF Replaced
<1>4. p[j.to].recs # << >> /\ Last(p[j.to].recs) = r /\ ~p[j.to].retired
  BY <1>2, AppendIs, Constants DEF BlankBlock
<1>5. ~Flagged(p2[j.from])
  BY <1>1, <1>3 DEF Flagged, Retired, Partition, BlockType
<1>6. ASSUME NEW k \in Block, Flagged(p2[k]) PROVE j.to <= k
  <2>1. k # j.from /\ (k # j.to => Flagged(p[k]) /\ j.from <= k)
    BY <1>2, <1>5, <1>6 DEF Replaced
  <2>2. NextBlockIs(j.from, j.to)
    BY <1>1, <1>2, Constants
  <2>3. k \in Nat /\ j.to \in Nat /\ j.from \in Nat /\ k >= 1
    BY <1>1, Constants DEF Block
  <2> QED BY <2>1, <2>2, <2>3 DEF NextBlockIs
<1> QED BY <1>1, <1>3, <1>4, <1>6 DEF First, Flagged

\* A write that found its block, and is given up, or cut short by a loss of
\* power, while it erases that block or programs the record: the newest
\* record is still found, or a block without records hides it.
LEMMA CutKeeps ==
    ASSUME NEW p \in Partition, NEW p2, NEW A, NEW j \in Job, Placed(j, p, A),
           NEW r, NEW c, Replaced(p2, p, j.to, c),
           \/ j.at = "erase" /\ c \in CutErase(p[j.to])
           \/ j.at = "program" /\ c \in CutProgram(p[j.to], r, j.first)
    PROVE  Good(p2, A)
<1>1. /\ j.to \in Block /\ j.from \in Block /\ p[j.to] \in BlockType
      /\ p[j.from] \in BlockType /\ j.first \in BOOLEAN
  BY DEF Job, Partition
<1>2. SUFFICES ASSUME A # {} PROVE Good(p2, A)
  BY DEF Good
<1>3. /\ j.sound
      /\ j.to = j.from \/ j.to = GetNextWriteBlock(j.from)
      /\ j.to # j.from => j.first
      /\ j.at = "erase" => j.first
      /\ \A k \in Block : Flagged(p[k]) => j.from <= k
      /\ IF j.to = j.from /\ j.first THEN Hidden(p, A, j.to) ELSE Holds(p[j.from], A)
      /\ j.at = "program" /\ j.first => p[j.to] = BlankBlock
  BY <1>2 DEF Placed
<1>4. p2[j.to] = c /\ \A k \in Block : k # j.to => p2[k] = p[k]
  BY <1>1 DEF Replaced
<1>5. /\ j.at = "erase" => c = p[j.to] \/ (c.recs = << >> /\ ~Flagged(c))
      /\ j.at = "program" => /\ c.retired = p[j.to].retired
                             /\ c = p[j.to] \/ c.recs = IF j.first THEN << >> ELSE p[j.to].recs
  BY <1>1, CutEraseIs, CutProgramIs
<1>6. CASE j.to = j.from /\ j.first
  <2>1. c.recs = << >>
    BY <1>3, <1>5, <1>6 DEF Hidden
  <2> QED BY <1>1, <1>3, <1>6, <2>1, GoodByHidden
<1>7. CASE j.to = j.from /\ ~j.first
  <2>1. Holds(p[j.from], A) /\ j.at = "program"
    BY <1>3, <1>7
  <2>2. c.recs = p[j.from].recs /\ c.retired = p[j.from].retired
    BY <1>5, <1>7, <2>1
  <2>3. Holds(p2[j.from], A)
    BY <1>4, <1>7, <2>1, <2>2 DEF Holds, Flagged
  <2>4. \A k \in Block : Flagged(p2[k]) => j.from <= k
    BY <1>1, <1>3, <1>4, <1>7, Constants
  <2> QED BY <1>1, <2>3, <2>4, GoodByFirst
<1>8. CASE j.to # j.from
  <2>1. Holds(p[j.from], A) /\ p2[j.from] = p[j.from] /\ NextBlockIs(j.from, j.to)
    BY <1>1, <1>3, <1>4, <1>8, Constants
  <2>2. CASE Flagged(c) => j.from <= j.to
    <3>1. \A k \in Block : Flagged(p2[k]) => j.from <= k
      BY <1>3, <1>4, <2>2
    <3> QED BY <1>1, <2>1, <3>1, GoodByFirst
  <2>3. CASE Flagged(c) /\ ~(j.from <= j.to)
    <3>1. j.to = 1 /\ \A k \in Block : k <= j.from
      BY <1>1, <2>1, <2>3, Constants DEF NextBlockIs
    <3>2. \A k \in Block : Flagged(p[k]) => k = j.from
      <4> SUFFICES ASSUME NEW k \in Block, Flagged(p[k]) PROVE k = j.from
        OBVIOUS
      <4>1. j.from <= k /\ k <= j.from /\ k \in Nat /\ j.from \in Nat
        BY <1>1, <1>3, <3>1, Constants
      <4> QED BY <4>1
    <3>3. j.at = "program" /\ c.recs = << >>
      <4>1. ~Flagged(p[j.to])
        BY <1>1, <1>8, <3>2
      <4>2. c # p[j.to]
        BY <2>3, <4>1
      <4> QED BY <1>3, <1>5, <1>8, <2>3, <4>2
    <3>4. \A k \in Block : Flagged(p2[k]) => k = j.to \/ k = j.from
      BY <1>4, <3>2
    <3>5. First(p2, j.to)
      BY <1>1, <1>4, <2>3, <3>1 DEF First, Block
    <3>6. Hidden(p2, A, j.to)
      BY <1>1, <1>4, <1>8, <2>1, <3>3, <3>4 DEF Hidden
    <3> QED BY <1>1, <3>5, <3>6 DEF Good
  <2> QED BY <2>2, <2>3
<1> QED BY <1>6, <1>7, <1>8

\* Power is lost before the old block is retired: both blocks are flagged.
LEMMA BothFlagged ==
    ASSUME NEW p \in Partition, NEW A, NEW j \in Job, Placed(j, p, A),
           j.at = "retire", [n |-> j.n, len |-> j.len] \in RecordType,
           \A n \in A : n <= j.n
    PROVE  Good(p, A)
<1> DEFINE r == [n |-> j.n, len |-> j.len]
<1>1. SUFFICES ASSUME A # {} PROVE Good(p, A)
  BY DEF Good
<1>2. j.to \in Block /\ j.from \in Block
  BY DEF Job
<1>3. /\ j.to # j.from /\ j.to = GetNextWriteBlock(j.from)
      /\ \A k \in Block : Flagged(p[k]) /\ k # j.to => j.from <= k
      /\ p[j.to] = Append1(BlankBlock, r)
      /\ Holds(p[j.from], A)
  BY <1>1 DEF Placed
<1>4. NextBlockIs(j.from, j.to)
  BY <1>2, <1>3, Constants
<1>5. p[j.to].recs # << >> /\ Last(p[j.to].recs) = r /\ ~p[j.to].retired
  BY <1>3, AppendIs, Constants DEF BlankBlock
<1>6. Holds(p[j.to], A)
  BY <1>5 DEF Holds, Flagged
<1>7. CASE j.to = j.from + 1
  <2>1. j.from <= j.to
    <3>1. j.from \in Nat
      BY <1>2, Constants
    <3> QED BY <3>1, <1>7
  <2>2. \A k \in Block : Flagged(p[k]) => j.from <= k
    BY <1>3, <2>1
  <2> QED BY <1>2, <1>3, <2>2, GoodByFirst
<1>8. CASE j.to # j.from + 1
  <2>1. j.to = 1
    BY <1>4, <1>8 DEF NextBlockIs
  <2>2. \A k \in Block : j.to <= k
    BY <2>1 DEF Block
  <2> QED BY <1>2, <1>6, <2>2, GoodByFirst
<1> QED BY <1>7, <1>8

(***************************************************************************)
(* Types.                                                                  *)
(***************************************************************************)
\* The log, the record and the blocks of the request.
LEMMA JobTypes ==
    ASSUME Typed
    PROVE  /\ JobLog \in Log /\ flash[JobLog] \in Partition /\ job \in Job
           /\ job.to \in Block /\ job.from \in Block
           /\ flash[JobLog][job.to] \in BlockType
           /\ flash[JobLog][job.from] \in BlockType
           /\ job.first \in BOOLEAN /\ Record \in RecordType
           /\ IdleJob \in Job /\ IdleJob.sock <= IdleJob.last
<1>1. job \in Job /\ flash \in [Log -> Partition]
  BY DEF Typed
<1>2. job.part \in {"ras", "early"} /\ job.sock \in Socket
  BY <1>1 DEF Job
<1>3. JobLog \in Log
  BY <1>2 DEF JobLog, Log
<1>4. job.n \in Nat /\ job.len \in 1 .. BlockUnits /\ job.first \in BOOLEAN
      /\ job.to \in Block /\ job.from \in Block
  BY <1>1 DEF Job
<1>5. Record \in RecordType
  BY <1>4 DEF Record, RecordType
<1>6. 1 \in Socket /\ 1 \in 1 .. BlockUnits
  BY StorageAssumption, FlashAssumption DEF Socket
<1>7. IdleJob \in Job /\ IdleJob.sock <= IdleJob.last
  BY <1>6, Constants DEF IdleJob, Job
<1> QED BY <1>1, <1>3, <1>4, <1>5, <1>7 DEF Partition

\* PutBlock replaces one block of the log of the request.
LEMMA PutIs ==
    ASSUME Typed, NEW i \in Block, NEW c \in BlockType, PutBlock(i, c)
    PROVE  /\ flash' \in [Log -> Partition]
           /\ Replaced(flash'[JobLog], flash[JobLog], i, c)
           /\ \A l \in Log : l # JobLog => flash'[l] = flash[l]
<1>1. JobLog \in Log /\ flash \in [Log -> Partition] /\ flash[JobLog] \in Partition
  BY JobTypes DEF Typed
<1>2. PICK k : k = JobLog
  OBVIOUS
<1>3. flash' = [flash EXCEPT ![k] = [flash[k] EXCEPT ![i] = c]]
  BY <1>1, <1>2 DEF PutBlock
<1>4. PICK q : q = [flash[k] EXCEPT ![i] = c]
  OBVIOUS
<1>5. q \in Partition /\ \A m \in Block : q[m] = IF m = i THEN c ELSE flash[k][m]
  BY <1>1, <1>2, <1>4 DEF Partition
<1>6. flash' = [flash EXCEPT ![k] = q]
  BY <1>3, <1>4
<1>7. flash' \in [Log -> Partition] /\ flash'[k] = q
      /\ \A l \in Log : l # k => flash'[l] = flash[l]
  BY <1>1, <1>2, <1>5, <1>6
<1>8. Replaced(flash'[k], flash[k], i, c)
  BY <1>5, <1>7 DEF Replaced
<1> QED BY <1>2, <1>7, <1>8

\* An erase of the partition that is cut short: every block is as it was, or
\* has no record.
LEMMA CutWipeIs ==
    ASSUME NEW p \in Partition, NEW q \in CutErasePartition(p)
    PROVE  /\ q \in Partition
           /\ \A i \in Block : q[i] = p[i] \/ q[i].recs = << >>
<1>1. PICK i \in Block : q \in {[j \in Block |-> IF j < i THEN BlankBlock
                                   ELSE IF j = i THEN b ELSE p[j]] : b \in CutErase(p[i])}
  BY DEF CutErasePartition
<1>2. PICK b \in CutErase(p[i]) : q = [j \in Block |-> IF j < i THEN BlankBlock
                                         ELSE IF j = i THEN b ELSE p[j]]
  BY <1>1
<1>3. p[i] \in BlockType /\ \A j \in Block : p[j] \in BlockType
  BY DEF Partition
<1>4. b \in BlockType /\ (b = p[i] \/ b.recs = << >>)
  BY <1>3, CutEraseIs
<1>5. BlankBlock \in BlockType /\ BlankBlock.recs = << >>
  BY Constants DEF BlankBlock
<1> QED BY <1>2, <1>3, <1>4, <1>5 DEF Partition

\* What a loss of power does to the log of the request.
LEMMA LossIs ==
    ASSUME Typed, NEW q \in LogsAfterLoss
    PROVE  /\ q \in Partition
           /\ \/ q = flash[JobLog] /\ job.at \notin {"erase", "program", "wipe"}
              \/ At("erase") /\ \E c \in CutErase(flash[JobLog][job.to]) :
                    Replaced(q, flash[JobLog], job.to, c)
              \/ At("program") /\ \E c \in CutProgram(flash[JobLog][job.to], Record, job.first) :
                    Replaced(q, flash[JobLog], job.to, c)
              \/ At("retire") /\ Replaced(q, flash[JobLog], job.from,
                                          Retired(flash[JobLog][job.from]))
              \/ At("wipe") /\ q \in CutErasePartition(flash[JobLog])
<1> DEFINE p == flash[JobLog]
<1>1. /\ p \in Partition /\ job.to \in Block /\ job.from \in Block
      /\ p[job.to] \in BlockType /\ p[job.from] \in BlockType /\ job.first \in BOOLEAN
  BY JobTypes
<1>2. \A i \in Block, c \in BlockType :
         /\ [p EXCEPT ![i] = c] \in Partition
         /\ Replaced([p EXCEPT ![i] = c], p, i, c)
  BY <1>1 DEF Partition, Replaced
<1> HIDE DEF p
<1>3. CASE At("erase")
  <2>1. q \in {[p EXCEPT ![job.to] = b] : b \in CutErase(p[job.to])}
    BY <1>3 DEF LogsAfterLoss, p, At
  <2>2. PICK c \in CutErase(p[job.to]) : q = [p EXCEPT ![job.to] = c]
    BY <2>1
  <2>3. c \in BlockType
    BY <1>1, CutEraseIs
  <2> QED BY <1>1, <1>2, <1>3, <2>2, <2>3 DEF p
<1>4. CASE At("program")
  <2>1. q \in {[p EXCEPT ![job.to] = b] : b \in CutProgram(p[job.to], Record, job.first)}
    BY <1>4 DEF LogsAfterLoss, p, At
  <2>2. PICK c \in CutProgram(p[job.to], Record, job.first) : q = [p EXCEPT ![job.to] = c]
    BY <2>1
  <2>3. c \in BlockType
    BY <1>1, CutProgramIs
  <2> QED BY <1>1, <1>2, <1>4, <2>2, <2>3 DEF p
<1>5. CASE At("retire")
  <2>1. q \in {p, [p EXCEPT ![job.from] = Retired(p[job.from])]}
    BY <1>5 DEF LogsAfterLoss, p, At
  <2>2. Retired(p[job.from]) \in BlockType
    BY <1>1 DEF Retired, BlockType
  <2> QED BY <1>1, <1>2, <1>5, <2>1, <2>2 DEF p, At
<1>6. CASE At("wipe")
  <2>1. q \in CutErasePartition(p)
    BY <1>6 DEF LogsAfterLoss, p, At
  <2> QED BY <1>1, <1>6, <2>1, CutWipeIs DEF p
<1>7. CASE job.at \notin {"erase", "program", "retire", "wipe"}
  <2>1. q \in {p}
    BY <1>7 DEF LogsAfterLoss, p, At
  <2> QED BY <1>1, <1>7, <2>1 DEF p
<1> QED BY <1>3, <1>4, <1>5, <1>6, <1>7 DEF At

(***************************************************************************)
(* The steps.  First what is common to them: what a step does not touch.   *)
(***************************************************************************)
\* A log stays in order when its blocks keep their records or lose them.
LEMMA OrderedKept ==
    ASSUME Typed, NEW l \in Log, OrderedLog(l), served' = served,
           Unwritten(l)' => Unwritten(l), Unanswered(l)' => Unanswered(l),
           acked'[l] \subseteq acked[l],
           \A i \in Block : \/ flash'[l][i].recs = flash[l][i].recs
                            \/ flash'[l][i].recs = << >>
    PROVE  OrderedLog(l)'
<1>0. BlockUnits \in Nat /\ served \in Nat
  BY FlashAssumption DEF Typed
<1>1. Unanswered(l)' => \A n \in acked'[l] : n < served'
  BY DEF OrderedLog
<1>2. ASSUME NEW i \in Block
      PROVE  /\ Used(flash'[l][i]) <= BlockUnits
             /\ Tidy(flash'[l][i], acked'[l])
             /\ Dated(flash'[l][i], IF Unwritten(l)' THEN served' - 1 ELSE served')
  <2>1. CASE flash'[l][i].recs = << >>
    <3>1. Used(flash'[l][i]) = 0
      BY <2>1, UsedEmpty
    <3>2. Len(flash'[l][i].recs) = 0
      BY <2>1
    <3> QED BY <1>0, <3>1, <3>2 DEF Tidy, Dated
  <2>2. CASE flash'[l][i].recs = flash[l][i].recs
    <3>1. /\ Used(flash[l][i]) <= BlockUnits
          /\ Tidy(flash[l][i], acked[l])
          /\ Dated(flash[l][i], IF Unwritten(l) THEN served - 1 ELSE served)
      BY DEF OrderedLog
    <3>2. Used(flash'[l][i]) = Used(flash[l][i])
      BY <2>2 DEF Used
    <3>3. Tidy(flash'[l][i], acked'[l])
      BY <2>2, <3>1 DEF Tidy
    <3>4. flash[l][i].recs \in Seq(RecordType)
      BY DEF Typed, Partition, BlockType
    <3>5. \A k \in 1 .. Len(flash[l][i].recs) : flash[l][i].recs[k].n \in Nat
      <4>1. \A k \in 1 .. Len(flash[l][i].recs) : flash[l][i].recs[k] \in RecordType
        BY <3>4
      <4> QED BY <4>1 DEF RecordType
    <3>6. Dated(flash'[l][i], IF Unwritten(l)' THEN served' - 1 ELSE served')
      BY <1>0, <2>2, <3>1, <3>5 DEF Dated
    <3> QED BY <3>1, <3>2, <3>3, <3>6
  <2> QED BY <2>1, <2>2
<1> QED BY <1>1, <1>2 DEF OrderedLog

\* Steps that leave the logs alone, of requests that do not write to them.
LEMMA LogsFrame ==
    ASSUME IInv, flash' = flash, acked' = acked, served' = served,
           ~Switching, ~Switching', ~At("place")'
    PROVE  Ordered' /\ LogsInv'
<1>1. ASSUME NEW l \in Log PROVE OrderedLog(l)'
  <2>1. Typed /\ OrderedLog(l)
    BY DEF IInv, Ordered
  <2>2. ~Unwritten(l)' /\ ~Unanswered(l)'
    BY DEF Unwritten, Unanswered
  <2> QED BY <2>1, <2>2, OrderedKept
<1>2. \A l \in Log : Good(flash[l], acked[l])
  BY DEF IInv, LogsInv
<1> QED BY <1>1, <1>2 DEF Ordered, LogsInv

\* Steps that leave the CMET copies alone, of requests that do not write them.
LEMMA CmetFrame ==
    ASSUME CmetInv, cmet' = cmet, pair' = pair, attempts' = attempts,
           ~InCmet, ~InCmet'
    PROVE  CmetInv'
<1>1. ~At("cmet_program")' /\ ~At("cmet_erase")'
  BY DEF InCmet, At
<1> QED BY <1>1 DEF CmetInv, Kept

\* A write goes on, or ends, in the log of its request.
LEMMA LogsStep ==
    ASSUME Typed, LogsInv, Switching,
           \A l \in Log : l # JobLog => flash'[l] = flash[l] /\ acked'[l] = acked[l],
           \/ Switching' /\ JobLog' = JobLog
                         /\ Placed(job', flash'[JobLog], acked'[JobLog])
           \/ ~Switching' /\ Good(flash'[JobLog], acked'[JobLog]),
           At("place")' => job.sound'
    PROVE  LogsInv'
<1>1. PICK k : k = JobLog
  OBVIOUS
<1>2. \A l \in Log : l # k => Good(flash'[l], acked'[l])
  BY <1>1 DEF LogsInv
<1>3. CASE Switching'
  BY <1>1, <1>2, <1>3 DEF LogsInv
<1>4. CASE ~Switching'
  BY <1>1, <1>2, <1>4 DEF LogsInv
<1> QED BY <1>3, <1>4

(***************************************************************************)
(* WriteNextRecord                                                         *)
(***************************************************************************)
\* What the steps of a write leave alone: the copies, and the other logs.
Elsewhere ==
    /\ cmet' = cmet /\ pair' = pair /\ attempts' = attempts /\ served' = served
    /\ \A l \in Log : l # JobLog => flash'[l] = flash[l] /\ acked'[l] = acked[l]

\* The write goes on with the same record, in the same log.
SameWrite ==
    /\ job'.part = job.part /\ job'.sock = job.sock /\ job'.last = job.last
    /\ job'.n = job.n /\ job'.len = job.len

\* Steps of a write that add no record to a log: all logs stay in order.
LEMMA OrderedFrame ==
    ASSUME IInv, served' = served,
           \A l \in Log : /\ acked'[l] \subseteq acked[l]
                          /\ Unwritten(l)' => Unwritten(l)
                          /\ Unanswered(l)' => Unanswered(l),
           \A l \in Log, i \in Block : \/ flash'[l][i].recs = flash[l][i].recs
                                       \/ flash'[l][i].recs = << >>
    PROVE  Ordered'
BY OrderedKept DEF IInv, Ordered

\* A step of a write, or its end, makes no log wait that did not.
LEMMA StillWaiting ==
    ASSUME At("place") \/ Switching,
           \/ job' = IdleJob
           \/ /\ SameWrite /\ Switching'
              /\ job'.at \in {"erase", "program"} =>
                    job.at \in {"place", "erase", "program"}
    PROVE  \A l \in Log : /\ Unwritten(l)' => Unwritten(l)
                          /\ Unanswered(l)' => Unanswered(l)
<1>1. CASE job' = IdleJob
  BY <1>1 DEF IdleJob, Unwritten, Unanswered, Switching, At
<1>2. CASE /\ SameWrite /\ Switching'
           /\ job'.at \in {"erase", "program"} =>
                    job.at \in {"place", "erase", "program"}
  BY <1>2 DEF SameWrite, Switching, Unwritten, Unanswered, At
<1> QED BY <1>1, <1>2

\* The block is found and nothing else changes.
LEMMA PlaceStep ==
    ASSUME IInv, PlaceRecord, served' = served
    PROVE  IInv'
<1>1. /\ job' = [job EXCEPT !.from  = ActiveBlock(flash[JobLog]),
                            !.to    = WriteBlock(flash[JobLog], job.len),
                            !.first = IsFirstRecord(flash[JobLog], job.len),
                            !.at    = IF IsFirstRecord(flash[JobLog], job.len)
                                      THEN "erase" ELSE "program"]
      /\ flash' = flash /\ acked' = acked /\ cmet' = cmet /\ pair' = pair
      /\ attempts' = attempts /\ events' = events /\ At("place")
  BY DEF PlaceRecord, logVars, cmetVars
<1>2. Typed /\ job.sound /\ Ordered /\ LogsInv /\ CmetInv
  BY <1>1 DEF IInv, LogsInv
<1>3. job \in Job /\ JobLog \in Log /\ flash[JobLog] \in Partition
  BY <1>2, JobTypes
<1>4. /\ ActiveBlock(flash[JobLog]) \in Block
      /\ WriteBlock(flash[JobLog], job.len) \in Block
      /\ IsFirstRecord(flash[JobLog], job.len) \in BOOLEAN
  BY ActiveIs, Constants DEF WriteBlock, IsFirstRecord, MustSwitch, NextBlockIs
<1>5. job' \in Job /\ job'.at \in {"erase", "program"} /\ SameWrite /\ job'.sound
  BY <1>1, <1>2, <1>3, <1>4 DEF Job, SameWrite
<1>6. Typed'
  BY <1>1, <1>2, <1>5 DEF Typed, At, SameWrite
<1>7. Switching' /\ ~InCmet' /\ ~InCmet /\ ~At("place")' /\ ~Switching
  BY <1>1, <1>5 DEF Switching, InCmet, At
<1>8. Ordered'
  <2>1. \A l \in Log : /\ Unwritten(l)' => Unwritten(l)
                       /\ Unanswered(l)' => Unanswered(l)
    BY <1>1, <1>5, <1>7, StillWaiting DEF At
  <2> QED BY <1>1, <2>1, OrderedFrame
<1>9. LogsInv'
  <2>1. Good(flash[JobLog], acked[JobLog])
    BY <1>2, <1>3, <1>7 DEF LogsInv
  <2>2. Placed(job', flash[JobLog], acked[JobLog])
    <3>1. /\ job'.from = ActiveBlock(flash[JobLog])
          /\ job'.to = WriteBlock(flash[JobLog], job.len)
          /\ job'.first = IsFirstRecord(flash[JobLog], job.len)
          /\ job'.len = job.len
          /\ job'.at = IF IsFirstRecord(flash[JobLog], job.len)
                       THEN "erase" ELSE "program"
      BY <1>1, <1>3 DEF Job
    <3> QED BY <1>3, <1>5, <2>1, <3>1, PlaceKeeps
  <2>3. JobLog' = JobLog
    BY <1>5 DEF SameWrite, JobLog
  <2>4. \A l \in Log : Good(flash[l], acked[l])
    BY <1>2, <1>7 DEF LogsInv
  <2> QED BY <1>1, <1>7, <2>2, <2>3, <2>4 DEF LogsInv
<1>10. CmetInv'
  BY <1>1, <1>2, <1>7, CmetFrame
<1> QED BY <1>6, <1>8, <1>9, <1>10 DEF IInv

\* A step of a write after the block was found, which replaces block i of its
\* log: what remains to be shown of the new block and of the job.
LEMMA WriteStep ==
    ASSUME IInv, Switching, Elsewhere, events' \in 0 .. MaxEvents,
           NEW i \in Block, NEW c \in BlockType, PutBlock(i, c),
           acked'[JobLog] \subseteq acked[JobLog],
           acked' \in [Log -> SUBSET (1 .. served)],
           \/ job' = IdleJob /\ Good(flash'[JobLog], acked'[JobLog])
           \/ /\ SameWrite /\ Switching' /\ job' \in Job
              /\ job'.at \in {"erase", "program"} => job.at \in {"erase", "program"}
              /\ Placed(job', flash'[JobLog], acked'[JobLog]),
           Ordered'
    PROVE  IInv'
<1>1. Typed /\ LogsInv /\ CmetInv /\ ~InCmet /\ ~At("idle") /\ ~At("place")
  BY DEF IInv, Switching, InCmet, At
<1>2. flash' \in [Log -> Partition]
  BY <1>1, PutIs
<1>3. IdleJob \in Job /\ IdleJob.sock <= IdleJob.last
  BY <1>1, JobTypes
<1>4. Typed'
  <2>1. /\ cmet' = cmet /\ pair' = pair /\ attempts' = attempts /\ served' = served
        /\ job.n = served /\ served # 0 /\ job.sock <= job.last
    BY <1>1 DEF Elsewhere, Typed
  <2>2. job' \in Job /\ job'.sock <= job'.last
    BY <1>3, <2>1 DEF SameWrite
  <2>3. ~At("idle")' => job'.n = served' /\ served' # 0
    BY <2>1 DEF SameWrite, IdleJob, At
  <2>4. acked' \in [Log -> SUBSET (1 .. served')]
    BY <2>1
  <2> QED BY <1>1, <1>2, <2>1, <2>2, <2>3, <2>4 DEF Typed
<1>5. ~InCmet' /\ ~At("place")'
  BY DEF IdleJob, Switching, InCmet, At
<1>6. CmetInv'
  BY <1>1, <1>5, CmetFrame DEF Elsewhere
<1>7. LogsInv'
  <2>1. CASE job' = IdleJob /\ Good(flash'[JobLog], acked'[JobLog])
    <3>1. ~Switching'
      BY <2>1 DEF IdleJob, Switching
    <3> QED BY <1>1, <1>5, <2>1, <3>1, LogsStep DEF Elsewhere
  <2>2. CASE SameWrite /\ Switching' /\ Placed(job', flash'[JobLog], acked'[JobLog])
    <3>1. JobLog' = JobLog
      BY <2>2 DEF SameWrite, JobLog
    <3> QED BY <1>1, <1>5, <2>2, <3>1, LogsStep DEF Elsewhere
  <2> QED BY <2>1, <2>2
<1> QED BY <1>4, <1>6, <1>7 DEF IInv

\* Such a step keeps the logs in order when the new block keeps the records of
\* the old one, or none.
LEMMA WriteOrdered ==
    ASSUME IInv, Switching, Elsewhere,
           NEW i \in Block, NEW c \in BlockType, PutBlock(i, c),
           acked'[JobLog] \subseteq acked[JobLog],
           c.recs = flash[JobLog][i].recs \/ c.recs = << >>,
           \/ job' = IdleJob
           \/ /\ SameWrite /\ Switching'
              /\ job'.at \in {"erase", "program"} => job.at \in {"erase", "program"}
    PROVE  Ordered'
<1>1. Typed
  BY DEF IInv
<1>2. /\ Replaced(flash'[JobLog], flash[JobLog], i, c)
      /\ \A l \in Log : l # JobLog => flash'[l] = flash[l]
  BY <1>1, PutIs
<1>3. \A l \in Log : /\ Unwritten(l)' => Unwritten(l)
                     /\ Unanswered(l)' => Unanswered(l)
  BY StillWaiting
<1>4. PICK k : k = JobLog
  OBVIOUS
<1>5. \A l \in Log, m \in Block : \/ flash'[l][m].recs = flash[l][m].recs
                                  \/ flash'[l][m].recs = << >>
  BY <1>2, <1>4 DEF Replaced
<1>6. \A l \in Log : acked'[l] \subseteq acked[l]
  BY <1>4 DEF Elsewhere
<1>7. served' = served
  BY DEF Elsewhere
<1> QED BY <1>3, <1>5, <1>6, <1>7, OrderedFrame

\* The promise of the log of the request ends, that of the others does not.
LEMMA ForgetIs ==
    ASSUME Typed, Forget
    PROVE  /\ acked' \in [Log -> SUBSET (1 .. served)] /\ acked'[JobLog] = {}
           /\ \A l \in Log : l # JobLog => acked'[l] = acked[l]
<1>1. JobLog \in Log /\ acked \in [Log -> SUBSET (1 .. served)]
  BY JobTypes DEF Typed
<1>2. {} \in SUBSET (1 .. served)
  OBVIOUS
<1>3. PICK k : k = JobLog
  OBVIOUS
<1>4. acked' = [acked EXCEPT ![k] = {}] /\ k \in Log
  BY <1>1, <1>3 DEF Forget
<1>5. acked' \in [Log -> SUBSET (1 .. served)] /\ acked'[k] = {}
      /\ \A l \in Log : l # k => acked'[l] = acked[l]
  BY <1>1, <1>2, <1>4
<1> QED BY <1>3, <1>5

\* An event is one of at most MaxEvents.
LEMMA EventIs ==
    ASSUME Typed, Event
    PROVE  events' \in 0 .. MaxEvents
BY StorageAssumption DEF Typed, Event

LEMMA EraseStep ==
    ASSUME IInv, EraseNewBlock, served' = served
    PROVE  IInv'
<1>1. /\ At("erase") /\ PutBlock(job.to, BlankBlock) /\ Typed /\ Switching
      /\ job' = [job EXCEPT !.at = "program"]
      /\ acked' = acked /\ cmet' = cmet /\ pair' = pair
      /\ attempts' = attempts /\ events' = events
  BY DEF EraseNewBlock, GoTo, cmetVars, IInv, Switching, At
<1>2. /\ JobLog \in Log /\ flash[JobLog] \in Partition /\ job \in Job /\ job.to \in Block
      /\ BlankBlock \in BlockType /\ BlankBlock.recs = << >>
  BY <1>1, JobTypes, Constants DEF BlankBlock
<1>3. /\ Replaced(flash'[JobLog], flash[JobLog], job.to, BlankBlock)
      /\ \A l \in Log : l # JobLog => flash'[l] = flash[l]
  BY <1>1, <1>2, PutIs
<1>4. Placed(job, flash[JobLog], acked[JobLog])
  BY <1>1 DEF IInv, LogsInv
<1>5. job' \in Job /\ job'.at = "program" /\ SameWrite
  BY <1>1, <1>2 DEF Job, SameWrite
<1>6. Placed(job', flash'[JobLog], acked[JobLog])
  BY <1>1, <1>2, <1>3, <1>4, <1>5, EraseKeeps DEF At
<1>7. Switching' /\ Elsewhere /\ job.at = "erase"
  BY <1>1, <1>3, <1>5 DEF Switching, Elsewhere, At
<1>8. Ordered'
  BY <1>1, <1>2, <1>5, <1>7, WriteOrdered
<1>9. events' \in 0 .. MaxEvents /\ acked' \in [Log -> SUBSET (1 .. served)]
  BY <1>1 DEF Typed
<1> QED BY <1>1, <1>2, <1>5, <1>6, <1>7, <1>8, <1>9, WriteStep

\* The erase of the new block fails, and nobody is told.
LEMMA EraseFailsStep ==
    ASSUME IInv, EraseNewBlockFails, served' = served
    PROVE  IInv'
<1>1. PICK c \in CutErase(flash[JobLog][job.to]) : PutBlock(job.to, c)
  BY DEF EraseNewBlockFails
<1>2. /\ At("erase") /\ Event /\ Forget /\ Typed /\ Switching
      /\ job' = [job EXCEPT !.at = "program", !.sound = FALSE]
      /\ cmet' = cmet /\ pair' = pair /\ attempts' = attempts
  BY DEF EraseNewBlockFails, cmetVars, IInv, Switching, At
<1>3. /\ JobLog \in Log /\ flash[JobLog] \in Partition /\ job \in Job /\ job.to \in Block
      /\ flash[JobLog][job.to] \in BlockType
  BY <1>2, JobTypes
<1>4. c \in BlockType /\ (c.recs = flash[JobLog][job.to].recs \/ c.recs = << >>)
  BY <1>1, <1>3, CutEraseIs
<1>5. /\ Replaced(flash'[JobLog], flash[JobLog], job.to, c)
      /\ \A l \in Log : l # JobLog => flash'[l] = flash[l]
  BY <1>1, <1>2, <1>3, <1>4, PutIs
<1>6. Placed(job, flash[JobLog], acked[JobLog])
  BY <1>2 DEF IInv, LogsInv
<1>7. job' \in Job /\ job'.at = "program" /\ SameWrite
  BY <1>2, <1>3 DEF Job, SameWrite
<1>8. /\ acked' \in [Log -> SUBSET (1 .. served)] /\ acked'[JobLog] = {}
      /\ \A l \in Log : l # JobLog => acked'[l] = acked[l]
  BY <1>2, ForgetIs
<1>9. Placed(job', flash'[JobLog], {})
  BY <1>1, <1>2, <1>3, <1>5, <1>6, <1>7, UnsoundKeeps DEF At
<1>10. Switching' /\ Elsewhere /\ job.at = "erase" /\ events' \in 0 .. MaxEvents
  BY <1>2, <1>5, <1>7, <1>8, EventIs DEF Switching, Elsewhere, At
<1>11. Ordered'
  BY <1>1, <1>2, <1>3, <1>4, <1>7, <1>8, <1>10, WriteOrdered
<1> QED BY <1>1, <1>2, <1>3, <1>4, <1>7, <1>8, <1>9, <1>10, <1>11, WriteStep

\* What was written before a request was written before the next one too.
LEMMA DatedLater ==
    ASSUME NEW b \in BlockType, NEW s \in Nat, Dated(b, s - 1)
    PROVE  Dated(b, s)
<1>1. \A k \in 1 .. Len(b.recs) : b.recs[k] \in RecordType
  BY DEF BlockType
<1>2. \A k \in 1 .. Len(b.recs) : b.recs[k].n \in Nat
  BY <1>1 DEF RecordType
<1> QED BY <1>2 DEF Dated

\* A newer record behind the newest one that is acknowledged.
LEMMA AppendKeepsOrder ==
    ASSUME NEW b \in BlockType, NEW r \in RecordType, NEW A, A \subseteq Nat,
           Tidy(b, A), Dated(b, r.n - 1), \A n \in A : n < r.n,
           b.recs # << >> => \A n \in A : n <= Last(b.recs).n
    PROVE  Tidy(Append1(b, r), A) /\ Dated(Append1(b, r), r.n)
<1>1. PICK s \in Seq(RecordType), m \in Nat : s = b.recs /\ m = Len(s)
  BY DEF BlockType
<1>2. PICK t : t = Append(s, r) /\ t \in Seq(RecordType)
  <2>1. Append(s, r) \in Seq(RecordType)
    OBVIOUS
  <2> QED BY <2>1
<1>3. Append1(b, r).recs = t
  BY <1>1, <1>2, AppendIs
<1>4. Len(t) = m + 1 /\ t[m + 1] = r /\ \A k \in 1 .. m : t[k] = s[k] /\ s[k] \in RecordType
  BY <1>1, <1>2
<1>5. r.n \in Nat /\ \A k \in 1 .. m : s[k].n \in Nat /\ s[k].n <= r.n - 1
  BY <1>1, <1>4 DEF RecordType, Dated
<1>6. m # 0 => \A n \in A : n <= s[m].n
  BY <1>1 DEF Last
<1>7. ASSUME NEW k \in 1 .. m
      PROVE  /\ t[k].n < t[k + 1].n
             /\ \A n \in A : ~(t[k].n < n /\ n < t[k + 1].n)
  <2>1. CASE k = m
    <3>1. t[k] = s[m] /\ t[k + 1] = r /\ m # 0
      BY <1>4, <2>1
    <3>2. s[m].n \in Nat /\ s[m].n < r.n
      BY <1>5, <2>1
    <3>3. \A n \in A : n \in Nat /\ n <= s[m].n
      BY <1>6, <3>1
    <3>4. \A n \in A : ~(s[m].n < n)
      BY <3>2, <3>3
    <3>5. t[k].n = s[m].n /\ t[k + 1].n = r.n
      BY <3>1
    <3> QED BY <3>2, <3>4, <3>5
  <2>2. CASE k # m
    <3>1. k \in 1 .. m - 1 /\ k + 1 \in 1 .. m
      BY <2>2
    <3>2. t[k] = s[k] /\ t[k + 1] = s[k + 1]
      BY <1>4, <3>1
    <3> QED BY <1>1, <3>1, <3>2 DEF Tidy
  <2> QED BY <2>1, <2>2
<1>8. \A k \in 1 .. m + 1 : t[k].n <= r.n
  <2> TAKE k \in 1 .. m + 1
  <2>1. k = m + 1 \/ k \in 1 .. m
    OBVIOUS
  <2> QED BY <1>4, <1>5, <2>1
<1>9. Len(t) - 1 = m
  BY <1>4
<1> QED BY <1>3, <1>4, <1>7, <1>8, <1>9 DEF Tidy, Dated

\* What is programmed is in its place, and in order.
LEMMA ProgramStep ==
    ASSUME IInv, ProgramRecord, served' = served
    PROVE  IInv'
<1>1. PICK c \in Programmed(flash[JobLog][job.to], Record, job.first) :
         PutBlock(job.to, c)
  BY DEF ProgramRecord
<1>2. /\ At("program") /\ Typed /\ Switching /\ Ordered /\ job.n = served
      /\ job' = [job EXCEPT !.at = IF job.to # job.from THEN "retire" ELSE "written"]
      /\ acked' = acked /\ cmet' = cmet /\ pair' = pair
      /\ attempts' = attempts /\ events' = events
  BY DEF ProgramRecord, GoTo, cmetVars, IInv, Switching, At, Typed
<1>3. /\ JobLog \in Log /\ flash[JobLog] \in Partition /\ job \in Job /\ job.to \in Block
      /\ flash[JobLog][job.to] \in BlockType /\ Record \in RecordType
      /\ job.first \in BOOLEAN
  BY <1>2, JobTypes
<1>4. Placed(job, flash[JobLog], acked[JobLog])
  BY <1>2 DEF IInv, LogsInv
<1>5. PICK b : b = flash[JobLog][job.to]
  OBVIOUS
<1>6. /\ c \in BlockType
      /\ \/ c = Append1(b, Record) /\ IF job.first THEN b = BlankBlock ELSE b.end = "blank"
         \/ c.recs = b.recs
         \/ c.recs = << >>
  BY <1>1, <1>3, <1>5, ProgrammedIs
<1>7. /\ Replaced(flash'[JobLog], flash[JobLog], job.to, c)
      /\ \A l \in Log : l # JobLog => flash'[l] = flash[l]
  BY <1>1, <1>2, <1>3, <1>6, PutIs
<1>8. /\ job' \in Job /\ job'.at \in {"retire", "written"} /\ SameWrite /\ Switching'
  BY <1>2, <1>3 DEF Job, SameWrite, Switching, At
<1>9. Placed(job', flash'[JobLog], acked[JobLog])
  BY <1>1, <1>2, <1>3, <1>4, <1>7, <1>8, ProgramKeeps DEF At, Record
<1>10. Elsewhere /\ job.at = "program"
  BY <1>2, <1>7 DEF Elsewhere, At
<1>11. Ordered'
  <2>1. CASE c.recs = b.recs \/ c.recs = << >>
    BY <1>1, <1>2, <1>3, <1>5, <1>6, <1>8, <1>10, <2>1, WriteOrdered
  <2>2. CASE c = Append1(b, Record) /\ IF job.first THEN b = BlankBlock ELSE b.end = "blank"
    <3>1. \A l \in Log : /\ Unwritten(l)' => Unwritten(l)
                         /\ Unanswered(l)' => Unanswered(l)
      BY <1>2, <1>8, StillWaiting
    <3>2. PICK k \in Log : k = JobLog
      BY <1>3
    <3>3. ASSUME NEW l \in Log, l # k PROVE OrderedLog(l)'
      <4>1. OrderedLog(l) /\ flash'[l] = flash[l] /\ acked'[l] = acked[l]
        BY <1>2, <1>7, <3>2, <3>3 DEF Ordered
      <4> QED BY <1>2, <3>1, <4>1, OrderedKept
    <3>4. OrderedLog(k)'
      <4>1. OrderedLog(k) /\ Unwritten(k) /\ ~Unwritten(k)' /\ Unanswered(k) /\ Unanswered(k)'
        <5>1. k[1] = job.part /\ k[2] = job.sock /\ job.sock \in Nat
          BY <1>3, <3>2 DEF JobLog, Job, Socket
        <5>2. Unwritten(k) /\ Unanswered(k)
          BY <1>2, <5>1 DEF Unwritten, Unanswered, At
        <5>3. ~Unwritten(k)'
          BY <1>8, <5>1 DEF Unwritten, SameWrite, At
        <5>4. Unanswered(k)'
          BY <1>8, <5>1 DEF Unanswered, SameWrite
        <5> QED BY <1>2, <5>2, <5>3, <5>4 DEF Ordered
      <4>2. ASSUME NEW m \in Block
            PROVE  /\ Used(flash'[k][m]) <= BlockUnits
                   /\ Tidy(flash'[k][m], acked[k])
                   /\ Dated(flash'[k][m], served)
        <5>1. /\ Used(flash[k][m]) <= BlockUnits /\ Tidy(flash[k][m], acked[k])
              /\ Dated(flash[k][m], served - 1)
          BY <4>1 DEF OrderedLog
        <5>2. CASE m # job.to
          <6>1. flash'[k][m] = flash[k][m]
            BY <1>7, <3>2, <5>2 DEF Replaced
          <6>2. flash[k][m] \in BlockType
            BY <1>2 DEF Typed, Partition
          <6> QED BY <1>2, <5>1, <6>1, <6>2, DatedLater DEF Typed
        <5>3. CASE m = job.to
          <6>1. flash'[k][m] = c /\ flash[k][m] = b
            BY <1>5, <1>7, <3>2, <5>3 DEF Replaced
          <6>2. b \in BlockType /\ Record.n = served /\ served \in Nat
            BY <1>2, <1>3, <1>5 DEF Record, Typed
          <6>3. /\ acked[k] \subseteq Nat /\ \A n \in acked[k] : n < served
            BY <1>2, <4>1 DEF OrderedLog, Typed
          <6>4. b.recs # << >> => \A n \in acked[k] : n <= Last(b.recs).n
            <7>1. b.recs # << >> => ~job.first
              BY <2>2 DEF BlankBlock
            <7>2. ~job.first /\ acked[k] # {} => Holds(flash[JobLog][job.from], acked[k])
              BY <1>4, <1>10, <3>2 DEF Placed
            <7>3. ~job.first => job.to = job.from
              BY <1>4 DEF Placed
            <7> QED BY <1>5, <7>1, <7>2, <7>3 DEF Holds
          <6>5. Tidy(c, acked[k]) /\ Dated(c, served)
            BY <1>3, <2>2, <5>1, <6>1, <6>2, <6>3, <6>4, AppendKeepsOrder
          <6>6. Used(c) <= BlockUnits
            <7>1. Used(c) = Used(b) + job.len
              BY <1>3, <2>2, <6>2, AppendIs, UsedAppend DEF BlockType, Record
            <7>2. CASE job.first
              BY <1>3, <2>2, <7>1, <7>2, Constants, FlashAssumption DEF Job
            <7>3. CASE ~job.first
              BY <1>4, <1>5, <1>10, <7>1, <7>3 DEF Placed
            <7> QED BY <7>2, <7>3
          <6> QED BY <6>1, <6>5, <6>6
        <5> QED BY <5>2, <5>3
      <4> QED BY <1>2, <4>1, <4>2 DEF OrderedLog
    <3> QED BY <3>3, <3>4 DEF Ordered
  <2> QED BY <1>6, <2>1, <2>2
<1>12. acked' \in [Log -> SUBSET (1 .. served)] /\ events' \in 0 .. MaxEvents
  BY <1>2 DEF Typed
<1> QED BY <1>1, <1>2, <1>3, <1>6, <1>8, <1>9, <1>10, <1>11, <1>12, WriteStep

\* The write fails, and is given up.
LEMMA ProgramFailsStep ==
    ASSUME IInv, ProgramRecordFails, served' = served
    PROVE  IInv'
<1>1. PICK c \in CutProgram(flash[JobLog][job.to], Record, job.first) :
         PutBlock(job.to, c)
  BY DEF ProgramRecordFails
<1>2. /\ At("program") /\ Event /\ Typed /\ Switching /\ job' = IdleJob
      /\ acked' = acked /\ cmet' = cmet /\ pair' = pair /\ attempts' = attempts
  BY DEF ProgramRecordFails, cmetVars, IInv, Switching, At
<1>3. /\ JobLog \in Log /\ flash[JobLog] \in Partition /\ job \in Job /\ job.to \in Block
      /\ flash[JobLog][job.to] \in BlockType /\ job.first \in BOOLEAN
  BY <1>2, JobTypes
<1>4. c \in BlockType /\ (c.recs = flash[JobLog][job.to].recs \/ c.recs = << >>)
  BY <1>1, <1>3, CutProgramIs
<1>5. /\ Replaced(flash'[JobLog], flash[JobLog], job.to, c)
      /\ \A l \in Log : l # JobLog => flash'[l] = flash[l]
  BY <1>1, <1>2, <1>3, <1>4, PutIs
<1>6. Placed(job, flash[JobLog], acked[JobLog])
  BY <1>2 DEF IInv, LogsInv
<1>7. Good(flash'[JobLog], acked[JobLog])
  BY <1>1, <1>2, <1>3, <1>5, <1>6, CutKeeps DEF At
<1>8. Elsewhere /\ events' \in 0 .. MaxEvents /\ acked' \in [Log -> SUBSET (1 .. served)]
  BY <1>2, <1>5, EventIs DEF Elsewhere, Typed
<1>9. Ordered'
  BY <1>1, <1>2, <1>3, <1>4, <1>8, WriteOrdered
<1> QED BY <1>1, <1>2, <1>3, <1>4, <1>7, <1>8, <1>9, WriteStep

\* A retired block keeps its records.
LEMMA RetiredIs ==
    ASSUME NEW b \in BlockType
    PROVE  Retired(b) \in BlockType /\ Retired(b).recs = b.recs
BY DEF Retired, BlockType

\* The old block is retired.
LEMMA RetireStep ==
    ASSUME IInv, RetireBlock, served' = served
    PROVE  IInv'
<1>1. /\ At("retire") /\ PutBlock(job.from, Retired(flash[JobLog][job.from]))
      /\ Typed /\ Switching /\ job' = [job EXCEPT !.at = "written"]
      /\ acked' = acked /\ cmet' = cmet /\ pair' = pair
      /\ attempts' = attempts /\ events' = events
  BY DEF RetireBlock, GoTo, cmetVars, IInv, Switching, At
<1>2. /\ JobLog \in Log /\ flash[JobLog] \in Partition /\ job \in Job /\ job.from \in Block
      /\ flash[JobLog][job.from] \in BlockType /\ Record \in RecordType
  BY <1>1, JobTypes
<1>3. PICK c : c = Retired(flash[JobLog][job.from])
  OBVIOUS
<1>4. c \in BlockType /\ c.recs = flash[JobLog][job.from].recs /\ PutBlock(job.from, c)
  BY <1>1, <1>2, <1>3, RetiredIs
<1>5. /\ Replaced(flash'[JobLog], flash[JobLog], job.from, c)
      /\ \A l \in Log : l # JobLog => flash'[l] = flash[l]
  BY <1>1, <1>2, <1>4, PutIs
<1>6. Placed(job, flash[JobLog], acked[JobLog])
  BY <1>1 DEF IInv, LogsInv
<1>7. job' \in Job /\ job'.at = "written" /\ SameWrite /\ Switching'
      /\ job'.from = job.from /\ job'.to = job.to
      /\ job'.first = job.first /\ job'.sound = job.sound
  BY <1>1, <1>2 DEF Job, SameWrite, Switching
<1>8. ASSUME job.sound
      PROVE  /\ First(flash'[JobLog], job.to) /\ flash'[JobLog][job.to].recs # << >>
             /\ Last(flash'[JobLog][job.to].recs).n = job.n
  BY <1>1, <1>2, <1>3, <1>5, <1>6, <1>8, RetireKeeps, ZenonT(60) DEF At, Record
<1>9. Placed(job', flash'[JobLog], acked[JobLog])
  <2>1. /\ job.to = job.from \/ job.to = GetNextWriteBlock(job.from)
        /\ job.to # job.from => job.first
        /\ ~job.sound => acked[JobLog] = {}
    BY <1>6 DEF Placed
  <2> QED BY <1>7, <1>8, <2>1 DEF Placed, SameWrite
<1>10. Elsewhere /\ events' \in 0 .. MaxEvents /\ acked' \in [Log -> SUBSET (1 .. served)]
  BY <1>1, <1>5 DEF Elsewhere, Typed
<1>11. Ordered'
  BY <1>1, <1>2, <1>4, <1>7, <1>10, WriteOrdered
<1> QED BY <1>1, <1>2, <1>4, <1>7, <1>9, <1>10, <1>11, WriteStep

\* The retirement fails, and nobody is told.
LEMMA RetireFailsStep ==
    ASSUME IInv, RetireBlockFails, served' = served
    PROVE  IInv'
<1>1. PICK c \in {flash[JobLog][job.from], Retired(flash[JobLog][job.from])} :
         PutBlock(job.from, c)
  BY DEF RetireBlockFails
<1>2. /\ At("retire") /\ Event /\ Forget /\ Typed /\ Switching
      /\ job' = [job EXCEPT !.at = "written", !.sound = FALSE]
      /\ cmet' = cmet /\ pair' = pair /\ attempts' = attempts
  BY DEF RetireBlockFails, cmetVars, IInv, Switching, At
<1>3. /\ JobLog \in Log /\ job \in Job /\ job.from \in Block
      /\ flash[JobLog][job.from] \in BlockType
  BY <1>2, JobTypes
<1>4. c \in BlockType /\ c.recs = flash[JobLog][job.from].recs
  BY <1>1, <1>3, RetiredIs
<1>5. \A l \in Log : l # JobLog => flash'[l] = flash[l]
  BY <1>1, <1>2, <1>3, <1>4, PutIs
<1>6. Placed(job, flash[JobLog], acked[JobLog])
  BY <1>2 DEF IInv, LogsInv
<1>7. job' \in Job /\ job'.at = "written" /\ SameWrite /\ Switching'
      /\ job'.from = job.from /\ job'.to = job.to
      /\ job'.first = job.first /\ job'.sound = FALSE
  BY <1>2, <1>3 DEF Job, SameWrite, Switching
<1>8. /\ acked' \in [Log -> SUBSET (1 .. served)] /\ acked'[JobLog] = {}
      /\ \A l \in Log : l # JobLog => acked'[l] = acked[l]
  BY <1>2, ForgetIs
<1>9. Placed(job', flash'[JobLog], {})
  <2>1. /\ job.to = job.from \/ job.to = GetNextWriteBlock(job.from)
        /\ job.to # job.from => job.first
    BY <1>6 DEF Placed
  <2> QED BY <1>7, <2>1 DEF Placed
<1>10. Elsewhere /\ events' \in 0 .. MaxEvents
  BY <1>2, <1>5, <1>8, EventIs DEF Elsewhere
<1>11. Ordered'
  BY <1>1, <1>2, <1>3, <1>4, <1>7, <1>8, <1>10, WriteOrdered
<1> QED BY <1>1, <1>2, <1>3, <1>4, <1>7, <1>8, <1>9, <1>10, <1>11, WriteStep

\* The next socket in turn.
LEMMA NextSocketIs ==
    ASSUME Typed, job.sock # job.last
    PROVE  job.sock + 1 \in Socket /\ job.sock + 1 <= job.last
<1>1. job.sock \in Socket /\ job.last \in Socket /\ job.sock <= job.last
  BY DEF Typed, Job
<1> QED BY <1>1, StorageAssumption DEF Socket

\* The record is acknowledged: it is the last of the active block.
LEMMA WrittenStep ==
    ASSUME IInv, RecordWritten, served' = served
    PROVE  IInv'
<1>1. /\ At("written") /\ Typed /\ Switching /\ Ordered /\ LogsInv /\ CmetInv
      /\ acked' = IF job.sound THEN [acked EXCEPT ![JobLog] = @ \union {job.n}] ELSE acked
      /\ job' = IF job.sock = job.last THEN IdleJob
                ELSE [job EXCEPT !.at = "place", !.sock = @ + 1, !.sound = TRUE]
      /\ flash' = flash /\ cmet' = cmet /\ pair' = pair
      /\ attempts' = attempts /\ events' = events
  BY DEF RecordWritten, cmetVars, IInv, Switching, At
<1>2. /\ JobLog \in Log /\ flash[JobLog] \in Partition /\ job \in Job
      /\ IdleJob \in Job /\ IdleJob.sock <= IdleJob.last
  BY <1>1, JobTypes
<1>3. job.n = served /\ served \in Nat /\ served # 0 /\ acked \in [Log -> SUBSET (1 .. served)]
  BY <1>1 DEF Typed, At
<1>4. PICK k \in Log : k = JobLog
  BY <1>2
<1>5. /\ acked' \in [Log -> SUBSET (1 .. served)]
      /\ acked'[k] = IF job.sound THEN acked[k] \union {served} ELSE acked[k]
      /\ \A l \in Log : l # k => acked'[l] = acked[l]
  <2>1. acked[k] \union {served} \in SUBSET (1 .. served)
    BY <1>3
  <2> QED BY <1>1, <1>3, <1>4, <2>1
<1>6. job' \in Job /\ job'.sock <= job'.last
  <2>1. CASE job.sock = job.last
    BY <1>1, <1>2, <2>1
  <2>2. CASE job.sock # job.last
    BY <1>1, <1>2, <2>2, NextSocketIs DEF Job
  <2> QED BY <2>1, <2>2
<1>7. \/ job' = IdleJob
      \/ /\ job'.at = "place" /\ job'.part = job.part /\ job'.sock = job.sock + 1
         /\ job'.n = job.n /\ job'.sound = TRUE
  BY <1>1, <1>2 DEF Job
<1>8. ~Switching' /\ ~InCmet' /\ ~InCmet /\ (At("place")' => job'.sound)
  BY <1>1, <1>7 DEF IdleJob, Switching, InCmet, At
<1>9. Typed'
  <2>1. ~At("idle")' => job'.n = served' /\ served' # 0
    BY <1>3, <1>7 DEF IdleJob, At
  <2>2. acked' \in [Log -> SUBSET (1 .. served')]
    BY <1>5
  <2> QED BY <1>1, <1>6, <2>1, <2>2 DEF Typed
<1>10. CmetInv'
  BY <1>1, <1>8, CmetFrame
<1>11. LogsInv'
  <2>1. Placed(job, flash[k], acked[k])
    BY <1>1, <1>4 DEF LogsInv
  <2>2. Good(flash[k], acked'[k])
    <3>1. CASE job.sound
      <4>1. /\ job.to \in Block /\ First(flash[k], job.to)
            /\ flash[k][job.to].recs # << >> /\ Last(flash[k][job.to].recs).n = served
        BY <1>1, <1>2, <1>3, <2>1, <3>1 DEF Placed, At, Job
      <4>2. \A n \in acked'[k] : n <= served
        BY <1>3, <1>5
      <4>3. Holds(flash[k][job.to], acked'[k])
        BY <4>1, <4>2 DEF Holds, First
      <4> QED BY <4>1, <4>3 DEF Good
    <3>2. CASE ~job.sound
      BY <1>5, <2>1, <3>2 DEF Placed, Good
    <3> QED BY <3>1, <3>2
  <2>3. \A l \in Log : l # k => flash'[l] = flash[l] /\ acked'[l] = acked[l]
    BY <1>1, <1>5
  <2>4. Good(flash'[k], acked'[k])
    BY <1>1, <2>2
  <2> QED BY <1>1, <1>4, <1>8, <2>3, <2>4, LogsStep
<1>12. Ordered'
  <2>1. k[1] = job.part /\ k[2] = job.sock /\ job.sock \in Nat
    BY <1>2, <1>4 DEF JobLog, Job, Socket
  <2>2. \A l \in Log : l[2] \in Nat
    BY DEF Log, Socket
  <2>3. ASSUME NEW l \in Log
        PROVE  /\ Unwritten(l)' => Unwritten(l) /\ l # k
               /\ Unanswered(l)' => Unanswered(l) /\ l # k
    <3>1. CASE job' = IdleJob
      BY <3>1 DEF IdleJob, Unwritten, Unanswered, Switching, At
    <3>2. CASE /\ job'.at = "place" /\ job'.part = job.part /\ job'.sock = job.sock + 1
      BY <1>1, <2>1, <2>2, <3>2 DEF Unwritten, Unanswered, At
    <3> QED BY <1>7, <3>1, <3>2
  <2>4. ASSUME NEW l \in Log, l # k PROVE OrderedLog(l)'
    <3>1. OrderedLog(l) /\ flash'[l] = flash[l] /\ acked'[l] = acked[l]
      BY <1>1, <1>5, <2>4 DEF Ordered
    <3> QED BY <1>1, <2>3, <3>1, OrderedKept
  <2>5. OrderedLog(k)'
    <3>1. OrderedLog(k) /\ ~Unwritten(k)' /\ ~Unanswered(k)'
      BY <1>1, <2>3 DEF Ordered
    <3>2. ASSUME NEW i \in Block
          PROVE  Used(flash[k][i]) <= BlockUnits /\ Tidy(flash[k][i], acked'[k])
                 /\ Dated(flash[k][i], served)
      <4>1. PICK b \in BlockType : b = flash[k][i]
        BY <1>1 DEF Typed, Partition
      <4>2. Used(b) <= BlockUnits /\ Tidy(b, acked[k])
            /\ Dated(b, IF Unwritten(k) THEN served - 1 ELSE served)
        BY <3>1, <4>1 DEF OrderedLog
      <4>3. Dated(b, served)
        BY <1>3, <4>2, DatedLater
      <4>4. Tidy(b, acked'[k])
        <5>1. \A m \in 1 .. Len(b.recs) : b.recs[m] \in RecordType
          BY DEF BlockType
        <5>2. \A m \in 1 .. Len(b.recs) - 1 :
                 /\ b.recs[m + 1].n \in Nat /\ b.recs[m + 1].n <= served
          BY <4>3, <5>1 DEF Dated, RecordType, BlockType
        <5>3. \A m \in 1 .. Len(b.recs) - 1 : ~(served < b.recs[m + 1].n)
          BY <1>3, <5>2
        <5>4. acked'[k] \subseteq acked[k] \union {served}
          BY <1>5
        <5> QED BY <4>2, <5>3, <5>4 DEF Tidy
      <4> QED BY <4>1, <4>2, <4>3, <4>4
    <3> QED BY <1>1, <3>1, <3>2 DEF OrderedLog
  <2> QED BY <2>4, <2>5 DEF Ordered
<1> QED BY <1>9, <1>10, <1>11, <1>12 DEF IInv

(***************************************************************************)
(* ErasePartition, the requests, CmetWriteRecord and the loss of power.    *)
(***************************************************************************)
\* A step of an erase of the partition, whole or cut short.
LEMMA WipeStep ==
    ASSUME IInv, At("wipe"), Forget, job' = NextSocketToErase,
           NEW q \in Partition, flash' = [flash EXCEPT ![JobLog] = q],
           \A i \in Block : q[i] = flash[JobLog][i] \/ q[i].recs = << >>,
           cmet' = cmet, pair' = pair, attempts' = attempts, served' = served,
           events' \in 0 .. MaxEvents
    PROVE  IInv'
<1>1. Typed /\ LogsInv /\ CmetInv /\ ~Switching /\ ~InCmet
  BY DEF IInv, Switching, InCmet, At
<1>2. /\ JobLog \in Log /\ job \in Job /\ IdleJob \in Job /\ IdleJob.sock <= IdleJob.last
  BY <1>1, JobTypes
<1>3. /\ acked' \in [Log -> SUBSET (1 .. served)] /\ acked'[JobLog] = {}
      /\ \A l \in Log : l # JobLog => acked'[l] = acked[l]
  BY <1>1, ForgetIs
<1>4. PICK k \in Log : k = JobLog
  BY <1>2
<1>5. /\ flash' \in [Log -> Partition] /\ flash'[k] = q
      /\ \A l \in Log : l # k => flash'[l] = flash[l]
  BY <1>1, <1>4 DEF Typed
<1>6. job' \in Job /\ job'.sock <= job'.last
  <2>1. CASE job.sock = job.last
    BY <1>2, <2>1 DEF NextSocketToErase
  <2>2. CASE job.sock # job.last
    BY <1>1, <1>2, <2>2, NextSocketIs DEF NextSocketToErase, Job
  <2> QED BY <2>1, <2>2
<1>7. job' = IdleJob \/ (job'.at = "wipe" /\ job'.n = job.n)
  BY <1>2 DEF NextSocketToErase, Job, At
<1>8. ~Switching' /\ ~InCmet' /\ ~At("place")'
  BY <1>7 DEF IdleJob, Switching, InCmet, At
<1>9. Typed'
  <2>1. ~At("idle")' => job'.n = served' /\ served' # 0
    BY <1>1, <1>7 DEF IdleJob, At, Typed
  <2>2. acked' \in [Log -> SUBSET (1 .. served')]
    BY <1>3
  <2> QED BY <1>1, <1>5, <1>6, <2>1, <2>2 DEF Typed
<1>10. CmetInv'
  BY <1>1, <1>8, CmetFrame
<1>11. LogsInv'
  <2>1. \A l \in Log : Good(flash'[l], acked'[l])
    BY <1>1, <1>3, <1>4, <1>5 DEF LogsInv, Good
  <2> QED BY <1>8, <2>1 DEF LogsInv
<1>12. Ordered'
  <2>1. \A l \in Log : ~Unwritten(l)' /\ ~Unanswered(l)'
    BY <1>8 DEF Unwritten, Unanswered
  <2>2. \A l \in Log : acked'[l] \subseteq acked[l]
    BY <1>3, <1>4
  <2>3. \A l \in Log, i \in Block : \/ flash'[l][i].recs = flash[l][i].recs
                                    \/ flash'[l][i].recs = << >>
    BY <1>4, <1>5
  <2> QED BY <2>1, <2>2, <2>3, OrderedFrame
<1> QED BY <1>9, <1>10, <1>11, <1>12 DEF IInv

LEMMA EraseWholeStep ==
    ASSUME IInv, ErasePartition, served' = served
    PROVE  IInv'
<1> DEFINE q == [i \in Block |-> BlankBlock]
<1>1. /\ At("wipe") /\ Forget /\ job' = NextSocketToErase
      /\ flash' = [flash EXCEPT ![JobLog] = q]
      /\ cmet' = cmet /\ pair' = pair /\ attempts' = attempts /\ events' = events
  BY DEF ErasePartition, cmetVars
<1>2. q \in Partition /\ \A i \in Block : q[i].recs = << >>
  BY Constants DEF Partition, BlankBlock
<1>3. events' \in 0 .. MaxEvents
  BY <1>1 DEF IInv, Typed
<1> QED BY <1>1, <1>2, <1>3, WipeStep

LEMMA EraseCutStep ==
    ASSUME IInv, ErasePartitionFails, served' = served
    PROVE  IInv'
<1>1. PICK q \in CutErasePartition(flash[JobLog]) :
         flash' = [flash EXCEPT ![JobLog] = q]
  BY DEF ErasePartitionFails
<1>2. /\ At("wipe") /\ Forget /\ Event /\ job' = NextSocketToErase /\ Typed
      /\ cmet' = cmet /\ pair' = pair /\ attempts' = attempts
  BY DEF ErasePartitionFails, cmetVars, IInv
<1>3. q \in Partition /\ \A i \in Block : q[i] = flash[JobLog][i] \/ q[i].recs = << >>
  BY <1>1, <1>2, JobTypes, CutWipeIs
<1>4. events' \in 0 .. MaxEvents
  BY <1>2, EventIs
<1> QED BY <1>1, <1>2, <1>3, <1>4, WipeStep

\* A request comes in: its record is newer than all there are.
LEMMA RequestStep ==
    ASSUME IInv, NEW j \in Job, j.sock <= j.last, NewRequest(j),
           j.at \in {"place", "wipe", "cmet_erase", "cmet_program"},
           j.at = "place" => j.sound, pair' \in 0 .. served, attempts' \in Nat
    PROVE  Typed' /\ Ordered' /\ LogsInv'
<1>1. /\ At("idle") /\ served' = served + 1 /\ job' = [j EXCEPT !.n = served + 1]
      /\ flash' = flash /\ acked' = acked /\ cmet' = cmet /\ events' = events
  BY DEF NewRequest, logVars
<1>2. Typed /\ LogsInv /\ Ordered /\ ~Switching /\ served \in Nat
  BY <1>1 DEF IInv, Switching, At, Typed
<1>3. /\ job' \in Job /\ job'.at = j.at /\ job'.sound = j.sound /\ job'.n = served'
      /\ job'.sock <= job'.last
  BY <1>1, <1>2 DEF Job
<1>4. Typed'
  <2>1. 1 .. served \subseteq 1 .. served' /\ 0 .. served \subseteq 0 .. served'
        /\ served' \in Nat /\ served' # 0
    BY <1>1, <1>2
  <2>2. acked' \in [Log -> SUBSET (1 .. served')]
    BY <1>1, <1>2, <2>1 DEF Typed
  <2> QED BY <1>1, <1>2, <1>3, <2>1, <2>2 DEF Typed
<1>5. LogsInv'
  <2>1. \A l \in Log : Good(flash'[l], acked'[l])
    BY <1>1, <1>2 DEF LogsInv
  <2>2. ~Switching' /\ (At("place")' => job'.sound)
    BY <1>3 DEF Switching, At
  <2> QED BY <2>1, <2>2 DEF LogsInv
<1>6. ASSUME NEW l \in Log PROVE OrderedLog(l)'
  <2>1. OrderedLog(l)
    BY <1>2 DEF Ordered
  <2>2. \A n \in acked'[l] : n < served'
    <3>1. acked[l] \subseteq 1 .. served
      BY <1>2 DEF Typed
    <3> QED BY <1>1, <1>2, <3>1
  <2>3. ASSUME NEW i \in Block
        PROVE  Used(flash[l][i]) <= BlockUnits /\ Tidy(flash[l][i], acked[l])
               /\ Dated(flash[l][i], served) /\ Dated(flash[l][i], served + 1)
    <3>1. PICK b \in BlockType : b = flash[l][i]
      BY <1>2 DEF Typed, Partition
    <3>2. Used(b) <= BlockUnits /\ Tidy(b, acked[l])
          /\ Dated(b, IF Unwritten(l) THEN served - 1 ELSE served)
      BY <2>1, <3>1 DEF OrderedLog
    <3>3. Dated(b, served)
      BY <1>2, <3>2, DatedLater
    <3>4. served + 1 \in Nat /\ served = (served + 1) - 1
      BY <1>2
    <3>5. Dated(b, served + 1)
      BY <3>3, <3>4, DatedLater
    <3> QED BY <3>1, <3>2, <3>3, <3>5
  <2>4. served' = served + 1 /\ served' - 1 = served
    BY <1>1, <1>2
  <2> QED BY <1>1, <2>2, <2>3, <2>4 DEF OrderedLog
<1> QED BY <1>4, <1>5, <1>6 DEF Ordered

\* Requests for the logs.
LEMMA LogRequestStep ==
    ASSUME IInv, \/ \E s \in RasSockets, len \in RasSizes : RasLogWrite(s, len)
                 \/ EarlyVarsWrite
                 \/ EraseEarlyVarsPartition
    PROVE  IInv'
<1>1. \E j \in Job : /\ NewRequest(j) /\ j.sock <= j.last /\ j.sound
                     /\ j.at \in {"place", "wipe"} /\ pair' = pair /\ attempts' = attempts
  <2>1. IdleJob \in Job /\ 1 \in Socket /\ NumSockets \in Socket /\ 1 <= NumSockets
    BY JobTypes, StorageAssumption DEF IInv, Socket
  <2>2. ASSUME NEW s \in RasSockets, NEW len \in RasSizes, RasLogWrite(s, len)
        PROVE  \E j \in Job : /\ NewRequest(j) /\ j.sock <= j.last /\ j.sound
                     /\ j.at \in {"place", "wipe"} /\ pair' = pair /\ attempts' = attempts
    <3> DEFINE j == [IdleJob EXCEPT !.at = "place", !.sock = s, !.last = s, !.len = len]
    <3>1. s \in Socket /\ len \in 1 .. BlockUnits /\ s <= s
      BY CommAssumption, StorageAssumption DEF Socket
    <3>2. j \in Job /\ j.sock <= j.last /\ j.sound /\ j.at = "place"
      BY <2>1, <3>1 DEF Job, IdleJob
    <3>3. NewRequest(j) /\ pair' = pair /\ attempts' = attempts
      BY <2>2 DEF RasLogWrite
    <3> QED BY <3>2, <3>3
  <2>3. ASSUME EarlyVarsWrite
        PROVE  \E j \in Job : /\ NewRequest(j) /\ j.sock <= j.last /\ j.sound
                     /\ j.at \in {"place", "wipe"} /\ pair' = pair /\ attempts' = attempts
    <3> DEFINE j == [IdleJob EXCEPT !.at = "place", !.part = "early",
                                    !.last = NumSockets, !.len = EarlySize]
    <3>1. j \in Job /\ j.sock <= j.last /\ j.sound /\ j.at = "place"
      BY <2>1, CommAssumption DEF Job, IdleJob
    <3>2. NewRequest(j) /\ pair' = pair /\ attempts' = attempts
      BY <2>3 DEF EarlyVarsWrite
    <3> QED BY <3>1, <3>2
  <2>4. ASSUME EraseEarlyVarsPartition
        PROVE  \E j \in Job : /\ NewRequest(j) /\ j.sock <= j.last /\ j.sound
                     /\ j.at \in {"place", "wipe"} /\ pair' = pair /\ attempts' = attempts
    <3> DEFINE j == [IdleJob EXCEPT !.at = "wipe", !.part = "early", !.last = NumSockets]
    <3>1. j \in Job /\ j.sock <= j.last /\ j.sound /\ j.at = "wipe"
      BY <2>1 DEF Job, IdleJob
    <3>2. NewRequest(j) /\ pair' = pair /\ attempts' = attempts
      BY <2>4 DEF EraseEarlyVarsPartition
    <3> QED BY <3>1, <3>2
  <2> QED BY <2>2, <2>3, <2>4
<1>2. PICK j \in Job : /\ NewRequest(j) /\ j.sock <= j.last /\ j.sound
                       /\ j.at \in {"place", "wipe"} /\ pair' = pair /\ attempts' = attempts
  BY <1>1
<1>3. pair' \in 0 .. served /\ attempts' \in Nat
  BY <1>2 DEF IInv, Typed
<1>4. Typed' /\ Ordered' /\ LogsInv'
  BY <1>2, <1>3, RequestStep
<1>5. CmetInv'
  <2>1. At("idle") /\ cmet' = cmet /\ job'.at = j.at
    BY <1>2 DEF NewRequest, Job
  <2>2. ~InCmet /\ ~InCmet'
    BY <1>2, <2>1 DEF InCmet, At
  <2> QED BY <1>2, <2>1, <2>2, CmetFrame DEF IInv
<1> QED BY <1>4, <1>5 DEF IInv

\* A request to write the CMET record.
LEMMA CmetRequestStep ==
    ASSUME IInv, NEW erase \in BOOLEAN, CmetWrite(erase)
    PROVE  IInv'
<1> DEFINE kept == erase \/ \A c \in Copy : cmet[c] = BlankCopy
           j == [IdleJob EXCEPT !.at = IF erase THEN "cmet_erase" ELSE "cmet_program",
                                !.erase = erase, !.sound = kept]
<1>1. /\ NewRequest(j) /\ pair' = (IF kept THEN pair ELSE 0) /\ attempts' = attempts + 1
  BY DEF CmetWrite
<1>2. IdleJob \in Job /\ IdleJob.sock <= IdleJob.last /\ Typed /\ CmetInv
  BY JobTypes DEF IInv
<1>3. kept \in BOOLEAN
  OBVIOUS
<1> HIDE DEF kept
<1>4. /\ j \in Job /\ j.sock <= j.last /\ j.to = 1 /\ j.erase = erase /\ j.sound = kept
      /\ j.at = IF erase THEN "cmet_erase" ELSE "cmet_program"
  BY <1>2, <1>3 DEF Job, IdleJob
<1> HIDE DEF j
<1>5. pair' \in 0 .. served /\ attempts' \in Nat /\ attempts' # 0
      /\ pair \in Nat /\ attempts \in Nat
  BY <1>1, <1>2 DEF Typed
<1>6. Typed' /\ Ordered' /\ LogsInv'
  BY <1>1, <1>4, <1>5, RequestStep
<1>7. CmetInv'
  <2>1. /\ At("idle") /\ cmet' = cmet /\ job'.to = 1 /\ job'.erase = erase
        /\ job'.sound = kept
        /\ job'.at = IF erase THEN "cmet_erase" ELSE "cmet_program"
    BY <1>1, <1>4 DEF NewRequest, Job
  <2>2. 1 \in Copy /\ 2 \in Copy /\ \A c \in Copy : c = 1 \/ c = 2
    BY DEF Copy
  <2>3. ASSUME pair' # 0, attempts' = 1 PROVE erase /\ Kept(1)' /\ Kept(2)'
    <3>1. pair' = pair /\ kept /\ attempts = 0
      BY <1>1, <1>5, <2>3
    <3>2. \A c \in Copy : Kept(c)
      BY <1>2, <2>3, <3>1 DEF CmetInv
    <3>3. ~(\A c \in Copy : cmet[c] = BlankCopy)
      BY <2>2, <3>2 DEF Kept, BlankCopy
    <3>4. erase
      BY <3>1, <3>3 DEF kept
    <3> QED BY <2>1, <2>2, <3>1, <3>2, <3>4 DEF Kept
  <2>4. ~kept => pair' = 0
    BY <1>1
  <2>5. kept /\ ~erase => \A c \in Copy : cmet[c] = BlankCopy
    BY DEF kept
  <2>6. InCmet'
    BY <2>1 DEF InCmet
  <2>7. /\ InCmet' => job'.to \in Copy /\ attempts' # 0
        /\ pair' # 0 /\ attempts' = 0 => \A c \in Copy : Kept(c)'
        /\ pair' # 0 /\ attempts' = 1 => job'.erase /\ (job'.to = 1 => Kept(2)')
        /\ InCmet' /\ ~job'.sound => pair' = 0
        /\ ~(job'.to = 2)
    BY <1>5, <2>1, <2>2, <2>3, <2>4
  <2>8. At("cmet_program")' /\ job'.sound => cmet'[job'.to] = BlankCopy
    BY <2>1, <2>2, <2>5 DEF At
  <2>9. InCmet' /\ job'.sound /\ ~job'.erase =>
          \A c \in Copy : c >= job'.to => cmet'[c] = BlankCopy
    BY <2>1, <2>5
  <2>10. At("cmet_erase")' => job'.erase
    BY <2>1 DEF At
  <2> QED BY <2>6, <2>7, <2>8, <2>9, <2>10 DEF CmetInv
<1> QED BY <1>6, <1>7 DEF IInv

\* While one copy is rewritten, the other is kept: the old one, or the new one.
LEMMA OtherCopyKept ==
    ASSUME Typed, CmetInv, InCmet, NEW next,
           \A c \in Copy : c # job.to => next[c] = cmet[c]
    PROVE  pair # 0 /\ attempts = 1 =>
              \E c \in Copy : next[c].state = "whole" /\ next[c].n >= pair
<1> SUFFICES ASSUME pair # 0, attempts = 1
             PROVE  \E c \in Copy : next[c].state = "whole" /\ next[c].n >= pair
  OBVIOUS
<1>1. 1 \in Copy /\ 2 \in Copy /\ job.to \in Copy
  BY DEF Copy, CmetInv
<1>2. CASE job.to = 1
  <2>1. Kept(2) /\ next[2] = cmet[2]
    BY <1>1, <1>2 DEF CmetInv
  <2> QED BY <1>1, <2>1 DEF Kept
<1>3. CASE job.to = 2
  <2>1. job.sound
    BY DEF CmetInv
  <2>2. cmet[1] = Whole(served) /\ next[1] = cmet[1]
    BY <1>1, <1>3, <2>1 DEF CmetInv
  <2>3. served >= pair
    BY DEF Typed
  <2> QED BY <1>1, <2>2, <2>3 DEF Whole
<1> QED BY <1>1, <1>2, <1>3 DEF Copy

\* A write of the CMET record that is given up, or cut short.
LEMMA CmetGivenUp ==
    ASSUME Typed, CmetInv, InCmet, \A c \in Copy : c # job.to => cmet'[c] = cmet[c],
           job' = IdleJob, pair' = pair, attempts' = attempts
    PROVE  CmetInv'
<1>1. ~InCmet' /\ ~At("cmet_program")' /\ ~At("cmet_erase")'
  BY DEF IdleJob, InCmet, At
<1>2. attempts' # 0
  BY DEF CmetInv
<1>3. PICK next : next = cmet'
  OBVIOUS
<1>4. pair' # 0 /\ attempts' = 1 => \E c \in Copy : Kept(c)'
  BY <1>3, OtherCopyKept DEF Kept
<1> QED BY <1>1, <1>2, <1>4 DEF CmetInv

\* A step of CmetWriteRecord.
LEMMA CmetStep ==
    ASSUME IInv, CmetWriteRecord, served' = served
    PROVE  IInv'
<1>1. /\ Typed /\ CmetInv /\ InCmet /\ job \in Job /\ job.to \in Copy /\ job.n = served
      /\ served \in Nat /\ served # 0
      /\ IdleJob \in Job /\ IdleJob.sock <= IdleJob.last
      /\ cmet \in [Copy -> [state : {"blank", "torn", "whole"}, n : Nat]]
  <2>1. Typed /\ CmetInv /\ InCmet
    BY DEF IInv, CmetWriteRecord, EraseRecord, EraseRecordFails, ProgramCopy,
           ProgramCopyFails, InCmet, At
  <2> QED BY <2>1, JobTypes DEF CmetInv, Typed, InCmet, At
<1>2. 1 \in Copy /\ 2 \in Copy /\ (\A c \in Copy : c = 1 \/ c = 2) /\ Copy \subseteq Block
  BY Constants DEF Copy
<1>3. \A n \in Nat : /\ BlankCopy \in [state : {"blank", "torn", "whole"}, n : Nat]
                     /\ TornCopy \in [state : {"blank", "torn", "whole"}, n : Nat]
                     /\ Whole(n) \in [state : {"blank", "torn", "whole"}, n : Nat]
  BY DEF BlankCopy, TornCopy, Whole
<1>4. ASSUME flash' = flash, acked' = acked, events' \in 0 .. MaxEvents,
             job' \in Job, job'.sock <= job'.last,
             job' = IdleJob \/ (job'.n = job.n /\ InCmet'),
             cmet' \in [Copy -> [state : {"blank", "torn", "whole"}, n : Nat]],
             pair' \in 0 .. served, attempts' \in Nat, CmetInv'
      PROVE  IInv'
  <2>1. ~Switching /\ ~Switching' /\ ~At("place")'
    BY <1>1, <1>4 DEF IdleJob, InCmet, Switching, At
  <2>2. Ordered' /\ LogsInv'
    BY <1>4, <2>1, LogsFrame
  <2>3. Typed'
    <3>1. ~At("idle")' => job'.n = served' /\ served' # 0
      BY <1>1, <1>4 DEF IdleJob, At
    <3> QED BY <1>1, <1>4, <3>1 DEF Typed
  <2> QED BY <1>4, <2>2, <2>3 DEF IInv
<1>5. CASE EraseRecord
  <2>1. /\ At("cmet_erase") /\ cmet' = [cmet EXCEPT ![job.to] = BlankCopy]
        /\ job' = [job EXCEPT !.at = "cmet_program"]
        /\ flash' = flash /\ acked' = acked /\ events' = events
        /\ pair' = pair /\ attempts' = attempts
    BY <1>5 DEF EraseRecord, PutCopy, GoTo, logVars
  <2>2. /\ job' \in Job /\ job'.at = "cmet_program" /\ job'.to = job.to /\ job'.n = job.n
        /\ job'.sound = job.sound /\ job'.erase = job.erase /\ job'.sock <= job'.last
    BY <1>1, <2>1 DEF Job, Typed
  <2>3. /\ cmet'[job.to] = BlankCopy /\ \A c \in Copy : c # job.to => cmet'[c] = cmet[c]
        /\ cmet' \in [Copy -> [state : {"blank", "torn", "whole"}, n : Nat]]
    BY <1>1, <1>3, <2>1
  <2>4. job.erase /\ InCmet' /\ ~At("cmet_erase")'
    BY <1>1, <2>1, <2>2 DEF CmetInv, InCmet, At
  <2>5. job.to = 1 => (Kept(2) => Kept(2)')
    BY <1>2, <2>1, <2>3 DEF Kept
  <2>6. job.to = 2 => cmet'[1] = cmet[1]
    BY <1>2, <2>3
  <2>7. CmetInv'
    BY <1>1, <2>1, <2>2, <2>3, <2>4, <2>5, <2>6 DEF CmetInv
  <2> QED BY <1>1, <1>4, <2>1, <2>2, <2>3, <2>4, <2>7 DEF Typed
<1>6. CASE EraseRecordFails \/ ProgramCopyFails
  <2>1. PICK c \in CutCopyErase(cmet[job.to]) \union CutCopyProgram(cmet[job.to]) :
           cmet' = [cmet EXCEPT ![job.to] = c]
    BY <1>6 DEF EraseRecordFails, ProgramCopyFails, PutCopy
  <2>2. /\ Event /\ job' = IdleJob /\ flash' = flash /\ acked' = acked
        /\ pair' = pair /\ attempts' = attempts
    BY <1>6 DEF EraseRecordFails, ProgramCopyFails, logVars
  <2>3. c \in [state : {"blank", "torn", "whole"}, n : Nat]
    BY <1>1, <1>3, <2>1 DEF CutCopyErase, CutCopyProgram
  <2>4. /\ \A d \in Copy : d # job.to => cmet'[d] = cmet[d]
        /\ cmet' \in [Copy -> [state : {"blank", "torn", "whole"}, n : Nat]]
    BY <1>1, <2>1, <2>3
  <2>5. CmetInv'
    BY <1>1, <2>2, <2>4, CmetGivenUp
  <2> QED BY <1>1, <1>4, <2>2, <2>4, <2>5, EventIs DEF Typed
<1>7. CASE ProgramCopy
  <2>1. /\ At("cmet_program")
        /\ cmet' = [cmet EXCEPT ![job.to] = CopyProgrammed(cmet[job.to], job.n)]
        /\ job' = (IF job.to = 2 THEN IdleJob ELSE NextCopyJob)
        /\ pair' = (IF job.to = 2 THEN (IF job.sound THEN job.n ELSE 0) ELSE pair)
        /\ attempts' = (IF job.to = 2 THEN 0 ELSE attempts)
        /\ flash' = flash /\ acked' = acked /\ events' = events
    BY <1>7 DEF ProgramCopy, PutCopy, logVars
  <2>2. CopyProgrammed(cmet[job.to], job.n) \in [state : {"blank", "torn", "whole"}, n : Nat]
    BY <1>1, <1>3 DEF CopyProgrammed
  <2>3. /\ cmet'[job.to] = CopyProgrammed(cmet[job.to], job.n)
        /\ \A c \in Copy : c # job.to => cmet'[c] = cmet[c]
        /\ cmet' \in [Copy -> [state : {"blank", "torn", "whole"}, n : Nat]]
    BY <1>1, <2>1, <2>2
  <2>4. job.sound => cmet'[job.to] = Whole(served)
    BY <1>1, <2>1, <2>3 DEF CmetInv, CopyProgrammed
  <2>5. CASE job.to = 2
    <3>1. /\ job' = IdleJob /\ pair' = (IF job.sound THEN served ELSE 0) /\ attempts' = 0
          /\ ~InCmet' /\ ~At("cmet_program")' /\ ~At("cmet_erase")'
      BY <1>1, <2>1, <2>5 DEF IdleJob, InCmet, At
    <3>2. job.sound => cmet'[1] = Whole(served) /\ cmet'[2] = Whole(served)
      BY <1>1, <1>2, <2>3, <2>4, <2>5 DEF CmetInv
    <3>3. pair' # 0 => \A c \in Copy : Kept(c)'
      BY <1>1, <1>2, <3>1, <3>2 DEF Kept, Whole
    <3>4. CmetInv'
      BY <3>1, <3>3 DEF CmetInv
    <3>5. pair' \in 0 .. served
      BY <1>1, <3>1
    <3> QED BY <1>1, <1>4, <2>1, <2>3, <3>1, <3>4, <3>5 DEF Typed
  <2>6. CASE job.to = 1
    <3>1. /\ job' = [job EXCEPT !.at = FirstCopyStep, !.to = @ + 1]
          /\ pair' = pair /\ attempts' = attempts
      BY <2>1, <2>6 DEF NextCopyJob
    <3>2. /\ job' \in Job /\ job'.at = FirstCopyStep /\ job'.to = 2 /\ job'.n = job.n
          /\ job'.sound = job.sound /\ job'.erase = job.erase /\ job'.sock <= job'.last
      <4>1. FirstCopyStep \in {"cmet_erase", "cmet_program"} /\ job.to + 1 = 2
            /\ 2 \in Block /\ job.sock <= job.last
        BY <1>1, <2>6, Constants DEF FirstCopyStep, Typed
      <4> HIDE DEF FirstCopyStep
      <4>2. job' = [job EXCEPT !.at = FirstCopyStep, !.to = 2]
        BY <1>1, <3>1, <4>1 DEF Job
      <4> QED BY <1>1, <4>1, <4>2 DEF Job
    <3>3. cmet'[2] = cmet[2] /\ (job.sound => cmet'[1] = Whole(served)) /\ InCmet'
      BY <1>2, <2>3, <2>4, <2>6, <3>2 DEF InCmet, FirstCopyStep
    <3>4. job.sound /\ ~job.erase => cmet'[2] = BlankCopy
      BY <1>1, <1>2, <2>6, <3>3 DEF CmetInv
    <3>5. /\ At("cmet_program")' => ~job.erase
          /\ At("cmet_erase")' => job.erase
      BY <3>2 DEF FirstCopyStep, At
    <3>6. ASSUME job.sound, ~job.erase PROVE \A c \in Copy : c >= 2 => cmet'[c] = BlankCopy
      BY <1>2, <3>4, <3>6
    <3>7. CmetInv'
      BY <1>1, <1>2, <3>1, <3>2, <3>3, <3>4, <3>5, <3>6 DEF CmetInv
    <3> QED BY <1>1, <1>4, <2>1, <2>3, <3>1, <3>2, <3>3, <3>7 DEF Typed
  <2> QED BY <1>1, <1>2, <2>5, <2>6
<1> QED BY <1>5, <1>6, <1>7 DEF CmetWriteRecord

\* What a loss of power leaves of a write.
LEMMA LossKeeps ==
    ASSUME IInv, NEW q \in LogsAfterLoss, Switching
    PROVE  Good(q, acked[JobLog])
<1> DEFINE p == flash[JobLog]
           A == acked[JobLog]
<1>1. Typed /\ Placed(job, p, A)
  BY DEF IInv, LogsInv
<1>2. /\ p \in Partition /\ job \in Job /\ JobLog \in Log /\ Record \in RecordType
      /\ job.to \in Block /\ job.from \in Block
  BY <1>1, JobTypes
<1>3. /\ job.n = served /\ served \in Nat /\ A \subseteq 1 .. served
  BY <1>1, <1>2 DEF Typed, Switching, At
<1>4. \A n \in A : n <= job.n
  BY <1>3
<1> HIDE DEF p, A
<1>5. CASE At("erase")
  <2>1. PICK c \in CutErase(p[job.to]) : Replaced(q, p, job.to, c)
    BY <1>1, <1>5, LossIs DEF At, p
  <2>2. q \in Partition
    BY <1>1, LossIs
  <2> QED BY <1>1, <1>2, <1>5, <2>1, <2>2, CutKeeps DEF At, A
<1>6. CASE At("program")
  <2>1. PICK c \in CutProgram(p[job.to], Record, job.first) : Replaced(q, p, job.to, c)
    BY <1>1, <1>6, LossIs DEF At, p
  <2> QED BY <1>1, <1>2, <1>6, <2>1, CutKeeps DEF At, A
<1>7. CASE At("retire")
  <2>1. q = p \/ Replaced(q, p, job.from, Retired(p[job.from]))
    BY <1>1, <1>7, LossIs DEF At, p
  <2>2. CASE q = p
    BY <1>1, <1>2, <1>4, <1>7, <2>2, BothFlagged DEF At, A, Record
  <2>3. CASE Replaced(q, p, job.from, Retired(p[job.from])) /\ job.sound
    <3>1. First(q, job.to) /\ q[job.to].recs # << >> /\ Last(q[job.to].recs).n = job.n
      BY <1>1, <1>2, <1>7, <2>3, RetireKeeps DEF At, Record
    <3>2. Holds(q[job.to], A)
      BY <1>4, <3>1 DEF Holds, First
    <3> QED BY <1>2, <3>1, <3>2 DEF Good, A
  <2>4. CASE ~job.sound
    BY <1>1, <2>4 DEF Placed, Good, A
  <2> QED BY <2>1, <2>2, <2>3, <2>4
<1>8. CASE At("written")
  <2>1. q = p
    BY <1>1, <1>8, LossIs DEF At, p
  <2>2. CASE job.sound
    <3>1. First(p, job.to) /\ p[job.to].recs # << >> /\ Last(p[job.to].recs).n = job.n
      BY <1>1, <1>8, <2>2 DEF Placed, At
    <3>2. Holds(p[job.to], A)
      BY <1>4, <3>1 DEF Holds, First
    <3> QED BY <1>2, <2>1, <3>1, <3>2 DEF Good, A
  <2>3. CASE ~job.sound
    BY <1>1, <2>3 DEF Placed, Good, A
  <2> QED BY <2>2, <2>3
<1> QED BY <1>5, <1>6, <1>7, <1>8 DEF Switching, At

\* No block of the log gains a record when power is lost.
LEMMA LossLoses ==
    ASSUME Typed, NEW q \in LogsAfterLoss, NEW i \in Block
    PROVE  q[i].recs = flash[JobLog][i].recs \/ q[i].recs = << >>
<1>1. /\ flash[JobLog] \in Partition /\ job.first \in BOOLEAN
      /\ job.to \in Block /\ job.from \in Block
      /\ flash[JobLog][job.to] \in BlockType /\ flash[JobLog][job.from] \in BlockType
  BY JobTypes
<1>2. CASE q = flash[JobLog]
  BY <1>2
<1>3. CASE At("erase")
  <2>1. PICK c \in CutErase(flash[JobLog][job.to]) : Replaced(q, flash[JobLog], job.to, c)
    BY <1>3, LossIs DEF At
  <2>2. c = flash[JobLog][job.to] \/ c.recs = << >>
    BY <1>1, CutEraseIs
  <2> QED BY <2>1, <2>2 DEF Replaced
<1>4. CASE At("program")
  <2>1. PICK c \in CutProgram(flash[JobLog][job.to], Record, job.first) :
           Replaced(q, flash[JobLog], job.to, c)
    BY <1>4, LossIs DEF At
  <2>2. c.recs = flash[JobLog][job.to].recs \/ c.recs = << >>
    BY <1>1, CutProgramIs
  <2> QED BY <2>1, <2>2 DEF Replaced
<1>5. CASE At("retire") /\ Replaced(q, flash[JobLog], job.from,
                                    Retired(flash[JobLog][job.from]))
  BY <1>1, <1>5, RetiredIs DEF Replaced
<1>6. CASE At("wipe") /\ q \in CutErasePartition(flash[JobLog])
  BY <1>1, <1>6, CutWipeIs
<1> QED BY <1>2, <1>3, <1>4, <1>5, <1>6, LossIs DEF At

\* Power is lost: the request is forgotten.
LEMMA PowerLossStep ==
    ASSUME IInv, PowerLoss
    PROVE  IInv'
<1>1. PICK q \in LogsAfterLoss : flash' = [flash EXCEPT ![JobLog] = q]
  BY DEF PowerLoss
<1>2. /\ Event /\ cmet' \in CopiesAfterLoss /\ job' = IdleJob
      /\ acked' = (IF At("wipe") THEN [acked EXCEPT ![JobLog] = {}] ELSE acked)
      /\ pair' = pair /\ attempts' = attempts /\ served' = served
      /\ Typed /\ Ordered /\ LogsInv /\ CmetInv
  BY DEF PowerLoss, IInv
<1>3. IdleJob \in Job /\ IdleJob.sock <= IdleJob.last
  BY <1>2, JobTypes
<1>4. PICK k \in Log : k = JobLog
  BY <1>2, JobTypes
<1>5. q \in Partition
  BY <1>2, LossIs
<1>6. /\ flash' \in [Log -> Partition] /\ flash'[k] = q
      /\ \A l \in Log : l # k => flash'[l] = flash[l]
  BY <1>1, <1>2, <1>4, <1>5 DEF Typed
<1>7. /\ acked' \in [Log -> SUBSET (1 .. served)]
      /\ acked'[k] = (IF At("wipe") THEN {} ELSE acked[k])
      /\ \A l \in Log : l # k => acked'[l] = acked[l]
  BY <1>2, <1>4, ForgetIs DEF Forget, Typed
<1>8. ~Switching' /\ ~InCmet' /\ ~At("place")' /\ At("idle")'
  BY <1>2 DEF IdleJob, Switching, InCmet, At
<1>9. /\ \A c \in Copy : ~InCmet \/ c # job.to => cmet'[c] = cmet[c]
      /\ cmet' \in [Copy -> [state : {"blank", "torn", "whole"}, n : Nat]]
  <2>1. cmet \in [Copy -> [state : {"blank", "torn", "whole"}, n : Nat]]
    BY <1>2 DEF Typed
  <2>2. CASE ~InCmet
    <3>1. cmet' \in {cmet}
      BY <1>2, <2>2 DEF CopiesAfterLoss, InCmet, At
    <3> QED BY <2>1, <3>1
  <2>3. CASE InCmet
    <3>1. cmet' \in {[cmet EXCEPT ![job.to] = c] :
                       c \in CutCopyErase(cmet[job.to]) \union CutCopyProgram(cmet[job.to])}
      BY <1>2, <2>3 DEF CopiesAfterLoss, InCmet, At
    <3>2. PICK c \in CutCopyErase(cmet[job.to]) \union CutCopyProgram(cmet[job.to]) :
             cmet' = [cmet EXCEPT ![job.to] = c]
      BY <3>1
    <3>3. job.to \in Copy
      BY <1>2, <2>3 DEF CmetInv
    <3>4. c \in [state : {"blank", "torn", "whole"}, n : Nat]
      BY <2>1, <3>2, <3>3 DEF CutCopyErase, CutCopyProgram, BlankCopy, TornCopy
    <3> QED BY <2>1, <2>3, <3>2, <3>4
  <2> QED BY <2>2, <2>3
<1>10. Typed'
  <2>1. events' \in 0 .. MaxEvents
    BY <1>2, EventIs
  <2>2. acked' \in [Log -> SUBSET (1 .. served')]
    BY <1>2, <1>7
  <2> QED BY <1>2, <1>3, <1>6, <1>8, <1>9, <2>1, <2>2 DEF Typed
<1>11. CmetInv'
  <2>1. CASE InCmet
    BY <1>2, <1>9, <2>1, CmetGivenUp
  <2>2. CASE ~InCmet
    <3>1. \A c \in Copy : cmet'[c] = cmet[c]
      BY <1>9, <2>2
    <3>2. cmet' = cmet
      BY <1>2, <2>2 DEF CopiesAfterLoss, InCmet, At
    <3> QED BY <1>2, <1>8, <2>2, <3>2, CmetFrame
  <2> QED BY <2>1, <2>2
<1>12. LogsInv'
  <2>1. Good(q, acked'[k])
    <3>1. CASE Switching
      <4>1. acked'[k] = acked[JobLog]
        BY <1>4, <1>7, <3>1 DEF Switching, At
      <4> QED BY <1>4, <3>1, <4>1, LossKeeps
    <3>2. CASE At("wipe")
      BY <1>7, <3>2 DEF Good
    <3>3. CASE ~Switching /\ ~At("wipe")
      <4>1. q = flash[k] /\ acked'[k] = acked[k]
        BY <1>2, <1>4, <1>7, <3>3, LossIs DEF Switching, At
      <4> QED BY <1>2, <3>3, <4>1 DEF LogsInv
    <3> QED BY <3>1, <3>2, <3>3
  <2>2. \A l \in Log : l # k => Good(flash'[l], acked'[l])
    BY <1>2, <1>4, <1>6, <1>7 DEF LogsInv
  <2> QED BY <1>6, <1>8, <2>1, <2>2 DEF LogsInv
<1>13. Ordered'
  <2>1. \A l \in Log : ~Unwritten(l)' /\ ~Unanswered(l)'
    BY <1>8 DEF Unwritten, Unanswered
  <2>2. \A l \in Log : acked'[l] \subseteq acked[l]
    BY <1>7
  <2>3. \A l \in Log, i \in Block : \/ flash'[l][i].recs = flash[l][i].recs
                                    \/ flash'[l][i].recs = << >>
    BY <1>2, <1>4, <1>6, LossLoses
  <2> QED BY <1>2, <2>1, <2>2, <2>3, OrderedFrame
<1> QED BY <1>10, <1>11, <1>12, <1>13 DEF IInv

(***************************************************************************)
(* The invariant holds at every moment, and implies the properties.        *)
(***************************************************************************)
\* Erased flash.
LEMMA InitInv == Init => IInv
<1> SUFFICES ASSUME Init PROVE IInv
  OBVIOUS
<1>1. /\ flash = [l \in Log |-> [i \in Block |-> BlankBlock]]
      /\ cmet = [c \in Copy |-> BlankCopy] /\ job = IdleJob /\ events = 0
      /\ acked = [l \in Log |-> {}] /\ pair = 0 /\ attempts = 0 /\ served = 0
  BY DEF Init
<1>2. IdleJob \in Job /\ IdleJob.sock <= IdleJob.last
  <2>1. 1 \in Socket /\ 1 \in 1 .. BlockUnits
    BY StorageAssumption, FlashAssumption DEF Socket
  <2> QED BY <2>1, Constants DEF IdleJob, Job
<1>3. BlankBlock \in BlockType /\ Used(BlankBlock) = 0 /\ Len(BlankBlock.recs) = 0
  BY Constants DEF BlankBlock
<1>4. Typed
  <2>1. flash \in [Log -> Partition]
    BY <1>1, <1>3 DEF Partition
  <2>2. cmet \in [Copy -> [state : {"blank", "torn", "whole"}, n : Nat]]
    BY <1>1 DEF BlankCopy
  <2>3. events \in 0 .. MaxEvents /\ pair \in 0 .. served /\ At("idle")
    BY <1>1, StorageAssumption DEF IdleJob, At
  <2>4. acked \in [Log -> SUBSET (1 .. served)]
    BY <1>1
  <2> QED BY <1>1, <1>2, <2>1, <2>2, <2>3, <2>4 DEF Typed
<1>5. ~Switching /\ ~InCmet /\ ~At("place") /\ At("idle")
  BY <1>1 DEF IdleJob, Switching, InCmet, At
<1>6. Ordered
  <2>1. ASSUME NEW l \in Log, NEW i \in Block
        PROVE  Used(flash[l][i]) <= BlockUnits /\ Tidy(flash[l][i], acked[l])
               /\ Dated(flash[l][i], IF Unwritten(l) THEN served - 1 ELSE served)
    <3>1. flash[l][i] = BlankBlock
      BY <1>1
    <3> QED BY <1>3, <3>1, FlashAssumption DEF Tidy, Dated
  <2>2. \A l \in Log : ~Unanswered(l)
    BY <1>5 DEF Unanswered
  <2> QED BY <2>1, <2>2 DEF Ordered, OrderedLog
<1>7. LogsInv
  <2>1. \A l \in Log : acked[l] = {}
    BY <1>1
  <2> QED BY <1>5, <2>1 DEF LogsInv, Good
<1>8. CmetInv
  BY <1>1, <1>5 DEF CmetInv, InCmet, At
<1> QED BY <1>4, <1>6, <1>7, <1>8 DEF IInv

\* Every step keeps the invariant.
LEMMA NextInv == IInv /\ [Next]_vars => IInv'
<1> SUFFICES ASSUME IInv, [Next]_vars PROVE IInv'
  OBVIOUS
<1>1. CASE Request
  <2>1. CASE \E erase \in BOOLEAN : CmetWrite(erase)
    BY <2>1, CmetRequestStep
  <2>2. CASE \/ \E s \in RasSockets, len \in RasSizes : RasLogWrite(s, len)
             \/ EarlyVarsWrite
             \/ EraseEarlyVarsPartition
    BY <2>2, LogRequestStep
  <2> QED BY <1>1, <2>1, <2>2 DEF Request
<1>2. CASE Serve
  <2>1. served' = served
    BY <1>2 DEF Serve
  <2>2. CASE WriteNextRecord
    BY <2>1, <2>2, PlaceStep, EraseStep, EraseFailsStep, ProgramStep, ProgramFailsStep,
       RetireStep, RetireFailsStep, WrittenStep DEF WriteNextRecord
  <2>3. CASE ErasePartition
    BY <2>1, <2>3, EraseWholeStep
  <2>4. CASE ErasePartitionFails
    BY <2>1, <2>4, EraseCutStep
  <2>5. CASE CmetWriteRecord
    BY <2>1, <2>5, CmetStep
  <2> QED BY <1>2, <2>2, <2>3, <2>4, <2>5 DEF Serve
<1>3. CASE PowerLoss
  BY <1>3, PowerLossStep
<1>4. CASE UNCHANGED vars
  <2>1. /\ flash' = flash /\ cmet' = cmet /\ job' = job /\ events' = events
        /\ acked' = acked /\ pair' = pair /\ attempts' = attempts /\ served' = served
    BY <1>4 DEF vars
  <2> QED BY <2>1 DEF IInv, Typed, Ordered, OrderedLog, LogsInv, CmetInv, At, Switching,
               InCmet, Unwritten, Unanswered, JobLog, Kept
<1> QED BY <1>1, <1>2, <1>3, <1>4 DEF Next

\* The invariant, from the start and through every step, failures and losses
\* of power included.
THEOREM LogsStayReadable == Spec => []IInv
<1>1. Init => IInv
  BY InitInv
<1>2. IInv /\ [Next]_vars => IInv'
  BY NextInv
<1> QED BY <1>1, <1>2, PTL DEF Spec

\* Every value has its type, and no block is filled beyond its end, for
\* partitions of any size and records of any length that fits a block.
THEOREM TypesHold == Spec => []TypeOK
<1>1. IInv => TypeOK
  <2> SUFFICES ASSUME IInv PROVE TypeOK
    OBVIOUS
  <2>1. Typed /\ Ordered
    BY DEF IInv
  <2>2. JobLog \in Log /\ job.from \in Block /\ job.to \in Block \union Copy
    BY <2>1, JobTypes
  <2>3. \A l \in Log, i \in Block :
           flash[l][i] \in BlockType /\ Used(flash[l][i]) <= BlockUnits
    BY <2>1 DEF Typed, Partition, Ordered, OrderedLog
  <2>4. \A c \in Copy : cmet[c] \in [state : {"blank", "torn", "whole"}, n : Nat]
    BY <2>1 DEF Typed
  <2>5. (\A l \in Log : acked[l] \subseteq 1 .. served) /\ pair \in 0 .. served
        /\ attempts \in Nat /\ events \in 0 .. MaxEvents
    BY <2>1 DEF Typed
  <2> QED BY <2>2, <2>3, <2>4, <2>5 DEF TypeOK
<1> QED BY <1>1, LogsStayReadable, PTL

\* The newest acknowledged record stays in a block that is flagged as active,
\* and a read of the last record finds it, a later one, or nothing.
THEOREM NothingGetsStale == Spec => []NothingStale
<1>1. IInv => NothingStale
  <2> SUFFICES ASSUME IInv, At("idle"), NEW l \in Log, Acked(l)
               PROVE  /\ ReadLastRecord(flash[l]) # 0 =>
                            ReadLastRecord(flash[l]) >= Newest(l)
                      /\ \E i \in Block : HoldsNewest(l, flash[l][i])
    BY DEF NothingStale
  <2>1. PICK p \in Partition : p = flash[l]
    BY DEF IInv, Typed
  <2>2. PICK A : A = acked[l] /\ A # {} /\ A \subseteq 1 .. served /\ served \in Nat
    BY DEF Acked, IInv, Typed
  <2>3. Newest(l) \in A /\ Newest(l) \in Nat
    BY <2>2, LargestIn DEF Newest
  <2>4. PICK a \in Block : First(p, a) /\ (Holds(p[a], A) \/ Hidden(p, A, a))
    <3>1. ~Switching
      BY DEF Switching, At
    <3>2. Good(p, A)
      BY <2>1, <2>2, <3>1 DEF IInv, LogsInv
    <3> QED BY <2>2, <3>2 DEF Good
  <2>5. ASSUME NEW i \in Block, Holds(p[i], A)
        PROVE  HoldsNewest(l, p[i]) /\ Last(p[i].recs).n >= Newest(l)
    <3>1. Flagged(p[i]) /\ p[i].recs # << >> /\ Newest(l) <= Last(p[i].recs).n
      BY <2>3, <2>5 DEF Holds
    <3>2. p[i].recs \in Seq(RecordType)
      BY DEF Partition, BlockType
    <3>3. Len(p[i].recs) \in 1 .. Len(p[i].recs)
      BY <3>1, <3>2
    <3>4. p[i].recs[Len(p[i].recs)] \in RecordType
      BY <3>2, <3>3
    <3>5. Last(p[i].recs).n \in Nat /\ Last(p[i].recs) = p[i].recs[Len(p[i].recs)]
      BY <3>4 DEF Last, RecordType
    <3> QED BY <2>3, <3>1, <3>3, <3>5 DEF HoldsNewest
  <2>6. Scan(p) = p[a].recs
    BY <2>4, ActiveIs DEF Scan
  <2>7. p[a].recs \in Seq(RecordType)
    BY DEF Partition, BlockType
  <2>8. ReadLastRecord(p) # 0 => p[a].recs # << >> /\ ReadLastRecord(p) = Last(p[a].recs).n
    BY <2>6, <2>7 DEF ReadLastRecord, ReadNthRecordFromEnd, Last
  <2>9. ReadLastRecord(p) # 0 => ReadLastRecord(p) >= Newest(l)
    BY <2>4, <2>5, <2>8 DEF Hidden
  <2>10. \E i \in Block : HoldsNewest(l, p[i])
    BY <2>4, <2>5 DEF Hidden
  <2> QED BY <2>1, <2>9, <2>10
<1> QED BY <1>1, LogsStayReadable, PTL

\* Counted from the end, records get older, and no acknowledged one is skipped.
THEOREM NoneIsSkipped == Spec => []NoneSkipped
<1>1. IInv => NoneSkipped
  <2> SUFFICES ASSUME IInv, At("idle"), NEW l \in Log, NEW k \in 2 .. Len(Scan(flash[l]))
               PROVE  /\ ReadNthRecordFromEnd(flash[l], k) <
                            ReadNthRecordFromEnd(flash[l], k - 1)
                      /\ \A n \in acked[l] :
                            ~(ReadNthRecordFromEnd(flash[l], k) < n
                              /\ n < ReadNthRecordFromEnd(flash[l], k - 1))
    BY DEF NoneSkipped
  <2>1. PICK p \in Partition : p = flash[l]
    BY DEF IInv, Typed
  <2>2. PICK s \in Seq(RecordType) : s = Scan(p)
    <3>1. << >> \in Seq(RecordType)
      OBVIOUS
    <3> QED BY <3>1, ActiveIs DEF Scan, Partition, BlockType
  <2>3. s # << >> => s = p[ActiveBlock(p)].recs
    BY <2>2 DEF Scan
  <2>4. Len(s) \in Nat /\ k \in 2 .. Len(s) /\ s # << >>
    BY <2>1, <2>2
  <2>5. Tidy(p[ActiveBlock(p)], acked[l])
    BY <2>1, ActiveIs DEF IInv, Ordered, OrderedLog
  <2>6. PICK m : m = Len(s) + 1 - k /\ m \in 1 .. Len(s) - 1 /\ m + 1 = Len(s) + 1 - (k - 1)
    BY <2>4
  <2>7. s[m].n < s[m + 1].n /\ \A n \in acked[l] : ~(s[m].n < n /\ n < s[m + 1].n)
    BY <2>3, <2>4, <2>5, <2>6 DEF Tidy
  <2>8. /\ ReadNthRecordFromEnd(p, k) = s[m].n
        /\ ReadNthRecordFromEnd(p, k - 1) = s[m + 1].n
    BY <2>2, <2>4, <2>6 DEF ReadNthRecordFromEnd
  <2> QED BY <2>1, <2>7, <2>8
<1> QED BY <1>1, LogsStayReadable, PTL

\* One broken write leaves a whole copy of the last CMET record, or of the new.
THEOREM CopySurvives == Spec => []CmetCopySurvives
<1>1. IInv => CmetCopySurvives
  <2> SUFFICES ASSUME IInv, pair # 0, attempts <= 1
               PROVE  \E c \in Copy : cmet[c].state = "whole" /\ cmet[c].n >= pair
    BY DEF CmetCopySurvives
  <2>1. Typed /\ CmetInv /\ attempts \in Nat
    BY DEF IInv, Typed
  <2>2. CASE attempts = 0
    BY <2>1, <2>2 DEF CmetInv, Kept, Copy
  <2>3. CASE attempts = 1 /\ InCmet
    BY <2>1, <2>3, OtherCopyKept
  <2>4. CASE attempts = 1 /\ ~InCmet
    BY <2>1, <2>4 DEF CmetInv, Kept
  <2> QED BY <2>1, <2>2, <2>3, <2>4
<1> QED BY <1>1, LogsStayReadable, PTL
=============================================================================
