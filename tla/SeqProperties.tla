--------------------------- MODULE SeqProperties ----------------------------
(***************************************************************************)
(* What the record logs and the CMET copies promise.                       *)
(***************************************************************************)
EXTENDS SeqRecordComm

RecordType == [n : Nat, len : 1 .. BlockUnits]
BlockType  == [recs : Seq(RecordType), end : {"blank", "junk", "flagged"},
               retired : BOOLEAN]

(***************************************************************************)
(* The type invariant: blocks are never filled beyond their end, and the   *)
(* block a request works on is one of the partition.                       *)
(***************************************************************************)
TypeOK ==
    /\ \A l \in Log, i \in Block :
          flash[l][i] \in BlockType /\ Used(flash[l][i]) <= BlockUnits
    /\ \A c \in Copy : cmet[c] \in [state : {"blank", "torn", "whole"}, n : Nat]
    /\ JobLog \in Log /\ job.from \in Block /\ job.to \in Block \union Copy
    /\ \A l \in Log : acked[l] \subseteq 1 .. served
    /\ pair \in 0 .. served /\ attempts \in Nat
    /\ events \in 0 .. MaxEvents

Acked(l)  == acked[l] # {}
Newest(l) == Max(acked[l])

\* A flagged block with the newest acknowledged record or a later one.
HoldsNewest(l, b) ==
    Flagged(b) /\ \E k \in 1 .. Len(b.recs) : b.recs[k].n >= Newest(l)

(***************************************************************************)
(* Between two requests, and after any loss of power, ReadLastRecord never *)
(* answers with a record older than the newest one whose write was         *)
(* acknowledged, and that record, or a later one, is in a block that is    *)
(* still flagged as active.  It takes the order erase, write, retire and   *)
(* the choice of the first flagged block together to keep this: while a    *)
(* write switches blocks two of them are flagged.                          *)
(***************************************************************************)
NothingStale ==
    At("idle") =>
        \A l \in Log : Acked(l) =>
            /\ ReadLastRecord(flash[l]) # 0 =>
                  ReadLastRecord(flash[l]) >= Newest(l)
            /\ \E i \in Block : HoldsNewest(l, flash[l][i])

(***************************************************************************)
(* Counting back from the end with ReadNthRecordFromEnd, records get older *)
(* at every step, and none that was acknowledged is passed over.           *)
(***************************************************************************)
NoneSkipped ==
    At("idle") =>
        \A l \in Log : \A k \in 2 .. Len(Scan(flash[l])) :
            LET older == ReadNthRecordFromEnd(flash[l], k)
                newer == ReadNthRecordFromEnd(flash[l], k - 1)
            IN  /\ older < newer
                /\ \A n \in acked[l] : ~(older < n /\ n < newer)

(***************************************************************************)
(* Once a CMET record is in both copies, one write that is cut short or    *)
(* fails, at whatever step, leaves at least one whole copy of that record  *)
(* or of the new one.                                                      *)
(***************************************************************************)
CmetCopySurvives ==
    pair # 0 /\ attempts <= 1 =>
        \E c \in Copy : cmet[c].state = "whole" /\ cmet[c].n >= pair
=============================================================================
