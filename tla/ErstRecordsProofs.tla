-------------------------- MODULE ErstRecordsProofs --------------------------
(****************************************************************************)
(* Proofs about the record protocol of ErrorSerializationMmDxe, for any     *)
(* number of slots, record ids and contents and any number of power losses  *)
(* and flash faults: ProtocolInv is inductive, and with it the format       *)
(* overview's claims hold at every moment.                                  *)
(****************************************************************************)
EXTENDS ErstRecords, TLAPS

USE DistinctAssumption, NoReqAssumption

(* What Mark does to each copy. *)
LEMMA MarkEffect ==
    ASSUME copies \in [Slot -> Copy], NEW s \in Slot, NEW st \in Status
    PROVE  /\ Mark(s, st) \in [Slot -> Copy]
           /\ \A t \in Slot :
                 /\ Mark(s, st)[t].st  = IF t = s THEN st ELSE copies[t].st
                 /\ Mark(s, st)[t].id  = copies[t].id
                 /\ Mark(s, st)[t].val = copies[t].val
BY DEF Mark, Copy

(* Erasing dead slots makes them free and leaves the others alone. *)
LEMMA WipeEffect ==
    ASSUME copies \in [Slot -> Copy], NEW S \in SUBSET Slot
    PROVE  /\ Wipe(S) \in [Slot -> Copy]
           /\ \A t \in Slot : Wipe(S)[t] = IF t \in S THEN Free ELSE copies[t]
BY DEF Wipe, Copy, Free, Status

(* The initial state satisfies the invariant. *)
THEOREM InitInv == Init => ProtocolInv
<1> SUFFICES ASSUME Init PROVE ProtocolInv
  OBVIOUS
<1> USE DEF Init
<1>1. TypeOK
  BY DEF TypeOK, Copy, Free, Status, Modes, Put, NoPut, Steps, Reply, NoReply
<1>2. CopiesWellFormed /\ ModeInv /\ WriteInv
  BY DEF CopiesWellFormed, ModeInv, WriteInv, Free, NoPut
<1>3. Outgoing = {} /\ Incoming = {} /\ \A i \in Id : Valid(i) = {}
  BY DEF Outgoing, Incoming, Valid, Free
<1>4. AtMostOneInFlight /\ OutgoingHasSuccessor /\ OneValidPerId /\ SettledWhenReady
  BY <1>3 DEF AtMostOneInFlight, OutgoingHasSuccessor, OneValidPerId, SettledWhenReady, Resolved
<1> QED
  BY <1>1, <1>2, <1>4 DEF ProtocolInv

-----------------------------------------------------------------------------
(* The part of the invariant that speaks of the flash alone. *)
FlashInv ==
    /\ copies \in [Slot -> Copy]
    /\ CopiesWellFormed
    /\ AtMostOneInFlight
    /\ OutgoingHasSuccessor
    /\ OneValidPerId

LEMMA SameFlash ==
    ASSUME FlashInv, copies' = copies
    PROVE  /\ FlashInv'
           /\ Incoming' = Incoming /\ Outgoing' = Outgoing
           /\ \A i \in Id : Valid(i)' = Valid(i)
<1>1. Incoming' = Incoming /\ Outgoing' = Outgoing /\ \A i \in Id : Valid(i)' = Valid(i)
  BY DEF Incoming, Outgoing, Valid
<1>2. \A o \in Slot : Successor(o)' = Successor(o)
  BY DEF Successor
<1> QED
  BY <1>1, <1>2 DEF FlashInv, CopiesWellFormed, AtMostOneInFlight, OutgoingHasSuccessor,
                    OneValidPerId, Outgoing

(* Erasing dead slots. *)
LEMMA WipeFlash ==
    ASSUME FlashInv, NEW S \in SUBSET Dead, copies' = Wipe(S)
    PROVE  /\ FlashInv'
           /\ Incoming' = Incoming /\ Outgoing' = Outgoing
           /\ \A i \in Id : Valid(i)' = Valid(i)
<1>0. S \in SUBSET Slot
  BY DEF Dead
<1>1. /\ copies' \in [Slot -> Copy]
      /\ \A t \in Slot : copies'[t] = IF t \in S THEN Free ELSE copies[t]
  BY <1>0, WipeEffect DEF FlashInv
<1>2. \A t \in S : \/ copies[t].st \in {"FREE", "DELETED", "INVALID"}
                   \/ copies[t].st = "INCOMING" /\ copies[t].id = NoId
  BY DEF Dead
<1>3. /\ Incoming' = Incoming /\ Outgoing' = Outgoing
      /\ \A i \in Id : Valid(i)' = Valid(i)
  BY <1>1, <1>2 DEF Incoming, Outgoing, Valid, Free
<1>4. CopiesWellFormed'
  BY <1>1 DEF FlashInv, CopiesWellFormed, Free
<1>5. \A o \in Outgoing : Successor(o)' = Successor(o)
  BY <1>1, <1>2 DEF Successor, Outgoing, Free, FlashInv, CopiesWellFormed
<1> QED
  BY <1>1, <1>3, <1>4, <1>5
     DEF FlashInv, AtMostOneInFlight, OutgoingHasSuccessor, OneValidPerId


-----------------------------------------------------------------------------
(* The steps of a write sequence. *)

LEMMA StepIncoming ==
    ASSUME FlashInv, WriteInv, put # NoPut, put.step = "INCOMING",
           copies' = AfterStep
    PROVE  /\ FlashInv'
           /\ Incoming' = Incoming /\ Outgoing' = Outgoing
           /\ \A i \in Id : Valid(i)' = Valid(i)
           /\ copies'[put.new].st = "INCOMING" /\ copies'[put.new].id = copies[put.new].id
           /\ \A t \in Slot : t # put.new => copies'[t] = copies[t]
<1>1. put.new \in Slot /\ put.id \in Id
  BY DEF WriteInv
<1>2. copies' = Mark(put.new, "INCOMING")
  BY DEF AfterStep
<1>3. /\ copies' \in [Slot -> Copy]
      /\ \A t \in Slot : /\ copies'[t].st = IF t = put.new THEN "INCOMING" ELSE copies[t].st
                         /\ copies'[t].id = copies[t].id
                         /\ copies'[t].val = copies[t].val
  BY <1>1, <1>2, MarkEffect DEF FlashInv, Status
<1>4. \A t \in Slot : t # put.new => copies'[t] = copies[t]
  BY <1>2 DEF Mark, FlashInv
<1>5. /\ copies[put.new].st \in {"FREE", "INCOMING"}
      /\ copies[put.new].st = "FREE" => copies[put.new].id = NoId /\ copies[put.new].val = NoVal
  BY <1>1 DEF WriteInv, FlashInv, CopiesWellFormed
<1>6. /\ Incoming' = Incoming /\ Outgoing' = Outgoing
      /\ \A i \in Id : Valid(i)' = Valid(i)
  BY <1>3, <1>5 DEF Incoming, Outgoing, Valid
<1>7. CopiesWellFormed'
  BY <1>3, <1>5 DEF FlashInv, CopiesWellFormed
<1>8. \A o \in Outgoing : Successor(o)' = Successor(o)
  BY <1>3, <1>5 DEF Successor, Outgoing, FlashInv, CopiesWellFormed
<1> QED
  BY <1>1, <1>3, <1>4, <1>6, <1>7, <1>8
     DEF FlashInv, AtMostOneInFlight, OutgoingHasSuccessor, OneValidPerId

(* The record itself is written: all of it (v is its contents), or only a   *)
(* header with part of the body (v is NoVal).                               *)
LEMMA StepData ==
    ASSUME FlashInv, WriteInv, put # NoPut, put.step = "data",
           NEW v \in {put.val, NoVal},
           copies' = [copies EXCEPT ![put.new] =
                        [st |-> "INCOMING", id |-> put.id, val |-> v]]
    PROVE  /\ FlashInv'
           /\ Incoming' = {put.new} /\ Outgoing' = {} /\ Outgoing = {}
           /\ \A i \in Id : Valid(i)' = Valid(i)
           /\ copies'[put.new] = [st |-> "INCOMING", id |-> put.id, val |-> v]
           /\ \A t \in Slot : t # put.new => copies'[t] = copies[t]
<1>1. /\ put.new \in Slot /\ put.id \in Id /\ put.val \in Val
      /\ copies[put.new].st = "INCOMING" /\ Incoming \subseteq {put.new}
  BY DEF WriteInv
<1>2. Outgoing = {}
  BY <1>1 DEF WriteInv, Outgoing
<1>3. /\ copies' \in [Slot -> Copy]
      /\ \A t \in Slot : t # put.new => copies'[t] = copies[t]
      /\ copies'[put.new] = [st |-> "INCOMING", id |-> put.id, val |-> v]
  BY <1>1 DEF FlashInv, Copy, Status
<1>4. /\ copies'[put.new].st = "INCOMING" /\ copies'[put.new].id = put.id
      /\ copies'[put.new].val = v /\ put.id # NoId
  BY <1>1, <1>3
<1>5. Incoming' = {put.new}
  BY <1>1, <1>3, <1>4 DEF Incoming
<1>6. Outgoing' = {} /\ \A i \in Id : Valid(i)' = Valid(i)
  BY <1>1, <1>2, <1>3, <1>4 DEF Outgoing, Valid
<1>7. CopiesWellFormed'
  BY <1>1, <1>3, <1>4 DEF FlashInv, CopiesWellFormed
<1> QED
  BY <1>2, <1>3, <1>5, <1>6, <1>7
     DEF FlashInv, AtMostOneInFlight, OutgoingHasSuccessor, OneValidPerId

(* A complete INCOMING copy exists, and the VALID one becomes OUTGOING. *)
LEMMA MarkOutgoing ==
    ASSUME FlashInv, NEW c \in Slot, NEW n \in Slot, c # n,
           copies[c].st = "VALID", copies[n].st = "INCOMING", copies[n].val # NoVal,
           copies[n].id = copies[c].id, Outgoing = {},
           copies' = Mark(c, "OUTGOING")
    PROVE  /\ FlashInv'
           /\ Incoming' = {n} /\ Outgoing' = {c}
           /\ copies'[n] = copies[n]
           /\ \A t \in Slot : /\ copies'[t].st = IF t = c THEN "OUTGOING" ELSE copies[t].st
                              /\ copies'[t].id = copies[t].id
                              /\ copies'[t].val = copies[t].val
<1>1. /\ copies' \in [Slot -> Copy]
      /\ \A t \in Slot : /\ copies'[t].st = IF t = c THEN "OUTGOING" ELSE copies[t].st
                         /\ copies'[t].id = copies[t].id
                         /\ copies'[t].val = copies[t].val
  BY MarkEffect DEF FlashInv, Status
<1>2. copies'[n] = copies[n]
  BY DEF Mark, FlashInv
<1>3. copies[n].id # NoId
  BY DEF FlashInv, CopiesWellFormed
<1>4. Incoming = {n}
  BY <1>3 DEF Incoming, FlashInv, AtMostOneInFlight
<1>5. Incoming' = {n} /\ Outgoing' = {c}
  BY <1>1, <1>4 DEF Incoming, Outgoing
<1>6. \A s \in Slot : copies[s].st = "VALID" /\ copies[s].id = copies[c].id => s = c
  BY <1>3 DEF FlashInv, OneValidPerId, Valid, Copy
<1>7. \A i \in Id : Valid(i)' \subseteq Valid(i)
  BY <1>1 DEF Valid
<1>8. CopiesWellFormed'
  BY <1>1 DEF FlashInv, CopiesWellFormed
<1>9. Successor(c)' = {n}
  BY <1>1, <1>4, <1>6, <1>3 DEF Successor, Incoming
<1>10. OutgoingHasSuccessor' /\ AtMostOneInFlight' /\ OneValidPerId'
  BY <1>5, <1>7, <1>9 DEF OutgoingHasSuccessor, AtMostOneInFlight, OneValidPerId, FlashInv
<1> QED
  BY <1>1, <1>2, <1>5, <1>8, <1>10 DEF FlashInv

(* The INCOMING copy of an id that has no VALID one becomes VALID: a new    *)
(* record, or the successor of the OUTGOING record.                         *)
LEMMA MarkValid ==
    ASSUME FlashInv, NEW n \in Slot,
           copies[n].st = "INCOMING", copies[n].val # NoVal,
           Outgoing = {} => Valid(copies[n].id) = {},
           copies' = Mark(n, "VALID")
    PROVE  /\ FlashInv'
           /\ Incoming' = {} /\ Outgoing' = Outgoing
           /\ \A t \in Slot : t # n => copies'[t] = copies[t]
           /\ copies'[n] = [copies[n] EXCEPT !.st = "VALID"]
<1>1. /\ copies' \in [Slot -> Copy]
      /\ \A t \in Slot : /\ copies'[t].st = IF t = n THEN "VALID" ELSE copies[t].st
                         /\ copies'[t].id = copies[t].id
                         /\ copies'[t].val = copies[t].val
  BY MarkEffect DEF FlashInv, Status
<1>2. /\ \A t \in Slot : t # n => copies'[t] = copies[t]
      /\ copies'[n] = [copies[n] EXCEPT !.st = "VALID"]
  BY DEF Mark, FlashInv
<1>3. copies[n].id # NoId
  BY DEF FlashInv, CopiesWellFormed
<1>4. Incoming = {n}
  BY <1>3 DEF Incoming, FlashInv, AtMostOneInFlight
<1>5. Incoming' = {} /\ Outgoing' = Outgoing
  BY <1>1, <1>4 DEF Incoming, Outgoing
<1>6. \A o \in Outgoing : Successor(o)' = Successor(o)
  BY <1>1 DEF Successor, Outgoing
<1>7. Valid(copies[n].id) = {}
  <2>1. CASE Outgoing = {}
    BY <2>1
  <2>2. CASE Outgoing # {}
    <3>1. PICK o \in Outgoing : TRUE
      BY <2>2
    <3>2. n \in Successor(o)
      BY <1>4 DEF FlashInv, OutgoingHasSuccessor
    <3>3. copies[o].id = copies[n].id
      BY <3>2 DEF Successor
    <3>4. \A s \in Valid(copies[n].id) : s \in Successor(o)
      BY <3>3, <1>3 DEF Valid, Successor, FlashInv, CopiesWellFormed
    <3>5. \A s \in Valid(copies[n].id) : s = n
      BY <3>2, <3>4 DEF FlashInv, OutgoingHasSuccessor
    <3> QED
      BY <3>5 DEF Valid
  <2> QED
    BY <2>1, <2>2
<1>8. OneValidPerId'
  BY <1>1, <1>7 DEF OneValidPerId, Valid, FlashInv
<1>9. CopiesWellFormed'
  BY <1>1, <1>3 DEF FlashInv, CopiesWellFormed
<1> QED
  BY <1>1, <1>2, <1>5, <1>6, <1>8, <1>9
     DEF FlashInv, AtMostOneInFlight, OutgoingHasSuccessor

(* A copy leaves: the OUTGOING one when its successor is VALID, a VALID one *)
(* that is cleared, an INCOMING one that is given up.                       *)
LEMMA MarkGone ==
    ASSUME FlashInv, NEW c \in Slot, NEW st \in {"DELETED", "INVALID"},
           Outgoing \subseteq {c},
           copies' = Mark(c, st)
    PROVE  /\ FlashInv'
           /\ Outgoing' = {} /\ Incoming' = Incoming \ {c}
           /\ \A i \in Id : Valid(i)' = Valid(i) \ {c}
           /\ \A t \in Slot : t # c => copies'[t] = copies[t]
<1>1. /\ copies' \in [Slot -> Copy]
      /\ \A t \in Slot : /\ copies'[t].st = IF t = c THEN st ELSE copies[t].st
                         /\ copies'[t].id = copies[t].id
                         /\ copies'[t].val = copies[t].val
  BY MarkEffect DEF FlashInv, Status
<1>2. \A t \in Slot : t # c => copies'[t] = copies[t]
  BY DEF Mark, FlashInv
<1>3. /\ Outgoing' = {} /\ Incoming' = Incoming \ {c}
      /\ \A i \in Id : Valid(i)' = Valid(i) \ {c}
  BY <1>1 DEF Outgoing, Incoming, Valid
<1>4. CopiesWellFormed'
  BY <1>1 DEF FlashInv, CopiesWellFormed
<1> QED
  BY <1>1, <1>2, <1>3, <1>4
     DEF FlashInv, AtMostOneInFlight, OutgoingHasSuccessor, OneValidPerId


-----------------------------------------------------------------------------
(* The actions preserve the invariant. *)

LEMMA ProtocolFlash == ProtocolInv <=>
    /\ FlashInv /\ ModeInv /\ WriteInv /\ SettledWhenReady
    /\ mode \in Modes /\ pending \in Request \cup {NoReq} /\ done \in BOOLEAN
    /\ put \in Put /\ reply \in Reply
BY DEF ProtocolInv, FlashInv, TypeOK

(* No write sequence is in progress afterwards. *)
LEMMA NoPutInv ==
    ASSUME put' = NoPut
    PROVE  WriteInv' /\ put' \in Put
BY DEF WriteInv, NoPut, Put, Steps

LEMMA PutType ==
    ASSUME NEW st \in Steps, NEW k \in {"write", "move"}, NEW i \in Id, NEW v \in Val,
           NEW c \in Slot \cup {NoSlot}, NEW n \in Slot
    PROVE  [step |-> st, kind |-> k, id |-> i, val |-> v, cur |-> c, new |-> n] \in Put
BY DEF Put

LEMMA ReplyTypes ==
    /\ NoReply \in Reply /\ ErrReply \in Reply /\ NotFound \in Reply
    /\ \A v \in Val \cup {NoVal} : OkReply(v) \in Reply
BY DEF Reply, NoReply, ErrReply, NotFound, OkReply

(* Answers and other actions that leave the flash alone, and are not in the *)
(* middle of a write sequence.                                              *)
LEMMA QuietInv ==
    ASSUME ProtocolInv, put = NoPut, put' = put, FlashInv', ModeInv',
           Incoming' = Incoming, Outgoing' = Outgoing,
           mode' \in Modes, pending' \in Request \cup {NoReq}, done' \in BOOLEAN,
           reply' \in Reply,
           mode' \in {"idle", "busy"} => Resolved
    PROVE  ProtocolInv'
<1>1. SettledWhenReady'
  BY DEF SettledWhenReady, Resolved
<1> QED
  BY <1>1, NoPutInv, ProtocolFlash DEF ProtocolInv, FlashInv, TypeOK


LEMMA AnswersInv ==
    ASSUME ProtocolInv,
           PowerOn \/ (\E r \in Request : Receive(r)) \/ AnswerDone \/ AnswerRead
             \/ AnswerNotFound \/ AnswerDummy \/ AnswerError \/ AnswerFailed
             \/ InitDone \/ InitFail
    PROVE  ProtocolInv'
<1> USE ProtocolFlash, ReplyTypes
<1>0. FlashInv /\ ModeInv /\ SettledWhenReady
  OBVIOUS
<1>1. CASE PowerOn
  <2>1. FlashInv' /\ Incoming' = Incoming /\ Outgoing' = Outgoing
    BY <1>1, SameFlash DEF PowerOn
  <2> QED
    BY <2>1, <1>1, QuietInv DEF PowerOn, ModeInv, Modes
<1>2. ASSUME NEW r \in Request, Receive(r) PROVE ProtocolInv'
  <2>1. FlashInv' /\ Incoming' = Incoming /\ Outgoing' = Outgoing
    BY <1>2, SameFlash DEF Receive
  <2>2. put = NoPut
    BY <1>2 DEF Receive, ModeInv
  <2>3. mode' \in {"busy", "init", "failed"} /\ (mode' = "busy" => mode = "idle")
    BY <1>2 DEF Receive
  <2>4. mode' = "busy" => Resolved
    BY <2>2, <2>3 DEF SettledWhenReady
  <2> QED
    BY <2>1, <2>2, <2>3, <2>4, <1>2, QuietInv DEF Receive, ModeInv, Modes
<1>3. CASE AnswerDone \/ AnswerRead \/ AnswerNotFound \/ AnswerDummy
  <2>1. /\ UNCHANGED <<copies, done, put>> /\ mode = "busy"
        /\ mode' \in {"idle", "stale"} /\ pending' = NoReq /\ reply' \in Reply
    <3>1. \A s \in Slot : copies[s].val \in Val \cup {NoVal}
      BY DEF FlashInv, Copy
    <3> QED
      BY <1>3, <3>1 DEF AnswerDone, AnswerRead, AnswerNotFound, AnswerDummy, Answer, Valid
  <2>2. put = NoPut
    BY <1>3 DEF AnswerDone, AnswerRead, AnswerNotFound, AnswerDummy, WriteInv, Put
  <2>3. FlashInv' /\ Incoming' = Incoming /\ Outgoing' = Outgoing
    BY <2>1, SameFlash
  <2> QED
    BY <2>1, <2>2, <2>3, QuietInv DEF ModeInv, Modes, SettledWhenReady
<1>4. CASE AnswerError
  <2>1. /\ UNCHANGED <<done, put>> /\ mode = "busy" /\ put = NoPut
        /\ mode' \in {"idle", "stale"} /\ pending' = NoReq /\ reply' \in Reply
        /\ copies' \in {Wipe(S) : S \in SUBSET Dead} \cup {copies}
    BY <1>4 DEF AnswerError, Answer, CutShort
  <2>2. FlashInv' /\ Incoming' = Incoming /\ Outgoing' = Outgoing
    BY <2>1, SameFlash, WipeFlash
  <2> QED
    BY <2>1, <2>2, QuietInv DEF ModeInv, Modes, SettledWhenReady
<1>5. CASE AnswerFailed
  <2>1. /\ UNCHANGED <<copies, done, put>> /\ mode = "failed" /\ put = NoPut
        /\ mode' = "failed" /\ pending' = NoReq /\ reply' \in Reply
    BY <1>5 DEF AnswerFailed, Answer, ModeInv
  <2>2. FlashInv' /\ Incoming' = Incoming /\ Outgoing' = Outgoing
    BY <2>1, SameFlash
  <2> QED
    BY <2>1, <2>2, QuietInv DEF ModeInv, Modes
<1>6. CASE InitDone
  <2>1. FlashInv' /\ Incoming' = Incoming /\ Outgoing' = Outgoing
    BY <1>6, SameFlash DEF InitDone
  <2>2. mode' \in {"idle", "busy"} /\ (mode' = "idle" => pending = NoReq)
        /\ (mode' = "busy" => pending # NoReq /\ ~done)
    BY <1>6 DEF InitDone, ModeInv
  <2> QED
    BY <2>1, <2>2, <1>6, QuietInv DEF InitDone, ModeInv, Modes
<1>7. CASE InitFail
  <2>1. /\ UNCHANGED <<done, put>> /\ put = NoPut
        /\ mode' = "failed" /\ pending' = NoReq /\ reply' \in Reply
        /\ copies' \in {Wipe(S) : S \in SUBSET Dead}
    BY <1>7 DEF InitFail, CutShort
  <2>2. FlashInv' /\ Incoming' = Incoming /\ Outgoing' = Outgoing
    BY <2>1, WipeFlash
  <2> QED
    BY <2>1, <2>2, QuietInv DEF ModeInv, Modes
<1> QED
  BY <1>1, <1>2, <1>3, <1>4, <1>5, <1>6, <1>7


LEMMA CleanupInv ==
    ASSUME ProtocolInv,
           (\E S \in SUBSET Slot : Erase(S)) \/ (\E s \in Slot : Clear(s))
             \/ (\E k, o \in Slot : RecoverIncoming(k, o)) \/ (\E o \in Slot : RecoverOutgoing(o))
             \/ (\E k \in Slot : RecoverInvalid(k))
    PROVE  ProtocolInv'
<1> USE ProtocolFlash
<1>0. FlashInv /\ ModeInv /\ SettledWhenReady
  OBVIOUS
<1>1. ASSUME NEW S \in SUBSET Slot, Erase(S) PROVE ProtocolInv'
  <2>1. FlashInv' /\ Incoming' = Incoming /\ Outgoing' = Outgoing
    BY <1>1, WipeFlash DEF Erase
  <2> QED
    BY <2>1, <1>1, QuietInv DEF Erase, ModeInv, SettledWhenReady
<1>2. ASSUME NEW s \in Slot, Clear(s) PROVE ProtocolInv'
  <2>1. Incoming = {} /\ Outgoing = {}
    BY <1>2 DEF Clear, SettledWhenReady, Resolved
  <2>2. FlashInv' /\ Incoming' = Incoming /\ Outgoing' = Outgoing
    BY <2>1, <1>2, MarkGone DEF Clear
  <2> QED
    BY <2>1, <2>2, <1>2, QuietInv DEF Clear, ModeInv, Resolved
<1>3. ASSUME NEW k \in Slot, NEW o \in Slot, RecoverIncoming(k, o) PROVE ProtocolInv'
  <2>1. /\ k \in Incoming /\ o \in Outgoing /\ mode = "init" /\ put = NoPut
        /\ UNCHANGED <<mode, pending, done, put, reply>>
    BY <1>3 DEF RecoverIncoming, Recover
  <2>2. /\ copies[k].id = copies[o].id /\ copies[k].val # NoVal /\ copies[k].st = "INCOMING"
    BY <2>1 DEF FlashInv, OutgoingHasSuccessor, Successor, Incoming
  <2>3. FlashInv'
    BY <1>3, <2>1, <2>2, MarkValid DEF RecoverIncoming, Recover
  <2>4. ModeInv'
    BY <2>1 DEF ModeInv
  <2> QED
    BY <2>1, <2>3, <2>4, NoPutInv DEF ProtocolInv, FlashInv, TypeOK, SettledWhenReady
<1>4. ASSUME NEW o \in Slot, RecoverOutgoing(o) PROVE ProtocolInv'
  <2>1. /\ o \in Outgoing /\ mode = "init" /\ put = NoPut
        /\ UNCHANGED <<mode, pending, done, put, reply>>
        /\ \E st \in {"DELETED", "INVALID"} : copies' = Mark(o, st)
    BY <1>4 DEF RecoverOutgoing, Recover
  <2>2. FlashInv'
    BY <2>1, MarkGone DEF FlashInv, AtMostOneInFlight
  <2>3. ModeInv'
    BY <2>1 DEF ModeInv
  <2> QED
    BY <2>1, <2>2, <2>3, NoPutInv DEF ProtocolInv, FlashInv, TypeOK, SettledWhenReady
<1>5. ASSUME NEW k \in Slot, RecoverInvalid(k) PROVE ProtocolInv'
  <2>1. /\ Outgoing = {} /\ mode = "init" /\ put = NoPut
        /\ UNCHANGED <<mode, pending, done, put, reply>>
        /\ copies' = Mark(k, "INVALID")
    BY <1>5 DEF RecoverInvalid, Recover
  <2>2. FlashInv'
    BY <2>1, MarkGone
  <2>3. ModeInv'
    BY <2>1 DEF ModeInv
  <2> QED
    BY <2>1, <2>2, <2>3, NoPutInv DEF ProtocolInv, FlashInv, TypeOK, SettledWhenReady
<1> QED
  BY <1>1, <1>2, <1>3, <1>4, <1>5

(* A write sequence starts: nothing is in transition on the flash, except   *)
(* the INCOMING copy that a merge completes.                                *)
LEMMA BeginInv ==
    ASSUME ProtocolInv,
           (\E n \in Slot : BeginWrite(n)) \/ (\E c, n \in Slot : BeginMove(c, n))
             \/ (\E k \in Slot : RecoverMerge(k))
    PROVE  ProtocolInv'
<1> USE ProtocolFlash
<1>0. FlashInv /\ ModeInv /\ SettledWhenReady
  OBVIOUS
<1>1. ASSUME NEW n \in Slot, BeginWrite(n) PROVE ProtocolInv'
  <2>1. /\ mode = "busy" /\ put = NoPut /\ pending.op = "write" /\ ~done /\ n \in Usable
        /\ UNCHANGED <<copies, mode, pending, done, reply>>
    BY <1>1 DEF BeginWrite
  <2>2. /\ pending \in Request /\ pending.id \in Id /\ pending.val \in Val
    BY <2>1 DEF ModeInv, Request
  <2>3. PICK c \in IF Valid(pending.id) = {} THEN {NoSlot} ELSE Valid(pending.id) :
          put' = [step |-> "INCOMING", kind |-> "write", id |-> pending.id,
                  val |-> pending.val, cur |-> c, new |-> n]
    BY <1>1 DEF BeginWrite
  <2>4. /\ FlashInv' /\ Incoming' = {} /\ Outgoing' = {}
        /\ Valid(pending.id)' = Valid(pending.id)
    BY <2>1, <2>2, SameFlash DEF SettledWhenReady, Resolved, Valid
  <2>5. c \in Slot \cup {NoSlot} /\ (c = NoSlot => Valid(pending.id) = {})
        /\ (c # NoSlot => c \in Slot /\ copies[c].st = "VALID" /\ copies[c].id = pending.id)
    BY <2>3 DEF Valid
  <2>6. copies[n].st \in {"FREE", "INCOMING"} /\ copies[n].id = NoId
    BY <2>1 DEF Usable, Dead, FlashInv, CopiesWellFormed
  <2>7. put' \in Put /\ c # n
    BY <2>2, <2>3, <2>5, <2>6, PutType DEF Steps
  <2>8. WriteInv'
    <3>1. Valid(put.id)' = Valid(pending.id)
      BY <2>1, <2>3 DEF Valid
    <3> QED
      BY <3>1, <2>1, <2>2, <2>3, <2>4, <2>5, <2>6, <2>7 DEF WriteInv
  <2>9. ModeInv' /\ SettledWhenReady'
    BY <2>1, <2>4 DEF ModeInv, SettledWhenReady, Resolved
  <2> QED
    BY <2>1, <2>4, <2>7, <2>8, <2>9 DEF ProtocolInv, FlashInv, TypeOK
<1>2. ASSUME NEW c \in Slot, NEW n \in Slot, BeginMove(c, n) PROVE ProtocolInv'
  <2>1. /\ mode \in {"busy", "init"} /\ put = NoPut /\ copies[c].st = "VALID" /\ n \in Usable
        /\ mode = "busy" => pending.op = "write" /\ ~done
        /\ UNCHANGED <<copies, mode, pending, done, reply>>
        /\ put' = [step |-> "INCOMING", kind |-> "move", id |-> copies[c].id,
                   val |-> copies[c].val, cur |-> c, new |-> n]
    BY <1>2 DEF BeginMove
  <2>2. copies[c].id \in Id /\ copies[c].val \in Val
    BY <2>1 DEF FlashInv, CopiesWellFormed, Copy
  <2>3. Incoming = {} /\ Outgoing = {}
    BY <1>2 DEF BeginMove, SettledWhenReady, Resolved
  <2>4. FlashInv' /\ Incoming' = {} /\ Outgoing' = {}
    BY <2>1, <2>3, SameFlash
  <2>6. copies[n].st \in {"FREE", "INCOMING"} /\ copies[n].id = NoId
    BY <2>1 DEF Usable, Dead, FlashInv, CopiesWellFormed
  <2>7. put' \in Put /\ c # n
    BY <2>1, <2>2, <2>6, PutType DEF Steps
  <2>8. WriteInv'
    BY <2>1, <2>2, <2>4, <2>6, <2>7 DEF WriteInv
  <2>9. ModeInv' /\ SettledWhenReady'
    BY <2>1, <2>4 DEF ModeInv, SettledWhenReady, Resolved
  <2> QED
    BY <2>1, <2>4, <2>7, <2>8, <2>9 DEF ProtocolInv, FlashInv, TypeOK
<1>3. ASSUME NEW n \in Slot, RecoverMerge(n) PROVE ProtocolInv'
  <2>1. /\ mode = "init" /\ put = NoPut /\ n \in Incoming /\ Outgoing = {}
        /\ UNCHANGED <<copies, mode, pending, done, reply>>
    BY <1>3 DEF RecoverMerge
  <2>2. PICK c \in Valid(copies[n].id) :
            put' = [step |-> "INCOMING", kind |-> "move", id |-> copies[c].id,
                    val |-> copies[c].val, cur |-> c, new |-> n]
    BY <1>3 DEF RecoverMerge
  <2>3. /\ c \in Slot /\ copies[c].st = "VALID" /\ copies[c].id = copies[n].id
        /\ copies[c].id \in Id /\ copies[c].val \in Val
        /\ copies[n].st = "INCOMING"
    BY <2>1, <2>2 DEF FlashInv, CopiesWellFormed, Copy, Valid, Incoming
  <2>4. FlashInv' /\ Incoming' = {n} /\ Outgoing' = {}
    BY <2>1, SameFlash DEF FlashInv, AtMostOneInFlight
  <2>7. put' \in Put /\ c # n
    BY <2>2, <2>3, PutType DEF Steps
  <2>8. WriteInv'
    BY <2>1, <2>2, <2>3, <2>4, <2>7 DEF WriteInv
  <2>9. ModeInv' /\ SettledWhenReady'
    BY <2>1 DEF ModeInv, SettledWhenReady
  <2> QED
    BY <2>1, <2>4, <2>7, <2>8, <2>9 DEF ProtocolInv, FlashInv, TypeOK
<1> QED
  BY <1>1, <1>2, <1>3


(* One step of the sequence, whole: the flash, and where the sequence goes. *)
LEMMA StepFlash ==
    ASSUME ProtocolInv, put # NoPut, copies' = AfterStep
    PROVE  FlashInv'
<1> USE ProtocolFlash
<1>0. /\ FlashInv /\ WriteInv
      /\ put.step \in {"INCOMING", "data", "OUTGOING", "VALID", "DELETED"}
      /\ put.cur \in Slot \cup {NoSlot}
  BY DEF WriteInv, Put, Steps
<1>1. CASE put.step = "INCOMING"
  BY <1>0, <1>1, StepIncoming
<1>2. CASE put.step = "data"
  BY <1>0, <1>2, StepData DEF AfterStep
<1>3. CASE put.step = "OUTGOING"
  BY <1>0, <1>3, MarkOutgoing DEF AfterStep, WriteInv, Outgoing
<1>4. CASE put.step = "VALID"
  <2>1. /\ put.new \in Slot /\ copies[put.new].st = "INCOMING" /\ copies[put.new].val # NoVal
        /\ copies[put.new].id = put.id
    BY <1>0, <1>4 DEF WriteInv
  <2>2. Outgoing = {} => Valid(put.id) = {}
    BY <1>0, <1>4 DEF WriteInv, Outgoing
  <2> QED
    BY <1>0, <1>4, <2>1, <2>2, MarkValid DEF AfterStep
<1>5. CASE put.step = "DELETED"
  <2>1. put.cur \in Slot /\ Outgoing \subseteq {put.cur}
    BY <1>0, <1>5 DEF WriteInv
  <2> QED
    BY <1>0, <1>5, <2>1, MarkGone DEF AfterStep
<1> QED
  BY <1>0, <1>1, <1>2, <1>3, <1>4, <1>5

(* Whatever a power loss or a fault leaves is a state of the protocol. *)
LEMMA CutFlash ==
    ASSUME ProtocolInv, copies' \in CutShort
    PROVE  FlashInv'
<1> USE ProtocolFlash
<1>1. CASE put = NoPut
  BY <1>1, WipeFlash DEF CutShort
<1>2. CASE put # NoPut /\ copies' = copies
  BY <1>2, SameFlash
<1>3. CASE put # NoPut /\ copies' = AfterStep
  BY <1>3, StepFlash
<1>4. CASE /\ put # NoPut /\ put.step = "data"
           /\ copies' = [copies EXCEPT ![put.new] =
                           [st |-> "INCOMING", id |-> put.id, val |-> NoVal]]
  BY <1>4, StepData
<1> QED
  BY <1>1, <1>2, <1>3, <1>4 DEF CutShort

LEMMA InterruptInv ==
    ASSUME ProtocolInv, PutFault \/ Crash
    PROVE  ProtocolInv'
<1> USE ProtocolFlash, ReplyTypes
<1>0. FlashInv /\ ModeInv /\ WriteInv /\ SettledWhenReady
  OBVIOUS
<1>1. CASE Crash
  <2>1. FlashInv'
    BY <1>1, CutFlash, SameFlash DEF Crash
  <2>2. mode' = "off" /\ pending' = NoReq /\ put' = NoPut /\ reply' = reply /\ done' \in BOOLEAN
    BY <1>1 DEF Crash
  <2>3. ModeInv' /\ SettledWhenReady'
    BY <2>2 DEF ModeInv, SettledWhenReady
  <2> QED
    BY <2>1, <2>2, <2>3, NoPutInv DEF ProtocolInv, FlashInv, TypeOK, Modes
<1>2. CASE PutFault
  <2>1. /\ put # NoPut /\ copies' \in CutShort
        /\ put' = NoPut /\ pending' = NoReq /\ reply' \in Reply /\ done' \in BOOLEAN
        /\ mode' \in {"failed", "idle", "stale"}
    BY <1>2 DEF PutFault, NoPut
  <2>2. FlashInv'
    BY <2>1, CutFlash
  <2>3. ModeInv'
    BY <2>1 DEF ModeInv
  <2>4. ASSUME mode' = "idle" PROVE Incoming' = {} /\ Outgoing' = {}
    <3>1. mode # "init" /\ put.step = "INCOMING" /\ put.cur = NoSlot
      BY <1>2, <2>4 DEF PutFault
    <3>2. put.kind = "write" /\ copies[put.new].id = NoId
      BY <3>1, <2>1 DEF WriteInv, Put
    <3>3. Incoming = {} /\ Outgoing = {}
      BY <3>1, <3>2, <2>1 DEF WriteInv, Incoming, Outgoing
    <3>4. copies' = copies \/ copies' = AfterStep
      BY <2>1, <3>1 DEF CutShort
    <3> QED
      BY <2>1, <3>1, <3>3, <3>4, SameFlash, StepIncoming
  <2>5. SettledWhenReady'
    BY <2>1, <2>4 DEF SettledWhenReady, Resolved
  <2> QED
    BY <2>1, <2>2, <2>3, <2>5, NoPutInv DEF ProtocolInv, FlashInv, TypeOK, Modes
<1> QED
  BY <1>1, <1>2

LEMMA PutStepInv ==
    ASSUME ProtocolInv, PutStep
    PROVE  ProtocolInv'
<1> USE ProtocolFlash
<1>0. /\ FlashInv /\ ModeInv /\ WriteInv
      /\ put # NoPut /\ copies' = AfterStep /\ FlashInv'
      /\ put.step \in {"INCOMING", "data", "OUTGOING", "VALID", "DELETED"}
      /\ put.cur \in Slot \cup {NoSlot} /\ put \in Put
      /\ UNCHANGED <<mode, pending, reply>>
  <2>1. put # NoPut
    BY DEF PutStep, NoPut
  <2>2. copies' = AfterStep
    BY DEF PutStep
  <2> QED
    BY <2>1, <2>2, StepFlash DEF PutStep, WriteInv, Put, Steps
<1>1. done' \in BOOLEAN
  BY DEF PutStep
<1>2. ModeInv'
  <2>1. put.kind = "write" => mode = "busy" /\ pending.op = "write"
    BY <1>0 DEF WriteInv
  <2>2. done' => done \/ put.kind = "write"
    BY DEF PutStep
  <2> QED
    BY <1>0, <2>1, <2>2 DEF ModeInv
<1>3. /\ put.new \in Slot /\ put.id \in Id /\ put.val \in Val /\ put.cur # put.new
      /\ put.id # NoId /\ put.val # NoVal
      /\ Incoming \subseteq {put.new} /\ Outgoing \subseteq {put.cur}
      /\ put.kind \in {"write", "move"}
  BY <1>0 DEF WriteInv, Put
<1>4. ASSUME NEW st \in Steps, put' = [put EXCEPT !.step = st]
      PROVE  /\ put' \in Put /\ put' # NoPut
             /\ put'.step = st /\ put'.kind = put.kind /\ put'.id = put.id
             /\ put'.val = put.val /\ put'.cur = put.cur /\ put'.new = put.new
             /\ Valid(put.id)' = {s \in Slot : copies'[s].st = "VALID" /\ copies'[s].id = put.id}
  BY <1>0, <1>3, <1>4 DEF Put, NoPut, Valid
<1>5. put' \in Put /\ WriteInv' /\ (put' = NoPut => Incoming' = {} /\ Outgoing' = {})
  <2>1. CASE put.step = "INCOMING"
    <3>1. put' = [put EXCEPT !.step = "data"] /\ done' = done
      BY <2>1, <1>1 DEF PutStep, NextStep, CommitStep, WriteInv
    <3>2. /\ put' \in Put /\ put' # NoPut
          /\ put'.step = "data" /\ put'.kind = put.kind /\ put'.id = put.id
          /\ put'.val = put.val /\ put'.cur = put.cur /\ put'.new = put.new
          /\ Valid(put.id)' = {s \in Slot : copies'[s].st = "VALID" /\ copies'[s].id = put.id}
      BY <3>1, <1>4 DEF Steps
    <3>3. /\ Incoming' = Incoming /\ Outgoing' = Outgoing
          /\ copies'[put.new].st = "INCOMING" /\ copies'[put.new].id = copies[put.new].id
          /\ \A t \in Slot : t # put.new => copies'[t] = copies[t]
      BY <1>0, <2>1, StepIncoming
    <3>4. put.cur = NoSlot => Valid(put.id)' = {}
      BY <1>0, <1>3, <3>2, <3>3 DEF WriteInv, Valid
    <3> QED
      BY <1>0, <1>3, <2>1, <3>1, <3>2, <3>3, <3>4 DEF WriteInv
  <2>2. CASE put.step = "data"
    <3>1. /\ put' = [put EXCEPT !.step = IF put.cur # NoSlot THEN "OUTGOING" ELSE "VALID"]
          /\ done' = done
      BY <2>2, <1>1 DEF PutStep, NextStep, CommitStep
    <3>2. /\ put' \in Put /\ put' # NoPut
          /\ put'.step = (IF put.cur # NoSlot THEN "OUTGOING" ELSE "VALID")
          /\ put'.kind = put.kind /\ put'.id = put.id
          /\ put'.val = put.val /\ put'.cur = put.cur /\ put'.new = put.new
          /\ Valid(put.id)' = {s \in Slot : copies'[s].st = "VALID" /\ copies'[s].id = put.id}
      BY <3>1, <1>4 DEF Steps
    <3>3. /\ Incoming' = {put.new} /\ Outgoing' = {}
          /\ copies'[put.new] = [st |-> "INCOMING", id |-> put.id, val |-> put.val]
          /\ \A t \in Slot : t # put.new => copies'[t] = copies[t]
      BY <1>0, <2>2, StepData DEF AfterStep
    <3>4. put.cur = NoSlot => Valid(put.id)' = {}
      BY <1>0, <1>3, <3>2, <3>3 DEF WriteInv, Valid
    <3> QED
      BY <1>0, <1>3, <2>2, <3>1, <3>2, <3>3, <3>4 DEF WriteInv
  <2>3. CASE put.step = "OUTGOING"
    <3>0. put.cur \in Slot /\ put.cur # NoSlot /\ copies[put.cur].id = put.id
          /\ copies[put.cur].st = "VALID"
          /\ copies[put.new] = [st |-> "INCOMING", id |-> put.id, val |-> put.val]
      BY <1>0, <2>3 DEF WriteInv
    <3>1. /\ put' = [put EXCEPT !.step = "VALID"]
          /\ done' = (done \/ put.kind = "write")
      BY <2>3, <3>0 DEF PutStep, NextStep, CommitStep
    <3>2. /\ put' \in Put /\ put' # NoPut
          /\ put'.step = "VALID" /\ put'.kind = put.kind /\ put'.id = put.id
          /\ put'.val = put.val /\ put'.cur = put.cur /\ put'.new = put.new
      BY <3>1, <1>4 DEF Steps
    <3>3. /\ Incoming' = {put.new} /\ Outgoing' = {put.cur}
          /\ copies'[put.new] = copies[put.new]
          /\ copies'[put.cur].st = "OUTGOING" /\ copies'[put.cur].id = put.id
          /\ copies'[put.cur].val = copies[put.cur].val
      BY <1>0, <1>3, <2>3, <3>0, MarkOutgoing DEF AfterStep, Outgoing
    <3> QED
      BY <1>0, <1>3, <2>3, <3>0, <3>1, <3>2, <3>3 DEF WriteInv
  <2>4. CASE put.step = "VALID"
    <3>0. /\ copies[put.new] = [st |-> "INCOMING", id |-> put.id, val |-> put.val]
          /\ put.cur = NoSlot => Valid(put.id) = {}
          /\ put.cur # NoSlot => put.cur \in Outgoing
      BY <1>0, <2>4 DEF WriteInv, Outgoing
    <3>1. /\ Incoming' = {} /\ Outgoing' = Outgoing
          /\ \A t \in Slot : t # put.new => copies'[t] = copies[t]
          /\ copies'[put.new] = [st |-> "VALID", id |-> put.id, val |-> put.val]
      <4>1. Outgoing = {} => Valid(copies[put.new].id) = {}
        BY <3>0
      <4> QED
        BY <1>0, <1>3, <2>4, <3>0, <4>1, MarkValid DEF AfterStep
    <3>2. CASE put.cur = NoSlot
      <4>1. put' = NoPut /\ Outgoing' = {}
        BY <1>3, <2>4, <3>1, <3>2 DEF PutStep, NextStep, Outgoing
      <4> QED
        BY <4>1, <3>1, NoPutInv
    <3>3. CASE put.cur # NoSlot
      <4>1. put' = [put EXCEPT !.step = "DELETED"] /\ done' = done
        BY <2>4, <3>3, <1>1 DEF PutStep, NextStep, CommitStep
      <4>2. /\ put' \in Put /\ put' # NoPut
            /\ put'.step = "DELETED" /\ put'.kind = put.kind /\ put'.id = put.id
            /\ put'.val = put.val /\ put'.cur = put.cur /\ put'.new = put.new
        BY <4>1, <1>4 DEF Steps
      <4> QED
        BY <1>0, <1>3, <2>4, <3>0, <3>1, <3>3, <4>1, <4>2 DEF WriteInv
    <3> QED
      BY <3>2, <3>3
  <2>5. CASE put.step = "DELETED"
    <3>1. put' = NoPut
      BY <2>5 DEF PutStep, NextStep
    <3>2. put.cur \in Slot /\ Incoming = {}
      BY <1>0, <1>3, <2>5 DEF WriteInv, Incoming
    <3>3. Incoming' = {} /\ Outgoing' = {}
      BY <1>0, <1>3, <2>5, <3>2, MarkGone DEF AfterStep
    <3> QED
      BY <3>1, <3>3, NoPutInv
  <2> QED
    BY <1>0, <2>1, <2>2, <2>3, <2>4, <2>5
<1>6. SettledWhenReady'
  BY <1>5 DEF SettledWhenReady, Resolved
<1> QED
  BY <1>0, <1>1, <1>2, <1>5, <1>6 DEF ProtocolInv, FlashInv, TypeOK


-----------------------------------------------------------------------------
(* The invariant is inductive. *)
THEOREM StepInv == ProtocolInv /\ [Next]_vars => ProtocolInv'
<1> SUFFICES ASSUME ProtocolInv, [Next]_vars PROVE ProtocolInv'
  OBVIOUS
<1>1. CASE Next
  BY <1>1, AnswersInv, CleanupInv, BeginInv, PutStepInv, InterruptInv DEF Next
<1>2. CASE UNCHANGED vars
  <2>1. FlashInv' /\ Incoming' = Incoming /\ Outgoing' = Outgoing
    BY <1>2, SameFlash, ProtocolFlash DEF vars
  <2>2. ModeInv' /\ SettledWhenReady'
    BY <1>2, <2>1, ProtocolFlash DEF vars, ModeInv, SettledWhenReady, Resolved
  <2>3. WriteInv'
    BY <1>2, <2>1, ProtocolFlash DEF vars, WriteInv, Valid
  <2> QED
    BY <1>2, <2>1, <2>2, <2>3, ProtocolFlash DEF vars, ProtocolInv, FlashInv, TypeOK
<1> QED
  BY <1>1, <1>2

THEOREM Invariance == Spec => []ProtocolInv
<1>1. Init => ProtocolInv
  BY InitInv
<1>2. ProtocolInv /\ [Next]_vars => ProtocolInv'
  BY StepInv
<1> QED
  BY <1>1, <1>2, PTL DEF Spec

(* The types of the variables, for every instance. *)
THEOREM TypeCorrect == Spec => []TypeOK
<1>1. ProtocolInv => TypeOK
  BY DEF ProtocolInv
<1> QED
  BY <1>1, Invariance, PTL

(* At most one readable INCOMING and one OUTGOING copy ever exist: not only *)
(* after a write that was cut short, as the format overview says, but in    *)
(* the middle of any clean-up, and of a clean-up that was itself cut short. *)
THEOREM InFlightBound == Spec => []AtMostOneInFlight
<1>1. ProtocolInv => AtMostOneInFlight
  BY DEF ProtocolInv
<1> QED
  BY <1>1, Invariance, PTL

(* The OUTGOING copy always has exactly one complete successor, so the      *)
(* branches of ErstCollectBlockInfo that give an OUTGOING record up as      *)
(* INVALID are dead code.                                                   *)
THEOREM NoOrphanedOutgoing == Spec => []OutgoingHasSuccessor
<1>1. ProtocolInv => OutgoingHasSuccessor
  BY DEF ProtocolInv
<1> QED
  BY <1>1, Invariance, PTL

(* An id never has two VALID copies. *)
THEOREM UniqueValid == Spec => []OneValidPerId
<1>1. ProtocolInv => OneValidPerId
  BY DEF ProtocolInv
<1> QED
  BY <1>1, Invariance, PTL

(* Whenever the driver serves requests from its tables, nothing on the      *)
(* flash is in transition.                                                  *)
THEOREM ReadyIsSettled == Spec => []SettledWhenReady
<1>1. ProtocolInv => SettledWhenReady
  BY DEF ProtocolInv
<1> QED
  BY <1>1, Invariance, PTL

(****************************************************************************)
(* The record protocol of ErrorSerializationMmDxe implements the store that *)
(* ErstStore promises, for any number of slots, ids and contents and any    *)
(* number of power losses and flash faults.                                 *)
(****************************************************************************)
(* At most one copy of an id is settled, and it is what the store holds. *)
ContentsSettled ==
    \A i \in Id : /\ Settled(i) = {} => Contents[i] = NoVal
                 /\ \A s \in Settled(i) : Contents[i] = copies[s].val

LEMMA ContentsIs == FlashInv => ContentsSettled
<1> SUFFICES ASSUME FlashInv, NEW i \in Id
             PROVE  /\ Settled(i) = {} => Contents[i] = NoVal
                    /\ \A s \in Settled(i) : Contents[i] = copies[s].val
  BY DEF ContentsSettled
<1>1. ASSUME NEW s \in Settled(i), NEW t \in Settled(i) PROVE s = t
  <2>0. /\ s \in Slot /\ t \in Slot /\ copies[s].id = i /\ copies[t].id = i /\ i # NoId
        /\ copies[s].st \in {"VALID", "INCOMING"} /\ copies[t].st \in {"VALID", "INCOMING"}
    BY DEF Settled
  <2>1. CASE copies[s].st = "VALID" /\ copies[t].st = "VALID"
    BY <2>0, <2>1 DEF FlashInv, OneValidPerId, Valid
  <2>2. CASE copies[s].st = "INCOMING" /\ copies[t].st = "INCOMING"
    BY <2>0, <2>2 DEF FlashInv, AtMostOneInFlight, Incoming
  <2>3. CASE copies[s].st # copies[t].st
    <3>1. PICK o \in Outgoing : copies[o].id = i
      BY <2>0, <2>3 DEF Settled
    <3>2. ASSUME NEW u \in Settled(i) PROVE u \in Successor(o)
      <4>1. u \in Slot /\ copies[u].id = i /\ copies[u].st \in {"VALID", "INCOMING"}
        BY DEF Settled
      <4>2. CASE copies[u].st = "VALID"
        BY <3>1, <4>1, <4>2 DEF FlashInv, CopiesWellFormed, Successor
      <4>3. CASE copies[u].st = "INCOMING"
        BY <3>1, <2>0, <4>1, <4>3 DEF FlashInv, OutgoingHasSuccessor, Incoming
      <4> QED
        BY <4>1, <4>2, <4>3
    <3>3. s \in Successor(o) /\ t \in Successor(o)
      BY <3>2
    <3> QED
      BY <3>3 DEF FlashInv, OutgoingHasSuccessor
  <2> QED
    BY <2>0, <2>1, <2>2, <2>3
<1>2. Contents[i] = IF Settled(i) = {} THEN NoVal ELSE copies[CHOOSE s \in Settled(i) : TRUE].val
  BY DEF Contents
<1> QED
  BY <1>1, <1>2

LEMMA ContentsIsNext == FlashInv' => ContentsSettled'
BY ContentsIs, PTL

(* To know the store after a step, one settled copy per id is enough. *)
LEMMA SameContents ==
    ASSUME FlashInv, FlashInv',
           \A i \in Id : \/ Settled(i) = {} /\ Settled(i)' = {}
                       \/ \E s \in Settled(i), t \in Settled(i)' : copies'[t].val = copies[s].val
    PROVE  Contents' = Contents
<1>1. ContentsSettled /\ ContentsSettled'
  BY ContentsIs, ContentsIsNext
<1>2. \A i \in Id : Contents'[i] = Contents[i]
  BY <1>1 DEF ContentsSettled
<1>3. Contents = [i \in Id |-> Contents[i]] /\ Contents' = [i \in Id |-> Contents'[i]]
  BY DEF Contents
<1> QED
  BY <1>2, <1>3

LEMMA OneChange ==
    ASSUME FlashInv, FlashInv', NEW k \in Id, NEW v,
           \/ Settled(k)' = {} /\ v = NoVal
           \/ \E t \in Settled(k)' : copies'[t].val = v,
           \A i \in Id : i # k =>
              \/ Settled(i) = {} /\ Settled(i)' = {}
              \/ \E s \in Settled(i), t \in Settled(i)' : copies'[t].val = copies[s].val
    PROVE  Contents' = [Contents EXCEPT ![k] = v]
<1>1. ContentsSettled /\ ContentsSettled'
  BY ContentsIs, ContentsIsNext
<1>2. \A i \in Id : i # k => Contents'[i] = Contents[i]
  BY <1>1 DEF ContentsSettled
<1>3. Contents'[k] = v
  BY <1>1 DEF ContentsSettled
<1>4. Contents = [i \in Id |-> Contents[i]] /\ Contents' = [i \in Id |-> Contents'[i]]
  BY DEF Contents
<1> QED
  BY <1>2, <1>3, <1>4

(* Copies that are neither VALID nor INCOMING, or have no readable header,  *)
(* do not count.                                                            *)
LEMMA IrrelevantChange ==
    ASSUME FlashInv, FlashInv', Outgoing' = Outgoing,
           \A t \in Slot : \/ copies'[t] = copies[t]
                          \/ /\ copies[t].id = NoId \/ copies[t].st \notin {"VALID", "INCOMING", "OUTGOING"}
                             /\ copies'[t].id = NoId \/ copies'[t].st \notin {"VALID", "INCOMING", "OUTGOING"}
    PROVE  Contents' = Contents
<1>1. \A i \in Id : Settled(i)' = Settled(i) /\ \A s \in Settled(i) : copies'[s] = copies[s]
  <2> SUFFICES ASSUME NEW i \in Id
               PROVE  Settled(i)' = Settled(i) /\ \A s \in Settled(i) : copies'[s] = copies[s]
    OBVIOUS
  <2>1. (\E o \in Outgoing' : copies'[o].id = i) <=> (\E o \in Outgoing : copies[o].id = i)
    BY DEF Outgoing
  <2> QED
    BY <2>1 DEF Settled
<1> QED
  BY <1>1, SameContents

-----------------------------------------------------------------------------
(* What each change of a status byte does to the store. *)

LEMMA NothingOutgoing ==
    ASSUME FlashInv, FlashInv', Outgoing = {}, Outgoing' = {},
           \A i \in Id : Valid(i)' = Valid(i) /\ \A s \in Valid(i) : copies'[s].val = copies[s].val
    PROVE  Contents' = Contents
<1>1. \A i \in Id : Settled(i) = Valid(i) /\ Settled(i)' = Valid(i)'
  BY DEF Settled, Valid
<1> QED
  BY <1>1, SameContents

LEMMA ReplaceContents ==
    ASSUME FlashInv, NEW k \in Id, NEW c \in Slot, NEW n \in Slot, c # n,
           copies[c].st = "VALID", copies[n].st = "INCOMING", copies[n].val # NoVal,
           copies[n].id = k, copies[c].id = k, Outgoing = {},
           copies' = Mark(c, "OUTGOING")
    PROVE  Contents' = [Contents EXCEPT ![k] = copies[n].val]
<1>1. /\ FlashInv' /\ Incoming' = {n} /\ Outgoing' = {c} /\ copies'[n] = copies[n]
      /\ \A t \in Slot : /\ copies'[t].st = IF t = c THEN "OUTGOING" ELSE copies[t].st
                         /\ copies'[t].id = copies[t].id
                         /\ copies'[t].val = copies[t].val
  BY MarkOutgoing
<1>2. n \in Settled(k)' /\ copies'[n].val = copies[n].val
  BY <1>1 DEF Settled
<1>3. \A i \in Id : i # k => Settled(i)' = Settled(i)
  BY <1>1 DEF Settled, Outgoing
<1> QED
  BY <1>1, <1>2, <1>3, OneChange DEF Settled

(* A new record becomes VALID. *)
LEMMA InsertContents ==
    ASSUME FlashInv, NEW k \in Id, NEW n \in Slot,
           copies[n].st = "INCOMING", copies[n].val # NoVal, copies[n].id = k,
           Outgoing = {}, Valid(k) = {},
           copies' = Mark(n, "VALID")
    PROVE  Contents' = [Contents EXCEPT ![k] = copies[n].val]
<1>1. /\ FlashInv' /\ Incoming' = {} /\ Outgoing' = Outgoing
      /\ \A t \in Slot : t # n => copies'[t] = copies[t]
      /\ copies'[n] = [copies[n] EXCEPT !.st = "VALID"]
  BY MarkValid
<1>2. copies'[n].st = "VALID" /\ copies'[n].id = k /\ copies'[n].val = copies[n].val
  BY <1>1 DEF FlashInv, Copy
<1>3. n \in Settled(k)'
  BY <1>2 DEF Settled
<1>4. \A i \in Id : i # k => Settled(i)' = Settled(i) /\ n \notin Settled(i)
  BY <1>1, <1>2 DEF Settled, Outgoing
<1>5. \A i \in Id : i # k => \A s \in Settled(i) : copies'[s].val = copies[s].val
  BY <1>1, <1>4 DEF Settled
<1> QED
  BY <1>1, <1>2, <1>3, <1>4, <1>5, OneChange

(* The successor of an OUTGOING record becomes VALID: it was settled. *)
LEMMA PromoteContents ==
    ASSUME FlashInv, NEW k \in Id, NEW o \in Slot, NEW n \in Slot,
           copies[n].st = "INCOMING", copies[n].val # NoVal, copies[n].id = k,
           o \in Outgoing, copies[o].id = k,
           copies' = Mark(n, "VALID")
    PROVE  Contents' = Contents
<1>1. /\ FlashInv' /\ Incoming' = {} /\ Outgoing' = Outgoing
      /\ \A t \in Slot : t # n => copies'[t] = copies[t]
      /\ copies'[n] = [copies[n] EXCEPT !.st = "VALID"]
  BY MarkValid
<1>2. /\ copies'[n].st = "VALID" /\ copies'[n].id = k /\ copies'[n].val = copies[n].val
      /\ o # n /\ copies'[o] = copies[o]
  BY <1>1 DEF FlashInv, Copy, Outgoing
<1>3. \A i \in Id : Settled(i)' = Settled(i)
  <2> SUFFICES ASSUME NEW i \in Id PROVE Settled(i)' = Settled(i)
    OBVIOUS
  <2>1. (\E p \in Outgoing' : copies'[p].id = i) <=> (\E p \in Outgoing : copies[p].id = i)
    BY <1>1, <1>2 DEF Outgoing
  <2> QED
    BY <1>1, <1>2, <2>1 DEF Settled
<1>4. \A i \in Id : \A s \in Settled(i) : copies'[s].val = copies[s].val
  BY <1>1, <1>2 DEF Settled
<1> QED
  BY <1>1, <1>3, <1>4, SameContents

(* The OUTGOING record goes when its successor is VALID. *)
LEMMA RetireContents ==
    ASSUME FlashInv, NEW o \in Outgoing, NEW n \in Slot, o \in Slot,
           copies[n].st = "VALID", copies[n].id = copies[o].id, Incoming = {},
           copies' = Mark(o, "DELETED")
    PROVE  Contents' = Contents
<1>1. /\ FlashInv' /\ Outgoing' = {} /\ Incoming' = {}
      /\ \A i \in Id : Valid(i)' = Valid(i) \ {o}
      /\ \A t \in Slot : t # o => copies'[t] = copies[t]
  BY MarkGone DEF FlashInv, AtMostOneInFlight
<1>2. \A i \in Id : Valid(i)' = Valid(i)
  BY <1>1 DEF Valid, Outgoing
<1>3. \A i \in Id : Settled(i) = Valid(i) /\ Settled(i)' = Valid(i)'
  BY <1>1 DEF Settled, Valid, Incoming
<1>4. \A i \in Id : \A s \in Valid(i) : copies'[s].val = copies[s].val
  BY <1>1 DEF Valid, Outgoing
<1> QED
  BY <1>1, <1>2, <1>3, <1>4, SameContents

(* A record is cleared. *)
LEMMA ClearContents ==
    ASSUME FlashInv, NEW k \in Id, NEW v \in Valid(k), v \in Slot, Outgoing = {},
           copies' = Mark(v, "DELETED")
    PROVE  Contents' = [Contents EXCEPT ![k] = NoVal]
<1>1. /\ FlashInv' /\ Outgoing' = {}
      /\ \A i \in Id : Valid(i)' = Valid(i) \ {v}
      /\ \A t \in Slot : t # v => copies'[t] = copies[t]
  BY MarkGone
<1>2. \A i \in Id : Settled(i) = Valid(i) /\ Settled(i)' = Valid(i)'
  BY <1>1 DEF Settled, Valid
<1>3. Valid(k) = {v} /\ Settled(k)' = {}
  BY <1>1, <1>2 DEF FlashInv, OneValidPerId
<1>4. \A i \in Id : i # k => Valid(i)' = Valid(i) /\ v \notin Valid(i)
  BY <1>1 DEF Valid
<1>5. \A i \in Id : i # k => \A s \in Valid(i) : copies'[s].val = copies[s].val
  BY <1>1, <1>4 DEF Valid
<1> QED
  BY <1>1, <1>2, <1>3, <1>4, <1>5, OneChange

(* A block is erased. *)
LEMMA WipeContents ==
    ASSUME FlashInv, NEW S \in SUBSET Dead, copies' = Wipe(S)
    PROVE  Contents' = Contents
<1>0. S \in SUBSET Slot
  BY DEF Dead
<1>1. FlashInv' /\ Outgoing' = Outgoing
  BY WipeFlash
<1>2. \A t \in Slot : copies'[t] = IF t \in S THEN Free ELSE copies[t]
  BY <1>0, WipeEffect DEF FlashInv
<1> QED
  BY <1>1, <1>2, IrrelevantChange DEF Dead, Free

-----------------------------------------------------------------------------
(* A write sequence changes the store at its commit step, and only there.   *)

Commits == put.kind = "write" /\ put.step = CommitStep

LEMMA StepContents ==
    ASSUME ProtocolInv, put # NoPut, copies' = AfterStep
    PROVE  Contents' = IF Commits THEN [Contents EXCEPT ![put.id] = put.val] ELSE Contents
<1>0. /\ FlashInv /\ WriteInv /\ FlashInv'
      /\ put.step \in {"INCOMING", "data", "OUTGOING", "VALID", "DELETED"}
      /\ put.cur \in Slot \cup {NoSlot}
      /\ put.kind \in {"write", "move"}
  BY StepFlash, ProtocolFlash DEF WriteInv, Put, Steps
<1>1. /\ put.new \in Slot /\ put.id \in Id /\ put.val \in Val /\ put.cur # put.new
      /\ put.val # NoVal /\ NoSlot # put.new
      /\ Outgoing \subseteq {put.cur} /\ Incoming \subseteq {put.new}
      /\ put.cur = NoSlot => Valid(put.id) = {} /\ Outgoing = {}
  BY <1>0 DEF WriteInv, Outgoing
<1>2. CASE put.step = "INCOMING"
  <2>1. Outgoing = {}
    BY <1>0, <1>1, <1>2 DEF WriteInv, Outgoing
  <2>2. /\ Outgoing' = {} /\ \A i \in Id : Valid(i)' = Valid(i)
        /\ \A i \in Id : \A s \in Valid(i) : copies'[s].val = copies[s].val
    <3>1. copies[put.new].st # "VALID"
      BY <1>0, <1>2 DEF WriteInv
    <3> QED
      BY <1>0, <1>2, <2>1, <3>1, StepIncoming DEF Valid
  <2> QED
    BY <1>0, <1>2, <2>1, <2>2, NothingOutgoing DEF Commits, CommitStep
<1>3. CASE put.step = "data"
  <2>1. /\ Outgoing = {} /\ Outgoing' = {} /\ \A i \in Id : Valid(i)' = Valid(i)
        /\ \A i \in Id : \A s \in Valid(i) : copies'[s].val = copies[s].val
    <3>1. copies[put.new].st # "VALID"
      BY <1>0, <1>3 DEF WriteInv
    <3> QED
      BY <1>0, <1>3, <3>1, StepData DEF Valid, AfterStep
  <2> QED
    BY <1>0, <1>3, <2>1, NothingOutgoing DEF Commits, CommitStep
<1>4. CASE put.step = "OUTGOING"
  <2>1. /\ put.cur \in Slot /\ put.cur # NoSlot
        /\ copies[put.cur].st = "VALID" /\ copies[put.cur].id = put.id
        /\ copies[put.new].st = "INCOMING" /\ copies[put.new].id = put.id
        /\ copies[put.new].val = put.val
        /\ copies' = Mark(put.cur, "OUTGOING")
        /\ put.kind = "move" => copies[put.cur].val = put.val
    BY <1>0, <1>1, <1>4 DEF WriteInv, AfterStep
  <2>2. Outgoing = {}
    BY <1>1, <2>1 DEF Outgoing
  <2>3. Contents' = [Contents EXCEPT ![put.id] = put.val]
    BY <1>0, <1>1, <2>1, <2>2, ReplaceContents
  <2>4. put.kind = "move" => Contents[put.id] = put.val
    <3>1. put.cur \in Settled(put.id)
      BY <2>1 DEF Settled
    <3> QED
      BY <1>0, <1>1, <2>1, <3>1, ContentsIs DEF ContentsSettled
  <2>5. [Contents EXCEPT ![put.id] = Contents[put.id]] = Contents
    BY <1>1 DEF Contents
  <2> QED
    BY <1>0, <1>4, <2>1, <2>3, <2>4, <2>5 DEF Commits, CommitStep
<1>5. CASE put.step = "VALID"
  <2>1. /\ copies[put.new].st = "INCOMING" /\ copies[put.new].id = put.id
        /\ copies[put.new].val = put.val
        /\ copies' = Mark(put.new, "VALID")
    BY <1>0, <1>5 DEF WriteInv, AfterStep
  <2>2. CASE put.cur = NoSlot
    <3>1. Contents' = [Contents EXCEPT ![put.id] = put.val]
      BY <1>0, <1>1, <2>1, <2>2, InsertContents
    <3>2. put.kind = "write"
      BY <1>0, <2>2 DEF WriteInv
    <3> QED
      BY <1>5, <2>2, <3>1, <3>2 DEF Commits, CommitStep
  <2>3. CASE put.cur # NoSlot
    <3>1. put.cur \in Outgoing /\ copies[put.cur].id = put.id /\ put.cur \in Slot
      BY <1>0, <1>5, <2>3 DEF WriteInv, Outgoing
    <3> QED
      BY <1>0, <1>1, <1>5, <2>1, <2>3, <3>1, PromoteContents DEF Commits, CommitStep
  <2> QED
    BY <2>2, <2>3
<1>6. CASE put.step = "DELETED"
  <2>1. /\ put.cur \in Outgoing /\ put.cur \in Slot /\ copies[put.cur].id = put.id
        /\ copies[put.new].st = "VALID" /\ copies[put.new].id = put.id
        /\ copies' = Mark(put.cur, "DELETED")
    BY <1>0, <1>6 DEF WriteInv, AfterStep, Outgoing
  <2>2. Incoming = {}
    BY <1>1, <2>1 DEF Incoming
  <2> QED
    BY <1>0, <1>1, <1>6, <2>1, <2>2, RetireContents DEF Commits, CommitStep
<1> QED
  BY <1>0, <1>2, <1>3, <1>4, <1>5, <1>6

LEMMA CopiesSame ==
    ASSUME copies' = copies
    PROVE  Contents' = Contents
BY DEF Contents, Settled, Outgoing

LEMMA CutContents ==
    ASSUME ProtocolInv, copies' \in CutShort
    PROVE  \/ Contents' = Contents
           \/ /\ put # NoPut /\ Commits /\ copies' = AfterStep
              /\ Contents' = [Contents EXCEPT ![put.id] = put.val]
<1>0. FlashInv /\ WriteInv
  BY ProtocolFlash
<1>1. CASE put = NoPut
  BY <1>0, <1>1, WipeContents DEF CutShort
<1>2. CASE put # NoPut /\ copies' = copies
  BY <1>2, CopiesSame
<1>3. CASE put # NoPut /\ copies' = AfterStep
  BY <1>3, StepContents
<1>4. CASE /\ put # NoPut /\ put.step = "data"
           /\ copies' = [copies EXCEPT ![put.new] =
                           [st |-> "INCOMING", id |-> put.id, val |-> NoVal]]
  <2>1. copies[put.new].st # "VALID"
    BY <1>0, <1>4 DEF WriteInv
  <2>2. /\ FlashInv' /\ Outgoing = {} /\ Outgoing' = {} /\ \A i \in Id : Valid(i)' = Valid(i)
        /\ \A i \in Id : \A s \in Valid(i) : copies'[s].val = copies[s].val
    BY <1>0, <1>4, <2>1, StepData DEF Valid
  <2> QED
    BY <1>0, <2>2, NothingOutgoing
<1> QED
  BY <1>1, <1>2, <1>3, <1>4 DEF CutShort

-----------------------------------------------------------------------------
(* Every action is a step of the store or leaves it alone. *)

LEMMA AbandonStep ==
    ASSUME ProtocolInv, PutFault \/ Crash \/ InitFail \/ AnswerError \/ AnswerFailed
    PROVE  Store!Abandon
<1>0. FlashInv /\ ModeInv /\ WriteInv /\ done \in BOOLEAN
  BY ProtocolFlash
<1>1. copies' \in CutShort \/ copies' = copies
  BY DEF PutFault, Crash, InitFail, AnswerError, AnswerFailed
<1>2. \/ Contents' = Contents
      \/ /\ put # NoPut /\ Commits
         /\ Contents' = [Contents EXCEPT ![put.id] = put.val]
  BY <1>1, CutContents, CopiesSame
<1>3. pending' = NoReq /\ reply' \in {reply, ErrReply} /\ done' \in BOOLEAN
  BY <1>0 DEF PutFault, Crash, InitFail, AnswerError, AnswerFailed, Answer
<1>4. put # NoPut /\ Commits =>
        /\ pending # NoReq /\ pending.op = "write" /\ ~done
        /\ pending.id = put.id /\ pending.val = put.val
  BY <1>0 DEF WriteInv, ModeInv, Commits, CommitStep
<1> QED
  BY <1>2, <1>3, <1>4
     DEF Store!Abandon, Store!MayApply, Store!Applied, Store!ErrReply, ErrReply

LEMMA RequestStep ==
    ASSUME ProtocolInv,
           (\E r \in Request : Receive(r)) \/ AnswerDone \/ AnswerRead \/ AnswerNotFound \/ AnswerDummy
    PROVE  Store!Next
<1>0. /\ FlashInv /\ ModeInv /\ WriteInv /\ SettledWhenReady
      /\ pending \in Request \cup {NoReq} /\ put \in Put
  BY ProtocolFlash
<1>1. ASSUME NEW r \in Request, Receive(r) PROVE Store!Next
  <2>1. Contents' = Contents
    BY <1>1, CopiesSame DEF Receive
  <2>2. r \in Store!Request
    BY DEF Request, Store!Request
  <2> QED
    BY <1>1, <2>1, <2>2 DEF Receive, Store!Next, Store!Receive, NoReply, Store!NoReply
<1>2. CASE AnswerDone \/ AnswerRead \/ AnswerNotFound \/ AnswerDummy
  <2>1. /\ mode = "busy" /\ pending # NoReq /\ pending \in Request
        /\ copies' = copies /\ pending' = NoReq /\ done' = done
    BY <1>0, <1>2 DEF AnswerDone, AnswerRead, AnswerNotFound, AnswerDummy, Answer, ModeInv
  <2>2. Contents' = Contents
    BY <2>1, CopiesSame
  <2>3. put = NoPut /\ Outgoing = {}
    <3>1. put = NoPut
      BY <1>0, <1>2 DEF AnswerDone, AnswerRead, AnswerNotFound, AnswerDummy, WriteInv, Put, ModeInv
    <3> QED
      BY <1>0, <2>1, <3>1 DEF SettledWhenReady, Resolved
  <2>4. pending.id \in Id
    BY <2>1 DEF Request
  <2>5. /\ Valid(pending.id) = {} => Contents[pending.id] = NoVal
        /\ \A s \in Valid(pending.id) : Contents[pending.id] = copies[s].val
    <3>1. Settled(pending.id) = Valid(pending.id)
      BY <2>3 DEF Settled, Valid
    <3> QED
      BY <1>0, <2>4, <3>1, ContentsIs DEF ContentsSettled
  <2>6. reply' \in Reply /\ reply' \in Store!Reply
    <3>1. \A s \in Slot : copies[s].val \in Val \cup {NoVal}
      BY <1>0 DEF FlashInv, Copy
    <3>2. reply' \in Reply
      BY <1>2, <3>1, ReplyTypes DEF AnswerDone, AnswerRead, AnswerNotFound, AnswerDummy, Answer, Valid
    <3> QED
      BY <3>2 DEF Reply, Store!Reply
  <2>7. reply' \in Store!Answers(pending)
    <3>1. CASE AnswerDone
      <4>1. reply' = [status |-> "ok", val |-> NoVal] /\ done /\ pending.op \in {"write", "clear"}
        BY <1>0, <3>1 DEF AnswerDone, Answer, OkReply, ModeInv
      <4> QED
        BY <2>6, <4>1 DEF Store!Answers
    <3>2. CASE AnswerRead
      <4>1. PICK s \in Valid(pending.id) : reply' = [status |-> "ok", val |-> copies[s].val]
        BY <3>2 DEF AnswerRead, Answer, OkReply
      <4>2. copies[s].val # NoVal
        BY <1>0 DEF Valid, FlashInv, CopiesWellFormed
      <4>3. pending.op = "read"
        BY <3>2 DEF AnswerRead
      <4> QED
        BY <2>5, <2>6, <4>1, <4>2, <4>3 DEF Store!Answers
    <3>3. CASE AnswerNotFound
      <4>1. reply' = [status |-> "notfound", val |-> NoVal]
        BY <3>3 DEF AnswerNotFound, Answer, NotFound
      <4> QED
        BY <2>5, <2>6, <3>3, <4>1 DEF Store!Answers, AnswerNotFound
    <3>4. CASE AnswerDummy
      <4>1. reply' = [status |-> "ok", val |-> NoVal] /\ pending.op = "dummy"
        BY <3>4 DEF AnswerDummy, Answer, OkReply
      <4> QED
        BY <2>6, <4>1 DEF Store!Answers
    <3> QED
      BY <1>2, <3>1, <3>2, <3>3, <3>4
  <2> QED
    BY <2>1, <2>2, <2>7 DEF Store!Next, Store!Respond
<1> QED
  BY <1>1, <1>2

LEMMA ApplyStep ==
    ASSUME ProtocolInv, PutStep \/ (\E s \in Slot : Clear(s))
    PROVE  Store!Apply \/ UNCHANGED Store!vars
<1>0. FlashInv /\ ModeInv /\ WriteInv /\ SettledWhenReady /\ pending \in Request \cup {NoReq}
      /\ done \in BOOLEAN
  BY ProtocolFlash
<1>1. CASE PutStep
  <2>1. put # NoPut /\ copies' = AfterStep /\ UNCHANGED <<pending, reply>>
    BY <1>1 DEF PutStep, NoPut
  <2>2. Contents' = IF Commits THEN [Contents EXCEPT ![put.id] = put.val] ELSE Contents
    BY <2>1, StepContents
  <2>3. Commits => /\ pending # NoReq /\ pending.op = "write" /\ ~done
                   /\ pending.id = put.id /\ pending.val = put.val
    BY <1>0, <2>1 DEF WriteInv, ModeInv, Commits, CommitStep
  <2>4. done' = (done \/ Commits)
    BY <1>1 DEF PutStep, Commits
  <2>5. CASE Commits
    BY <2>1, <2>2, <2>3, <2>4, <2>5 DEF Store!Apply, Store!MayApply, Store!Applied
  <2>6. CASE ~Commits
    BY <1>0, <2>1, <2>2, <2>4, <2>6 DEF Store!vars
  <2> QED
    BY <2>5, <2>6
<1>2. ASSUME NEW s \in Slot, Clear(s) PROVE Store!Apply
  <2>1. /\ mode = "busy" /\ pending.op = "clear" /\ ~done /\ s \in Valid(pending.id)
        /\ done' = TRUE /\ UNCHANGED <<pending, reply>> /\ copies' = Mark(s, "DELETED")
    BY <1>2 DEF Clear
  <2>2. pending # NoReq /\ pending.id \in Id /\ pending.val = NoVal
    BY <1>0, <2>1 DEF ModeInv, Request
  <2>3. Outgoing = {}
    BY <1>0, <1>2 DEF Clear, SettledWhenReady, Resolved
  <2>4. Contents' = [Contents EXCEPT ![pending.id] = NoVal]
    BY <1>0, <2>1, <2>2, <2>3, ClearContents
  <2> QED
    BY <2>1, <2>2, <2>4 DEF Store!Apply, Store!MayApply, Store!Applied
<1> QED
  BY <1>1, <1>2

LEMMA SilentStep ==
    ASSUME ProtocolInv,
           PowerOn \/ (\E n \in Slot : BeginWrite(n)) \/ (\E c, n \in Slot : BeginMove(c, n))
             \/ (\E S \in SUBSET Slot : Erase(S))
             \/ (\E k, o \in Slot : RecoverIncoming(k, o)) \/ (\E o \in Slot : RecoverOutgoing(o))
             \/ (\E k \in Slot : RecoverMerge(k)) \/ (\E k \in Slot : RecoverInvalid(k))
             \/ InitDone
    PROVE  UNCHANGED Store!vars
<1>0. FlashInv /\ ModeInv
  BY ProtocolFlash
<1>1. UNCHANGED <<pending, done, reply>>
  BY DEF PowerOn, BeginWrite, BeginMove, Erase, RecoverIncoming, RecoverOutgoing,
         RecoverMerge, RecoverInvalid, InitDone, Recover
<1>2. CASE copies' = copies
  BY <1>1, <1>2, CopiesSame DEF Store!vars
<1>3. ASSUME NEW S \in SUBSET Slot, Erase(S) PROVE Contents' = Contents
  BY <1>0, <1>3, WipeContents DEF Erase
<1>4. ASSUME NEW k \in Slot, NEW o \in Slot, RecoverIncoming(k, o) PROVE Contents' = Contents
  <2>1. /\ k \in Incoming /\ o \in Outgoing
        /\ copies[k].id = copies[o].id /\ copies[k].val # NoVal /\ copies[k].st = "INCOMING"
        /\ copies[k].id \in Id
    BY <1>0, <1>4 DEF RecoverIncoming, FlashInv, OutgoingHasSuccessor, Successor, Incoming, Copy
  <2> QED
    BY <1>0, <1>4, <2>1, PromoteContents DEF RecoverIncoming, Recover
<1>5. ASSUME NEW o \in Slot, RecoverOutgoing(o) PROVE Contents' = Contents
  <2>1. o \in Outgoing /\ Incoming = {}
    BY <1>5 DEF RecoverOutgoing
  <2>2. PICK s \in Slot : copies[s].st = "VALID" /\ copies[s].id = copies[o].id
    BY <1>0, <2>1 DEF FlashInv, OutgoingHasSuccessor, Successor, Incoming, CopiesWellFormed
  <2>3. copies' = Mark(o, "DELETED")
    BY <1>5, <2>2 DEF RecoverOutgoing, Recover, Valid
  <2> QED
    BY <1>0, <2>1, <2>2, <2>3, RetireContents
<1>6. ASSUME NEW k \in Slot, RecoverInvalid(k) PROVE Contents' = Contents
  <2>1. k \in Incoming /\ Outgoing = {} /\ copies' = Mark(k, "INVALID")
    BY <1>6 DEF RecoverInvalid, Recover
  <2>2. /\ FlashInv' /\ Outgoing' = {} /\ \A i \in Id : Valid(i)' = Valid(i) \ {k}
        /\ \A t \in Slot : t # k => copies'[t] = copies[t]
    BY <1>0, <2>1, MarkGone
  <2>3. \A i \in Id : k \notin Valid(i)
    BY <2>1 DEF Incoming, Valid
  <2>4. \A i \in Id : Valid(i)' = Valid(i) /\ \A s \in Valid(i) : copies'[s].val = copies[s].val
    BY <2>2, <2>3 DEF Valid
  <2> QED
    BY <1>0, <2>1, <2>2, <2>4, NothingOutgoing
<1>7. CASE PowerOn \/ (\E n \in Slot : BeginWrite(n)) \/ (\E c, n \in Slot : BeginMove(c, n))
             \/ (\E k \in Slot : RecoverMerge(k)) \/ InitDone
  BY <1>2, <1>7 DEF PowerOn, BeginWrite, BeginMove, RecoverMerge, InitDone
<1> QED
  BY <1>1, <1>3, <1>4, <1>5, <1>6, <1>7 DEF Store!vars

THEOREM StepSimulation == ProtocolInv /\ [Next]_vars => [Store!Next]_(Store!vars)
<1> SUFFICES ASSUME ProtocolInv, [Next]_vars PROVE [Store!Next]_(Store!vars)
  OBVIOUS
<1>1. CASE Next
  BY <1>1, AbandonStep, RequestStep, ApplyStep, SilentStep DEF Next, Store!Next
<1>2. CASE UNCHANGED vars
  BY <1>2, CopiesSame DEF vars, Store!vars
<1> QED
  BY <1>1, <1>2

THEOREM InitSimulation == Init => Store!Init
<1> SUFFICES ASSUME Init PROVE Store!Init
  OBVIOUS
<1>1. \A i \in Id : Settled(i) = {}
  BY DEF Init, Settled, Free
<1>2. Contents = [i \in Id |-> NoVal]
  BY <1>1 DEF Contents
<1> QED
  BY <1>2 DEF Init, Store!Init, NoReply, Store!NoReply

(* The record protocol implements the store: an acknowledged write or clear *)
(* survives every power loss, fault and clean-up, a request takes effect at *)
(* most once and never after it was abandoned, and a read returns what is   *)
(* stored.                                                                  *)
THEOREM StoreImplemented == Spec => StoreSpec
<1>1. Init => Store!Init
  BY InitSimulation
<1>2. ProtocolInv /\ [Next]_vars => [Store!Next]_(Store!vars)
  BY StepSimulation
<1> QED
  BY <1>1, <1>2, Invariance, PTL DEF Spec, StoreSpec, Store!Spec
=============================================================================
