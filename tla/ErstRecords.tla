----------------------------- MODULE ErstRecords -----------------------------
(****************************************************************************)
(* The record protocol of ErrorSerializationMmDxe: how a write, a           *)
(* relocation, a clear and the clean-up at initialization move the status   *)
(* bytes of the records on the NOR flash, with power loss and flash faults  *)
(* at every step.                                                           *)
(*                                                                          *)
(* A slot is a place on the flash where a record can start.  Blocks, sizes  *)
(* and the driver's tracking tables are abstracted here (the module Erst    *)
(* has them): which slot is chosen, when a block is reclaimed and whether   *)
(* space is found are nondeterministic.                                     *)
(****************************************************************************)

CONSTANTS
    Slot,     \* places where a record can start
    Id,       \* record ids
    Val,      \* record contents
    NoSlot,   \* "no current record": the write does not replace one
    NoId,     \* the header of this copy has not been written
    NoVal,    \* the body of this copy is incomplete, or "no record"
    NoReq     \* no request is pending

ASSUME DistinctAssumption ==
    /\ NoSlot \notin Slot
    /\ NoId \notin Id
    /\ NoVal \notin Val

Request == [op : {"write", "dummy"}, id : Id, val : Val]
             \cup [op : {"read", "clear"}, id : Id, val : {NoVal}]

ASSUME NoReqAssumption == NoReq \notin Request

VARIABLES
    copies,   \* what the flash holds at each slot
    mode,     \* where the driver is: see Modes
    pending,  \* the request being handled, or NoReq
    done,     \* the pending request has taken effect
    put,      \* the run of ErstWriteRecord in progress, or NoPut
    reply     \* the answer to the last request that was answered

vars == <<copies, mode, pending, done, put, reply>>

(* The status byte of a record: 0xFF, 0xFE, 0xF0, 0xE0, 0x80, 0x00. *)
Status == {"FREE", "INCOMING", "VALID", "OUTGOING", "DELETED", "INVALID"}

Copy  == [st : Status, id : Id \cup {NoId}, val : Val \cup {NoVal}]
Free  == [st |-> "FREE", id |-> NoId, val |-> NoVal]

(* off: no power.  init: ErrorSerializationInitialize runs.  idle: ready.   *)
(* stale: ready, but the next request runs ErrorSerializationReInit first.  *)
(* busy: the event handler runs.  failed: InitStatus is an error, and every *)
(* request is refused until the next boot.                                  *)
Modes == {"off", "init", "idle", "stale", "busy", "failed"}

(* The steps of ErstWriteRecord still to come: each is one flash write. *)
Steps == {"none", "INCOMING", "data", "OUTGOING", "VALID", "DELETED"}

Put == [step : Steps, kind : {"none", "write", "move"}, id : Id \cup {NoId},
        val : Val \cup {NoVal}, cur : Slot \cup {NoSlot}, new : Slot \cup {NoSlot}]
NoPut == [step |-> "none", kind |-> "none", id |-> NoId, val |-> NoVal,
          cur |-> NoSlot, new |-> NoSlot]

Reply == [status : {"none", "error", "notfound"}, val : {NoVal}]
           \cup [status : {"ok"}, val : Val \cup {NoVal}]
NoReply    == [status |-> "none",     val |-> NoVal]
ErrReply   == [status |-> "error",    val |-> NoVal]
NotFound   == [status |-> "notfound", val |-> NoVal]
OkReply(v) == [status |-> "ok",       val |-> v]

-----------------------------------------------------------------------------
(* Readings of the flash.  A header that was never written identifies no    *)
(* record: ErstCollectBlock treats the rest of its block as INVALID.        *)

Incoming == {s \in Slot : copies[s].st = "INCOMING" /\ copies[s].id # NoId}
Outgoing == {s \in Slot : copies[s].st = "OUTGOING"}
Valid(i) == {s \in Slot : copies[s].st = "VALID" /\ copies[s].id = i}

Resolved == Incoming = {} /\ Outgoing = {}

(* Nothing of value is lost when the block around such a slot is erased. *)
Dead == {s \in Slot : \/ copies[s].st \in {"FREE", "DELETED", "INVALID"}
                      \/ copies[s].st = "INCOMING" /\ copies[s].id = NoId}

(* Where ErstFindFreeSpace may put a record: erased space, or the place     *)
(* where only an INCOMING byte was written before the write was given up.   *)
Usable == {s \in Dead : copies[s].st \in {"FREE", "INCOMING"}}

-----------------------------------------------------------------------------
(* ErstWriteRecord: what one flash write of the sequence does. *)

Mark(s, st) == [copies EXCEPT ![s].st = st]

AfterStep ==
    CASE put.step = "INCOMING" -> Mark(put.new, "INCOMING")
      [] put.step = "data"     -> [copies EXCEPT ![put.new] =
                                     [st |-> "INCOMING", id |-> put.id, val |-> put.val]]
      [] put.step = "OUTGOING" -> Mark(put.cur, "OUTGOING")
      [] put.step = "VALID"    -> Mark(put.new, "VALID")
      [] put.step = "DELETED"  -> Mark(put.cur, "DELETED")
      [] OTHER                 -> copies

(* ErstEraseBlock on a block that holds, among others, the slots S. *)
Wipe(S) == [s \in Slot |-> IF s \in S THEN Free ELSE copies[s]]

(* A flash operation that is cut short or reported as failed.  A write      *)
(* leaves the old bytes, the new ones, or (for the record itself) a         *)
(* readable header with an incomplete body; an erase leaves some slots.     *)
CutShort ==
    IF put = NoPut
      THEN {Wipe(S) : S \in SUBSET Dead}
      ELSE {copies, AfterStep}
             \cup (IF put.step = "data"
                     THEN {[copies EXCEPT ![put.new] =
                              [st |-> "INCOMING", id |-> put.id, val |-> NoVal]]}
                     ELSE {})

(* Faulty variants of NextStep, which the runs must tell from it: OUTGOING  *)
(* is skipped; OUTGOING is written before the new record is; the replaced   *)
(* record is never deleted.                                                 *)
NextStepNoOutgoing ==
    CASE put.step = "INCOMING" -> "data"
      [] put.step = "data"     -> "VALID"
      [] put.step = "VALID"    -> IF put.cur # NoSlot THEN "DELETED" ELSE "none"
      [] OTHER                 -> "none"

NextStepEarlyOutgoing ==
    CASE put.step = "INCOMING" -> IF put.cur # NoSlot THEN "OUTGOING" ELSE "data"
      [] put.step = "OUTGOING" -> "data"
      [] put.step = "data"     -> "VALID"
      [] put.step = "VALID"    -> IF put.cur # NoSlot THEN "DELETED" ELSE "none"
      [] OTHER                 -> "none"

NextStepNoDeleted ==
    CASE put.step = "INCOMING" -> "data"
      [] put.step = "data"     -> IF put.cur # NoSlot THEN "OUTGOING" ELSE "VALID"
      [] put.step = "OUTGOING" -> "VALID"
      [] OTHER                 -> "none"

NextStep ==
    CASE put.step = "INCOMING" -> "data"
      [] put.step = "data"     -> IF put.cur # NoSlot THEN "OUTGOING" ELSE "VALID"
      [] put.step = "OUTGOING" -> "VALID"
      [] put.step = "VALID"    -> IF put.cur # NoSlot THEN "DELETED" ELSE "none"
      [] OTHER                 -> "none"

(* From this step on the new record is what a reboot recovers. *)
CommitStep == IF put.cur # NoSlot THEN "OUTGOING" ELSE "VALID"

-----------------------------------------------------------------------------
Init ==
    /\ copies  = [s \in Slot |-> Free]
    /\ mode    = "off"
    /\ pending = NoReq
    /\ done    = FALSE
    /\ put     = NoPut
    /\ reply   = NoReply

PowerOn ==
    /\ mode = "off"
    /\ mode' = "init"
    /\ UNCHANGED <<copies, pending, done, put, reply>>

(* The OS rings the doorbell.  InitStatus and the synchronization of the    *)
(* tracking tables are looked at first.                                     *)
Receive(r) ==
    /\ mode \in {"idle", "stale", "failed"}
    /\ pending = NoReq
    /\ pending' = r
    /\ mode'    = CASE mode = "idle" -> "busy" [] mode = "stale" -> "init" [] OTHER -> "failed"
    /\ done'    = FALSE
    /\ reply'   = NoReply
    /\ UNCHANGED <<copies, put>>

(* The handler answers; m is "stale" when the driver knows that its tables  *)
(* and the flash may disagree.                                              *)
Answer(a, m) ==
    /\ pending' = NoReq
    /\ reply'   = a
    /\ mode'    = m
    /\ UNCHANGED <<done, put>>

(* A write starts: a new record, or one that replaces the valid record of   *)
(* its id.                                                                  *)
BeginWrite(n) ==
    /\ mode = "busy" /\ put = NoPut
    /\ pending.op = "write" /\ ~done
    /\ n \in Usable
    /\ \E c \in IF Valid(pending.id) = {} THEN {NoSlot} ELSE Valid(pending.id) :
          put' = [step |-> "INCOMING", kind |-> "write", id |-> pending.id,
                  val |-> pending.val, cur |-> c, new |-> n]
    /\ UNCHANGED <<copies, mode, pending, done, reply>>

(* ErstRelocateRecord: a block is being reclaimed to make room for a write, *)
(* or at the end of initialization.                                         *)
BeginMove(c, n) ==
    /\ \/ mode = "busy" /\ pending.op = "write" /\ ~done
       \/ mode = "init" /\ Resolved
    /\ put = NoPut
    /\ copies[c].st = "VALID"
    /\ n \in Usable
    /\ put' = [step |-> "INCOMING", kind |-> "move", id |-> copies[c].id,
               val |-> copies[c].val, cur |-> c, new |-> n]
    /\ UNCHANGED <<copies, mode, pending, done, reply>>

(* One flash write of the sequence succeeds. *)
PutStep ==
    /\ put.step # "none"
    /\ copies' = AfterStep
    /\ done'   = (done \/ (put.kind = "write" /\ put.step = CommitStep))
    /\ put'    = IF NextStep = "none" THEN NoPut ELSE [put EXCEPT !.step = NextStep]
    /\ UNCHANGED <<mode, pending, reply>>

(* A faulty variant: the driver believes that it is in sync after any fault. *)
PutFaultInSync ==
    /\ put.step # "none"
    /\ copies' \in CutShort
    /\ done'   = (done \/ (put.kind = "write" /\ put.step = CommitStep /\ copies' = AfterStep))
    /\ put'    = NoPut
    /\ mode'   = IF mode = "init" THEN "failed" ELSE "idle"
    /\ pending' = NoReq
    /\ reply'   = IF pending = NoReq THEN reply ELSE ErrReply

(* A flash write of the sequence reports an error: the request fails.  The  *)
(* driver knows that it is out of sync, except when the very first write of *)
(* a new record failed.                                                     *)
PutFault ==
    /\ put.step # "none"
    /\ copies' \in CutShort
    /\ done'   = (done \/ (put.kind = "write" /\ put.step = CommitStep /\ copies' = AfterStep))
    /\ put'    = NoPut
    /\ mode'   = CASE mode = "init" -> "failed"
                   [] mode # "init" /\ put.step = "INCOMING" /\ put.cur = NoSlot -> "idle"
                   [] OTHER -> "stale"
    /\ pending' = NoReq
    /\ reply'   = IF pending = NoReq THEN reply ELSE ErrReply

(* ErstEraseBlock: the block may hold any dead slots, and no others. *)
Erase(S) ==
    /\ mode \in {"init", "busy"} /\ put = NoPut
    /\ mode = "busy" => pending.op = "write" /\ ~done
    /\ S \subseteq Dead
    /\ copies' = Wipe(S)
    /\ UNCHANGED <<mode, pending, done, put, reply>>

(* ErstClearRecord, called for an OS request. *)
Clear(s) ==
    /\ mode = "busy" /\ put = NoPut
    /\ pending.op = "clear" /\ ~done
    /\ s \in Valid(pending.id)
    /\ copies' = Mark(s, "DELETED")
    /\ done'   = TRUE
    /\ UNCHANGED <<mode, pending, put, reply>>

(* The handler's answers. *)
AnswerDone ==
    /\ mode = "busy" /\ put = NoPut /\ done
    /\ Answer(OkReply(NoVal), "idle")
    /\ UNCHANGED copies

AnswerRead ==
    /\ mode = "busy" /\ pending.op = "read"
    /\ \E s \in Valid(pending.id) : Answer(OkReply(copies[s].val), "idle")
    /\ UNCHANGED copies

AnswerNotFound ==
    /\ mode = "busy" /\ pending.op \in {"read", "clear"} /\ ~done
    /\ Valid(pending.id) = {}
    /\ Answer(NotFound, "idle")
    /\ UNCHANGED copies

(* A dummy write of an id that has a record leaves the driver out of sync. *)
AnswerDummy ==
    /\ mode = "busy" /\ pending.op = "dummy"
    /\ Answer(OkReply(NoVal), IF Valid(pending.id) = {} THEN "idle" ELSE "stale")
    /\ UNCHANGED copies

(* No space is found, an erase fails, the driver refuses to write where it  *)
(* found space, or the flash refuses the DELETED byte of a clear.           *)
AnswerError ==
    /\ mode = "busy" /\ put = NoPut /\ ~done
    /\ copies' \in IF pending.op = "write" THEN CutShort ELSE {copies}
    /\ \E m \in {"idle", "stale"} : Answer(ErrReply, m)

(* InitStatus is an error: nothing is looked at. *)
AnswerFailed ==
    /\ mode = "failed" /\ pending # NoReq
    /\ Answer(ErrReply, "failed")
    /\ UNCHANGED copies

-----------------------------------------------------------------------------
(* Initialization: ErstCollectBlockInfo cleans up OUTGOING and INCOMING. *)

Recover(s, st) ==
    /\ mode = "init" /\ put = NoPut
    /\ copies' = Mark(s, st)
    /\ UNCHANGED <<mode, pending, done, put, reply>>

(* OUTGOING and INCOMING: with one id INCOMING is complete and becomes      *)
(* VALID, otherwise both are INVALID.                                       *)
RecoverIncoming(i, o) ==
    /\ i \in Incoming /\ o \in Outgoing
    /\ Recover(i, IF copies[i].id = copies[o].id THEN "VALID" ELSE "INVALID")

(* OUTGOING alone: its VALID successor makes it DELETED, otherwise INVALID. *)
RecoverOutgoing(o) ==
    /\ o \in Outgoing /\ Incoming = {}
    /\ Recover(o, IF Valid(copies[o].id) # {} THEN "DELETED" ELSE "INVALID")

(* INCOMING alone, and the VALID record can be copied over it               *)
(* (ErstCopyValidToIncomingCper): the write sequence is run again.          *)
RecoverMerge(i) ==
    /\ mode = "init" /\ put = NoPut
    /\ i \in Incoming /\ Outgoing = {}
    /\ \E v \in Valid(copies[i].id) :
          put' = [step |-> "INCOMING", kind |-> "move", id |-> copies[v].id,
                  val |-> copies[v].val, cur |-> v, new |-> i]
    /\ UNCHANGED <<copies, mode, pending, done, reply>>

(* A faulty variant: whatever INCOMING holds is taken for a whole record. *)
RecoverInvalidAsValid(i) ==
    /\ i \in Incoming /\ Outgoing = {}
    /\ Recover(i, "VALID")

(* INCOMING alone, no VALID record or not one that fits: it is dropped. *)
RecoverInvalid(i) ==
    /\ i \in Incoming /\ Outgoing = {}
    /\ Recover(i, "INVALID")

(* A faulty variant: requests are served before the clean-up is finished. *)
InitDoneEarly ==
    /\ mode = "init" /\ put = NoPut
    /\ mode' = IF pending = NoReq THEN "idle" ELSE "busy"
    /\ UNCHANGED <<copies, pending, done, put, reply>>

InitDone ==
    /\ mode = "init" /\ put = NoPut /\ Resolved
    /\ mode' = IF pending = NoReq THEN "idle" ELSE "busy"
    /\ UNCHANGED <<copies, pending, done, put, reply>>

(* A flash error, or no free block is left. *)
InitFail ==
    /\ mode = "init" /\ put = NoPut
    /\ copies'  \in CutShort
    /\ mode'    = "failed"
    /\ pending' = NoReq
    /\ reply'   = IF pending = NoReq THEN reply ELSE ErrReply
    /\ UNCHANGED <<done, put>>

(* Power is lost, possibly in the middle of a flash write. *)
Crash ==
    /\ mode # "off"
    /\ copies'  \in IF mode \in {"init", "busy"} THEN CutShort ELSE {copies}
    /\ done'    = (done \/ (put.kind = "write" /\ put.step = CommitStep /\ copies' = AfterStep))
    /\ mode'    = "off"
    /\ pending' = NoReq
    /\ put'     = NoPut
    /\ UNCHANGED reply

Next ==
    \/ PowerOn
    \/ \E r \in Request : Receive(r)
    \/ \E n \in Slot : BeginWrite(n)
    \/ \E c, n \in Slot : BeginMove(c, n)
    \/ PutStep
    \/ PutFault
    \/ \E s \in Slot : Clear(s)
    \/ AnswerDone \/ AnswerRead \/ AnswerNotFound \/ AnswerDummy
    \/ AnswerError \/ AnswerFailed
    \/ \E i, o \in Slot : RecoverIncoming(i, o)
    \/ \E o \in Slot : RecoverOutgoing(o)
    \/ \E i \in Slot : RecoverMerge(i)
    \/ \E i \in Slot : RecoverInvalid(i)
    \/ InitDone
    \/ InitFail
    \/ Crash
    \/ \E S \in SUBSET Slot : Erase(S)

Spec == Init /\ [][Next]_vars

-----------------------------------------------------------------------------
(* Properties. *)

TypeOK ==
    /\ copies  \in [Slot -> Copy]
    /\ mode    \in Modes
    /\ pending \in Request \cup {NoReq}
    /\ done    \in BOOLEAN
    /\ put     \in Put
    /\ reply   \in Reply

(* "At most one OUTGOING Status can be seen", "at most one INCOMING Status  *)
(* can be seen" (the format overview of ErrorSerializationMm.c): whatever   *)
(* power losses and faults came before, in the middle of a clean-up too.    *)
AtMostOneInFlight ==
    /\ \A s, t \in Outgoing : s = t
    /\ \A s, t \in Incoming : s = t

(* A record that is being replaced has exactly one successor, complete on   *)
(* the flash: so the branches of ErstCollectBlockInfo that mark an OUTGOING *)
(* record INVALID, and lose it, are never taken.                            *)
Successor(o) ==
    {s \in Slot : /\ copies[s].st \in {"INCOMING", "VALID"}
                  /\ copies[s].id = copies[o].id /\ copies[s].val # NoVal}

OutgoingHasSuccessor ==
    \A o \in Outgoing :
        /\ \E s \in Successor(o) : Successor(o) = {s}
        /\ \A i \in Incoming : i \in Successor(o)

(* No record id has two VALID copies, so that ErstFindRecord, a relocation  *)
(* and a later clear all speak of the same one.                             *)
OneValidPerId ==
    \A i \in Id : \A s, t \in Valid(i) : s = t

(* Outside a write sequence and the clean-up, the flash holds no record in  *)
(* transition: what ErstFindRecord skips is nothing.                        *)
SettledWhenReady ==
    mode \in {"idle", "busy"} /\ put = NoPut => Resolved

(* The record that a reboot would recover for an id: the copy on which the  *)
(* clean-up settles.                                                        *)
Settled(i) ==
    {s \in Slot : /\ copies[s].id = i
                  /\ \/ copies[s].st = "VALID"
                     \/ copies[s].st = "INCOMING" /\ \E o \in Outgoing : copies[o].id = i}

Contents ==
    [i \in Id |-> IF Settled(i) = {} THEN NoVal
                  ELSE copies[CHOOSE s \in Settled(i) : TRUE].val]

(* The protocol implements the store: each request takes effect at one      *)
(* flash write, an acknowledged one is never lost or undone by a power      *)
(* loss, a fault or the clean-up, and a read returns what is stored.        *)
Store == INSTANCE ErstStore WITH store <- Contents
StoreSpec == Store!Spec

-----------------------------------------------------------------------------
(* The inductive invariant behind the properties above.                     *)

(* A record in transition or in force has a readable header, and a record   *)
(* in force or being replaced is complete.                                  *)
CopiesWellFormed ==
    \A s \in Slot :
        /\ copies[s].st \in {"VALID", "OUTGOING"} => copies[s].id # NoId /\ copies[s].val # NoVal
        /\ copies[s].id = NoId => copies[s].val = NoVal
        /\ copies[s].st = "FREE" => copies[s].id = NoId

(* The modes in which a request is pending. *)
ModeInv ==
    /\ mode \in {"off", "idle", "stale"} => pending = NoReq
    /\ mode = "busy" => pending # NoReq
    /\ mode = "init" /\ pending # NoReq => ~done
    /\ mode = "busy" /\ done => pending.op \in {"write", "clear"}
    /\ put # NoPut => mode \in {"busy", "init"}

(* What the flash holds before each step of a write sequence. *)
WriteInv ==
    put # NoPut =>
        /\ put.step # "none" /\ put.kind # "none"
        /\ put.new \in Slot /\ put.id \in Id /\ put.val \in Val /\ put.cur # put.new
        /\ put.kind = "write" =>
              /\ mode = "busy" /\ pending.op = "write"
              /\ pending.id = put.id /\ pending.val = put.val
              /\ done = (put.cur # NoSlot /\ put.step \in {"VALID", "DELETED"})
              /\ put.step = "INCOMING" => copies[put.new].id = NoId
        /\ put.kind = "move" =>
              /\ put.cur # NoSlot /\ copies[put.cur].val = put.val
              /\ mode = "busy" => pending.op = "write" /\ ~done
        /\ put.cur # NoSlot => copies[put.cur].id = put.id
        /\ put.step \in {"OUTGOING", "DELETED"} => put.cur # NoSlot
        /\ put.cur = NoSlot => Valid(put.id) = {}
        /\ put.cur # NoSlot =>
              copies[put.cur].st = IF put.step \in {"INCOMING", "data", "OUTGOING"}
                                     THEN "VALID" ELSE "OUTGOING"
        /\ Outgoing \subseteq {put.cur}
        /\ Incoming \subseteq {put.new}
        /\ put.step \in {"INCOMING", "data"} =>
              /\ copies[put.new].st = "INCOMING" \/ (put.step = "INCOMING" /\ copies[put.new].st = "FREE")
              /\ copies[put.new].id \in {NoId, put.id}
        /\ put.step \in {"OUTGOING", "VALID", "DELETED"} =>
              copies[put.new] = [st  |-> IF put.step = "DELETED" THEN "VALID" ELSE "INCOMING",
                                 id  |-> put.id, val |-> put.val]

ProtocolInv ==
    /\ TypeOK
    /\ CopiesWellFormed
    /\ ModeInv
    /\ WriteInv
    /\ AtMostOneInFlight
    /\ OutgoingHasSuccessor
    /\ OneValidPerId
    /\ SettledWhenReady
=============================================================================
