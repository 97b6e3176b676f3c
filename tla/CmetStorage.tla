---------------------------- MODULE CmetStorage -----------------------------
(***************************************************************************)
(* CmetRecordStorage.c: the CMET record is kept twice, without a header,   *)
(* in the first two blocks of its partition.  CmetWriteRecord goes through *)
(* the copies in order: erase if the caller asked for it, then write; it   *)
(* stops at the first call that fails.  pair and attempts are not state of *)
(* the program (see SeqStorage).                                           *)
(***************************************************************************)
EXTENDS SeqStorage

Copy == 1 .. 2     \* NUM_CMET_RECORDS

BlankCopy == [state |-> "blank", n |-> 0]
TornCopy  == [state |-> "torn", n |-> 0]
Whole(n)  == [state |-> "whole", n |-> n]

\* CmetReadRecord reads one copy, which the caller chooses, and checks nothing.
CmetReadRecord(primary) == IF primary THEN cmet[1] ELSE cmet[2]

\* Written over anything but erased flash, a copy is a mixture.
CopyProgrammed(c, n) == IF c = BlankCopy THEN Whole(n) ELSE TornCopy

CutCopyErase(c)   == {c, TornCopy, BlankCopy}
CutCopyProgram(c) == {c, TornCopy}

PutCopy(c) == cmet' = [cmet EXCEPT ![job.to] = c]

FirstCopyStep == IF job.erase THEN "cmet_erase" ELSE "cmet_program"

(* A faulty variant: the erase covers the whole partition. *)
EraseRecordBoth ==
    /\ At("cmet_erase")
    /\ cmet' = [c \in Copy |-> BlankCopy]
    /\ GoTo("cmet_program")
    /\ UNCHANGED <<logVars, events, pair, attempts>>

EraseRecord ==
    /\ At("cmet_erase")
    /\ PutCopy(BlankCopy)
    /\ GoTo("cmet_program")
    /\ UNCHANGED <<logVars, events, pair, attempts>>

EraseRecordFails ==
    /\ At("cmet_erase")
    /\ Event
    /\ \E c \in CutCopyErase(cmet[job.to]) : PutCopy(c)
    /\ job' = IdleJob
    /\ UNCHANGED <<logVars, pair, attempts>>

NextCopyJob == [job EXCEPT !.at = FirstCopyStep, !.to = @ + 1]

ProgramCopy ==
    /\ At("cmet_program")
    /\ PutCopy(CopyProgrammed(cmet[job.to], job.n))
    /\ job' = IF job.to = 2 THEN IdleJob ELSE NextCopyJob
    /\ pair' = IF job.to = 2 THEN (IF job.sound THEN job.n ELSE 0) ELSE pair
    /\ attempts' = IF job.to = 2 THEN 0 ELSE attempts
    /\ UNCHANGED <<logVars, events>>

ProgramCopyFails ==
    /\ At("cmet_program")
    /\ Event
    /\ \E c \in CutCopyProgram(cmet[job.to]) : PutCopy(c)
    /\ job' = IdleJob
    /\ UNCHANGED <<logVars, pair, attempts>>

CmetWriteRecord ==
    \/ EraseRecord
    \/ EraseRecordFails
    \/ ProgramCopy
    \/ ProgramCopyFails
=============================================================================
