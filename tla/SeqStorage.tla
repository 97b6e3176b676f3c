----------------------------- MODULE SeqStorage -----------------------------
(***************************************************************************)
(* SequentialRecordStorage.c: WriteNextRecord and ErasePartition, one step *)
(* for each thing they do to the flash.  The storage serves one request at *)
(* a time; job is the request and how far it has come.  A request for the  *)
(* early variables goes to the sockets one after the other.                *)
(*                                                                         *)
(* A call of the flash may fail: an event, as a loss of power is (see      *)
(* SeqRecordComm).  Reads of the flash succeed.  acked is not state of the *)
(* program: it holds the records whose write was answered with success, as *)
(* far as the flash did what it was told.  A failure that the driver       *)
(* ignores empties it, and the record of that request does not enter it.   *)
(***************************************************************************)
EXTENDS SeqFlash

CONSTANTS NumSockets,   \* enabled sockets, each with a flash of its own
          MaxEvents     \* bound on failed flash calls and losses of power

ASSUME StorageAssumption ==
    /\ NumSockets \in Nat \ {0}
    /\ MaxEvents \in Nat

Socket == 1 .. NumSockets
Log    == {"ras", "early"} \X Socket

VARIABLES flash,    \* the partition of each log
          cmet,     \* the two copies of the CMET record
          job,      \* the request being served
          events,   \* flash calls that have failed and losses of power
          acked,    \* for each log, the records it has acknowledged
          pair,     \* the last CMET record written to both copies
          attempts  \* CMET writes begun since then

logVars  == <<flash, acked>>
cmetVars == <<cmet, pair, attempts>>

IdleJob == [at |-> "idle", part |-> "ras", sock |-> 1, last |-> 1, n |-> 0,
            len |-> 1, from |-> 1, to |-> 1, first |-> FALSE, sound |-> TRUE,
            erase |-> FALSE]

JobLog    == <<job.part, job.sock>>
Record    == [n |-> job.n, len |-> job.len]
At(label) == job.at = label

PutBlock(i, b) == flash' = [flash EXCEPT ![JobLog][i] = b]
GoTo(label)    == job' = [job EXCEPT !.at = label]
Event          == events < MaxEvents /\ events' = events + 1

\* What the log has acknowledged counts no longer: the partition is erased, or
\* the driver drops the status of a failed call.
Forget == acked' = [acked EXCEPT ![JobLog] = {}]

(***************************************************************************)
(* WriteNextRecord                                                         *)
(***************************************************************************)
PlaceRecord ==
    /\ At("place")
    /\ LET p == flash[JobLog] IN
       job' = [job EXCEPT !.from  = ActiveBlock(p),
                          !.to    = WriteBlock(p, job.len),
                          !.first = IsFirstRecord(p, job.len),
                          !.at    = IF IsFirstRecord(p, job.len)
                                    THEN "erase" ELSE "program"]
    /\ UNCHANGED <<logVars, cmetVars, events>>

EraseNewBlock ==
    /\ At("erase")
    /\ PutBlock(job.to, BlankBlock)
    /\ GoTo("program")
    /\ UNCHANGED <<cmetVars, acked, events>>

\* The status of the erase is not looked at.
EraseNewBlockFails ==
    /\ At("erase")
    /\ Event
    /\ \E b \in CutErase(flash[JobLog][job.to]) : PutBlock(job.to, b)
    /\ job' = [job EXCEPT !.at = "program", !.sound = FALSE]
    /\ Forget
    /\ UNCHANGED cmetVars

\* One write for the header and the payload.
ProgramRecord ==
    /\ At("program")
    /\ \E b \in Programmed(flash[JobLog][job.to], Record, job.first) :
          PutBlock(job.to, b)
    /\ GoTo(IF job.to # job.from THEN "retire" ELSE "written")
    /\ UNCHANGED <<cmetVars, acked, events>>

\* The write fails, or there is no memory for its buffer: the error is
\* returned, and the sockets that are left are not written.
ProgramRecordFails ==
    /\ At("program")
    /\ Event
    /\ \E b \in CutProgram(flash[JobLog][job.to], Record, job.first) :
          PutBlock(job.to, b)
    /\ job' = IdleJob
    /\ UNCHANGED <<cmetVars, acked>>

(* A faulty variant: the flag of the old block is left as it is. *)
RetiredForgotten(b) == b

Retired(b) == [b EXCEPT !.retired = TRUE]

RetireBlock ==
    /\ At("retire")
    /\ PutBlock(job.from, Retired(flash[JobLog][job.from]))
    /\ GoTo("written")
    /\ UNCHANGED <<cmetVars, acked, events>>

\* The status of the retirement is not looked at either.
RetireBlockFails ==
    /\ At("retire")
    /\ Event
    /\ job' = [job EXCEPT !.at = "written", !.sound = FALSE]
    /\ \E b \in {flash[JobLog][job.from], Retired(flash[JobLog][job.from])} :
          PutBlock(job.from, b)
    /\ Forget
    /\ UNCHANGED cmetVars

\* The write is vouched for if the flash did all it was told.
RecordWritten ==
    /\ At("written")
    /\ acked' = IF job.sound THEN [acked EXCEPT ![JobLog] = @ \union {job.n}]
                             ELSE acked
    /\ job' = IF job.sock = job.last THEN IdleJob
              ELSE [job EXCEPT !.at = "place", !.sock = @ + 1, !.sound = TRUE]
    /\ UNCHANGED <<cmetVars, flash, events>>

WriteNextRecord ==
    \/ PlaceRecord
    \/ EraseNewBlock
    \/ EraseNewBlockFails
    \/ ProgramRecord
    \/ ProgramRecordFails
    \/ RetireBlock
    \/ RetireBlockFails
    \/ RecordWritten

(***************************************************************************)
(* ErasePartition, socket by socket.  A socket that fails does not stop    *)
(* the loop, and the status answered is that of the last socket.           *)
(***************************************************************************)
NextSocketToErase ==
    IF job.sock = job.last THEN IdleJob ELSE [job EXCEPT !.sock = @ + 1]

ErasePartition ==
    /\ At("wipe")
    /\ flash' = [flash EXCEPT ![JobLog] = [i \in Block |-> BlankBlock]]
    /\ Forget
    /\ job' = NextSocketToErase
    /\ UNCHANGED <<cmetVars, events>>

ErasePartitionFails ==
    /\ At("wipe")
    /\ Event
    /\ \E p \in CutErasePartition(flash[JobLog]) :
          flash' = [flash EXCEPT ![JobLog] = p]
    /\ Forget
    /\ job' = NextSocketToErase
    /\ UNCHANGED cmetVars
=============================================================================
