--------------------------- MODULE SeqRecordComm ----------------------------
(***************************************************************************)
(* SequentialRecordComm.c: the handlers that the firmware of the RAS and   *)
(* of the SatMC partitions, MB1's variables and the DXE driver reach.      *)
(* Standalone MM serves one message at a time, so a request runs to its    *)
(* end unless power is lost.  Reading changes nothing: the reads are the   *)
(* operators ReadLastRecord, ReadNthRecordFromEnd and CmetReadRecord, and  *)
(* the properties say what they find at any moment between two requests.   *)
(***************************************************************************)
EXTENDS CmetStorage

CONSTANTS RasSockets,    \* the sockets whose RAS records are stored
          RasSizes,      \* the units a RAS record may take
          EarlySize,     \* the units of an early variables record
          MaxRequests    \* bound on the requests

ASSUME CommAssumption ==
    /\ RasSockets \subseteq Socket
    /\ RasSizes \subseteq 1 .. BlockUnits
    /\ EarlySize \in 1 .. BlockUnits
    /\ MaxRequests \in Nat

VARIABLE served    \* requests so far: a record is named by its request

vars == <<flash, cmet, job, events, acked, pair, attempts, served>>

Init ==
    /\ flash = [l \in Log |-> [i \in Block |-> BlankBlock]]
    /\ cmet = [c \in Copy |-> BlankCopy]
    /\ job = IdleJob
    /\ events = 0
    /\ acked = [l \in Log |-> {}]
    /\ pair = 0
    /\ attempts = 0
    /\ served = 0

NewRequest(j) ==
    /\ At("idle")
    /\ served < MaxRequests
    /\ served' = served + 1
    /\ job' = [j EXCEPT !.n = served + 1]
    /\ UNCHANGED <<logVars, cmet, events>>

\* RasLogMsgHandler: the record goes to the socket the message names.
RasLogWrite(s, len) ==
    /\ NewRequest([IdleJob EXCEPT !.at = "place", !.sock = s, !.last = s,
                                  !.len = len])
    /\ UNCHANGED <<pair, attempts>>

\* EarlyVarsMsgHandler: the record goes to every enabled socket in turn.
EarlyVarsWrite ==
    /\ NewRequest([IdleJob EXCEPT !.at = "place", !.part = "early",
                                  !.last = NumSockets, !.len = EarlySize])
    /\ UNCHANGED <<pair, attempts>>

\* EarlyVarsMsgHandler, and SatMcMsgHandler once it has cleared the variables.
EraseEarlyVarsPartition ==
    /\ NewRequest([IdleJob EXCEPT !.at = "wipe", !.part = "early",
                                  !.last = NumSockets])
    /\ UNCHANGED <<pair, attempts>>

\* CmetMsgHandler: the caller says whether to erase.  Writing over a record
\* without erasing it gives up both copies: nothing is promised of them then.
CmetWrite(erase) ==
    LET kept == erase \/ \A c \in Copy : cmet[c] = BlankCopy IN
    /\ NewRequest([IdleJob EXCEPT !.at = IF erase THEN "cmet_erase"
                                         ELSE "cmet_program",
                                  !.erase = erase, !.sound = kept])
    /\ pair' = IF kept THEN pair ELSE 0
    /\ attempts' = attempts + 1

Request ==
    \/ \E s \in RasSockets, len \in RasSizes : RasLogWrite(s, len)
    \/ EarlyVarsWrite
    \/ EraseEarlyVarsPartition
    \/ \E erase \in BOOLEAN : CmetWrite(erase)

Serve ==
    /\ \/ WriteNextRecord
       \/ ErasePartition
       \/ ErasePartitionFails
       \/ CmetWriteRecord
    /\ UNCHANGED served

(***************************************************************************)
(* Power is lost: the request is forgotten, and what it was doing to the   *)
(* flash is done, not done or half done.                                   *)
(***************************************************************************)
LogsAfterLoss ==
    LET p == flash[JobLog]
        WithBlock(i, b) == [p EXCEPT ![i] = b]
    IN  CASE At("erase")   -> {WithBlock(job.to, b) : b \in CutErase(p[job.to])}
          [] At("program") -> {WithBlock(job.to, b) :
                               b \in CutProgram(p[job.to], Record, job.first)}
          [] At("retire")  -> {p, WithBlock(job.from, Retired(p[job.from]))}
          [] At("wipe")    -> CutErasePartition(p)
          [] OTHER         -> {p}

CopiesAfterLoss ==
    LET WithCopy(c) == [cmet EXCEPT ![job.to] = c]
    IN  CASE At("cmet_erase")   -> {WithCopy(c) : c \in CutCopyErase(cmet[job.to])}
          [] At("cmet_program") -> {WithCopy(c) : c \in CutCopyProgram(cmet[job.to])}
          [] OTHER              -> {cmet}

PowerLoss ==
    /\ Event
    /\ \E p \in LogsAfterLoss : flash' = [flash EXCEPT ![JobLog] = p]
    /\ cmet' \in CopiesAfterLoss
    /\ acked' = IF At("wipe") THEN [acked EXCEPT ![JobLog] = {}] ELSE acked
    /\ job' = IdleJob
    /\ UNCHANGED <<pair, attempts, served>>

Next == Request \/ Serve \/ PowerLoss

Spec == Init /\ [][Next]_vars
=============================================================================
