------------------------------ MODULE ErstStore ------------------------------
(****************************************************************************)
(* What the ERST driver promises the operating system: a store of error     *)
(* records by record id.  A request takes effect at one instant between its *)
(* arrival and its reply, or not at all; a reply of success means it did;   *)
(* after an error reply or a loss of power the caller cannot tell, but the  *)
(* record then is the old one or the new one and nothing else.              *)
(* ErstRecords (the write protocol on the flash) implements this module.    *)
(****************************************************************************)

CONSTANTS
    Id,       \* the record ids an OS may use (neither 0 nor 0xFF..FF)
    Val,      \* the contents of a record
    NoVal,    \* "no record"
    NoReq     \* "no request is pending"

VARIABLES
    store,    \* the record stored under each id, or NoVal
    pending,  \* the request being handled, or NoReq
    done,     \* has the pending request taken effect?
    reply     \* the answer to the last request that was answered

vars == <<store, pending, done, reply>>

Request == [op : {"write", "dummy"}, id : Id, val : Val]
             \cup [op : {"read", "clear"}, id : Id, val : {NoVal}]
Reply == [status : {"none", "error", "notfound"}, val : {NoVal}]
           \cup [status : {"ok"}, val : Val \cup {NoVal}]

NoReply  == [status |-> "none",  val |-> NoVal]
ErrReply == [status |-> "error", val |-> NoVal]

Init ==
    /\ store   = [i \in Id |-> NoVal]
    /\ pending = NoReq
    /\ done    = FALSE
    /\ reply   = NoReply

Receive(r) ==
    /\ pending = NoReq
    /\ pending' = r
    /\ done'    = FALSE
    /\ reply'   = NoReply
    /\ UNCHANGED store

(* A write replaces the record of its id, a clear removes it. *)
MayApply == pending # NoReq /\ pending.op \in {"write", "clear"} /\ ~done

Applied == [store EXCEPT ![pending.id] = pending.val]

Apply ==
    /\ MayApply
    /\ store' = Applied
    /\ done'  = TRUE
    /\ UNCHANGED <<pending, reply>>

(* The answers a request may get: success only for what was done, a read    *)
(* returns what is stored, "not found" only for an id without a record.     *)
Answers(r) ==
    {a \in Reply :
       \/ /\ a = [status |-> "ok", val |-> NoVal]
          /\ r.op = "dummy" \/ (r.op \in {"write", "clear"} /\ done)
       \/ /\ a = [status |-> "ok", val |-> store[r.id]]
          /\ r.op = "read" /\ store[r.id] # NoVal
       \/ /\ a = [status |-> "notfound", val |-> NoVal]
          /\ r.op \in {"read", "clear"} /\ store[r.id] = NoVal /\ ~done}

Respond ==
    /\ pending # NoReq
    /\ reply'   \in Answers(pending)
    /\ pending' = NoReq
    /\ UNCHANGED <<store, done>>

(* The request fails, or power is lost and nobody answers it.  It may take  *)
(* effect at this very moment, and never later.                             *)
Abandon ==
    /\ pending' = NoReq
    /\ store'   \in {store} \cup (IF MayApply THEN {Applied} ELSE {})
    /\ done'    \in BOOLEAN
    /\ reply'   \in {reply, ErrReply}

Next ==
    \/ \E r \in Request : Receive(r)
    \/ Apply
    \/ Respond
    \/ Abandon

Spec == Init /\ [][Next]_vars
=============================================================================
