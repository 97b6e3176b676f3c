--------------------------- MODULE BpmpProperties ---------------------------
(***************************************************************************)
(* What callers of the BPMP request queue rely on, and the invariant that   *)
(* makes it so with one BPMP and calls with a token made at TPL_NOTIFY.     *)
(***************************************************************************)
EXTENDS BpmpIpc

Message == Call \cup {None}

(* Types of the variables. *)
BpmpTypeOK ==
  /\ activation \in [Tpl -> [call : Message, step : Step]]
  /\ info \in [Call -> [channel : Channel, blocking : BOOLEAN]]
  /\ ActiveChannel \in Channel
  /\ TransactionList \in Seq(Call)
  /\ timer \in BOOLEAN /\ signaled \in BOOLEAN
  /\ tx \in [Channel -> Message]
  /\ rx \in [Channel -> Message]
  /\ work \in [Channel -> Message]
  /\ reply \in [Call -> {None, Unanswered} \cup [to : Call, by : Channel]]

(* Every call that ends has the answer to its own request, from the BPMP it  *)
(* was made to (BpmpIpcCommunicate: "If Token is NULL IPC has been            *)
(* completed"), whoever was interrupted when, and none is dropped for a       *)
(* channel that is not idle.                                                 *)
AnswersMatch ==
  \A k \in Call : reply[k] # None => reply[k] = [to |-> k, by |-> info[k].channel]

-----------------------------------------------------------------------------
(* The activation of level t is past the point where it can be interrupted. *)
Works(t) == activation[t].step \notin {"idle", "enter"}

(* What is interrupted has not queued its request, and no call is made       *)
(* twice.                                                                    *)
ActivationsInv ==
  \A t \in Tpl :
    /\ activation[t].step = "idle" <=> ~Active(t)
    /\ Active(t) /\ activation[t].call = None =>
         t = NOTIFY /\ activation[t].step \in {"poll", "next"}
    /\ Works(t) => \A u \in Tpl : u > t => ~Active(u)
    /\ \A u \in Tpl \ {t} : activation[t].call = activation[u].call => activation[t].call = None

(* How far a call is, and whether its request is in the list or answered. *)
CallInv(k, t, step) ==
  /\ ~info[k].blocking => t = NOTIFY /\ step \in {"enter", "process"}
  /\ step = "enter" => ~Listed(k) /\ reply[k] = None
  /\ step = "process" => TransactionList = <<k>>
  /\ step \in {"poll", "next", "check"} => (Listed(k) <=> reply[k] = None)
  /\ step = "poll" => Listed(k)

CallsInv ==
  \A t \in Tpl : activation[t].call # None =>
    CallInv(activation[t].call, t, activation[t].step)

Sending == \E t \in Tpl : activation[t].step \in {"process", "next"}

(* A request is in the list once and unanswered; that of a blocking call,    *)
(* which is on the caller's stack, only as long as the call has not          *)
(* returned.                                                                 *)
ListInv ==
  /\ \A i, j \in DOMAIN TransactionList : TransactionList[i] = TransactionList[j] => i = j
  /\ \A k \in Call : Listed(k) =>
       /\ reply[k] = None
       /\ info[k].blocking => \E t \in Tpl : activation[t].call = k
  /\ Sending => TransactionList # <<>>

Empty(c) == tx[c] = None /\ work[c] = None /\ rx[c] = None

Carries(c, k) ==
  \/ tx[c] = k /\ work[c] = None /\ rx[c] = None
  \/ tx[c] = None /\ work[c] = k /\ rx[c] = None
  \/ tx[c] = None /\ work[c] = None /\ rx[c] = k

(* One request is with the BPMP, the first in the list, unless that is just  *)
(* about to be sent.                                                         *)
FlightInv ==
  \A c \in Channel :
    IF TransactionList = <<>> \/ Sending THEN Empty(c) ELSE Carries(c, Head(TransactionList))

(* Somebody will look for the answer to the first request: the timer, which  *)
(* a blocking call cancels, or a blocking call that is in the list itself.   *)
ListWatched ==
  TransactionList # <<>> =>
    \/ timer
    \/ Sending
    \/ \E t \in Tpl : Works(t) /\ activation[t].call # None /\ Listed(activation[t].call)

(* The parts together: no queued request is left alone, sent twice or mixed  *)
(* up with another (BpmpIpcCommunicate: "prevent threaded device discovery   *)
(* callbacks until this blocking call completes").                           *)
QueueInv ==
  BpmpTypeOK /\ ActivationsInv /\ CallsInv /\ ListInv /\ FlightInv /\ ListWatched

-----------------------------------------------------------------------------
(* Every queued request is answered, blocking or not, whatever other calls   *)
(* come in between: a blocking call that cancels the timer of another one    *)
(* polls for it, and the timer is armed again for what is left when it ends. *)
CallsEnd == \A k \in Call : Listed(k) ~> ~Listed(k)
=============================================================================
