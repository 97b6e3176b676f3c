------------------------------- MODULE BpmpIpc -------------------------------
(***************************************************************************)
(* The BPMP request queue, Drivers/BpmpIpc/BpmpIpc.c.                       *)
(*                                                                         *)
(* Drivers call BpmpIpcCommunicate to have one request carried out by the   *)
(* BPMP of a socket.  One list holds the requests to all BPMPs, one index   *)
(* says which channel is in use, and one timer looks for the answer.        *)
(*                                                                         *)
(* Everything runs on the boot processor.  A notification interrupts what   *)
(* runs at a lower task priority level (TPL) and returns before that goes   *)
(* on, so there is at most one activation of the driver for each level at   *)
(* which it was entered.  The BPMPs run on their own.                       *)
(*                                                                         *)
(* A request is known by the call it belongs to; its payload and the error  *)
(* code of its answer are left out.  The two 32-bit counters of a channel   *)
(* are seen as what ChannelFree makes of them: a message or none.           *)
(***************************************************************************)
EXTENDS Naturals, Sequences

CONSTANTS
  Call,          \* the calls that can be in progress; one is reused when it has ended
  DeviceCount,   \* number of BPMPs, one for each socket
  MaxSockets,    \* PcdTegraMaxSockets
  AsyncTpl,      \* the levels from which calls with a token are made
  None           \* no call, no message, no answer

APPLICATION == 4
CALLBACK == 8
NOTIFY == 16
Tpl == {APPLICATION, CALLBACK, NOTIFY}

Channel == 0 .. DeviceCount - 1

ASSUME NoneAssumption == None \notin Call \cup [to : Call, by : Channel]
ASSUME DeviceAssumption == DeviceCount \in Nat \ {0} /\ MaxSockets \in Nat \ {0}
ASSUME TplAssumption == AsyncTpl \subseteq Tpl

(* A phandle: of one of the BPMPs, or of none of them. *)
Phandle == 0 .. DeviceCount

VARIABLES
  activation,        \* for each level, what was entered at it and has not returned
  info,              \* the channel a call is for, and whether it blocks
  ActiveChannel,
  TransactionList,
  timer,             \* the periodic timer is armed
  signaled,          \* the timer's event is signaled, its notification has not run
  tx, rx,            \* the message in each channel, named by its call
  work,              \* what each BPMP has taken and not answered
  reply              \* what the token of a call says when the call has ended

vars == <<activation, info, ActiveChannel, TransactionList, timer, signaled,
          tx, rx, work, reply>>

Idle == [call |-> None, step |-> "idle"]

(* The status of a token whose event is signaled without an answer is as it  *)
(* was: EFI_SUCCESS for a blocking call.                                     *)
Unanswered == [to |-> None, by |-> None]

-----------------------------------------------------------------------------
(* Task priority levels *)

Step == {"idle", "enter", "process", "poll", "next", "check"}

Active(t) == activation[t] # Idle

(* A blocking call raises the level to TPL_NOTIFY until it returns. *)
Level(t) ==
  IF activation[t].step # "enter" /\ activation[t].call # None /\ info[activation[t].call].blocking
  THEN NOTIFY
  ELSE t

CanEnter(t) == \A u \in Tpl : Active(u) => Level(u) < t

(* The running activation is the last one entered. *)
Running(t, steps) ==
  /\ activation[t].step \in steps
  /\ \A u \in Tpl : u > t => ~Active(u)

GoTo(t, step) == activation' = [activation EXCEPT ![t].step = step]

Return(t) == activation' = [activation EXCEPT ![t] = Idle]

Listed(k) == \E i \in DOMAIN TransactionList : TransactionList[i] = k

(* The token and the buffers of a call belong to the driver. *)
Busy(k) == Listed(k) \/ \E t \in Tpl : activation[t].call = k

-----------------------------------------------------------------------------
(* BpmpIpcCommunicate *)

(* With one socket a phandle of no BPMP stands for the only one. *)
ChannelOf(phandle) == IF phandle \in Channel THEN phandle ELSE 0

(* Entry, up to the check of the sizes: the channel is chosen here, at the   *)
(* level of the caller.                                                      *)
Communicate(k, blocking, phandle, t) ==
  /\ ~Busy(k)
  /\ CanEnter(t)
  /\ phandle \in Channel \/ MaxSockets = 1
  /\ activation' = [activation EXCEPT ![t] = [call |-> k, step |-> "enter"]]
  /\ info' = [info EXCEPT ![k] = [channel |-> ChannelOf(phandle), blocking |-> blocking]]
  /\ ActiveChannel' = ChannelOf(phandle)
  /\ reply' = [reply EXCEPT ![k] = None]
  /\ UNCHANGED <<TransactionList, timer, signaled, tx, rx, work>>

(* Sizes out of range, no event or no memory. *)
Refuse(t) ==
  /\ Running(t, {"enter"})
  /\ Return(t)
  /\ UNCHANGED <<info, ActiveChannel, TransactionList, timer, signaled, tx, rx, work, reply>>

(* A faulty variant: every caller sends. *)
NeedQueueAlways == TRUE

(* The request is sent at once when no other one is queued. *)
NeedQueue == TransactionList = <<>>

(* What Communicate does once ProcessTransaction is done or not needed: a    *)
(* blocking call cancels the timer and polls, another one returns.           *)
Proceed(t, armed) ==
  IF info[activation[t].call].blocking
  THEN GoTo(t, "poll") /\ timer' = FALSE
  ELSE Return(t) /\ timer' = armed

Enqueue(t) ==
  /\ Running(t, {"enter"})
  /\ TransactionList' = Append(TransactionList, activation[t].call)
  /\ IF NeedQueue THEN GoTo(t, "process") /\ UNCHANGED timer ELSE Proceed(t, timer)
  /\ UNCHANGED <<info, ActiveChannel, signaled, tx, rx, work, reply>>

(* CheckEvent of the call's own event: return, or poll again after a stall. *)
Check(t) ==
  /\ Running(t, {"check"})
  /\ IF reply[activation[t].call] # None THEN Return(t) ELSE GoTo(t, "poll")
  /\ UNCHANGED <<info, ActiveChannel, TransactionList, timer, signaled, tx, rx, work, reply>>

-----------------------------------------------------------------------------
(* ProcessTransaction, called by Communicate and by BpmpIpcTimerNotify *)

ChannelsFree(c) == tx[c] = None /\ rx[c] = None

(* BpmpIpcTimerNotify returns to the polling loop, or to what it interrupted. *)
EndNotify(t) == IF activation[t].call = None THEN Return(t) ELSE GoTo(t, "check")

Leave(t, armed) ==
  IF activation[t].step = "process"
  THEN Proceed(t, armed)
  ELSE EndNotify(t) /\ timer' = armed

(* A faulty variant: the timer stays as it is. *)
SendFirstUnwatched(t) ==
  /\ tx' = [tx EXCEPT ![ActiveChannel] = Head(TransactionList)]
  /\ Leave(t, timer)
  /\ UNCHANGED <<TransactionList, reply>>

(* Send the first request in the list, and have the timer look for the      *)
(* answer unless its caller polls.                                           *)
SendFirst(t) ==
  LET first == Head(TransactionList)
  IN  /\ tx' = [tx EXCEPT ![ActiveChannel] = first]
      /\ Leave(t, timer \/ ~info[first].blocking)
      /\ UNCHANGED <<TransactionList, reply>>

(* "Channel not idle": the request is dropped, then the next one is tried. *)
DropFirst(t) ==
  /\ reply' = [reply EXCEPT ![Head(TransactionList)] = Unanswered]
  /\ TransactionList' = Tail(TransactionList)
  /\ IF Tail(TransactionList) = <<>>
     THEN Leave(t, timer)
     ELSE UNCHANGED <<activation, timer>>
  /\ UNCHANGED tx

ProcessTransaction(t) ==
  /\ Running(t, {"process", "next"})
  /\ IF TransactionList = <<>>
     THEN Leave(t, timer) /\ UNCHANGED <<TransactionList, tx, reply>>
     ELSE IF ChannelsFree(ActiveChannel) THEN SendFirst(t) ELSE DropFirst(t)
  /\ UNCHANGED <<info, ActiveChannel, signaled, rx, work>>

-----------------------------------------------------------------------------
(* BpmpIpcTimerNotify, as the timer's notification and in the polling loop *)

(* The timer expires; the notification waits until the level is low enough. *)
Tick ==
  /\ timer
  /\ ~signaled
  /\ signaled' = TRUE
  /\ UNCHANGED <<activation, info, ActiveChannel, TransactionList, timer, tx, rx, work, reply>>

Dispatch ==
  /\ signaled
  /\ CanEnter(NOTIFY)
  /\ signaled' = FALSE
  /\ activation' = [activation EXCEPT ![NOTIFY] = [call |-> None, step |-> "poll"]]
  /\ UNCHANGED <<info, ActiveChannel, TransactionList, timer, tx, rx, work, reply>>

(* There is an answer in the active channel, and a request for it. *)
Answered == rx[ActiveChannel] # None /\ TransactionList # <<>>

(* A faulty variant: returns with the answer, and the timer goes on. *)
CompleteOnlyOne(t) ==
  /\ reply' = [reply EXCEPT ![Head(TransactionList)] =
                 [to |-> rx[ActiveChannel], by |-> ActiveChannel]]
  /\ rx' = [rx EXCEPT ![ActiveChannel] = None]
  /\ TransactionList' = Tail(TransactionList)
  /\ UNCHANGED timer
  /\ EndNotify(t)

(* The answer goes to the first request in the list. *)
Complete(t) ==
  /\ reply' = [reply EXCEPT ![Head(TransactionList)] =
                 [to |-> rx[ActiveChannel], by |-> ActiveChannel]]
  /\ rx' = [rx EXCEPT ![ActiveChannel] = None]
  /\ TransactionList' = Tail(TransactionList)
  /\ timer' = FALSE
  /\ IF Tail(TransactionList) # <<>> THEN GoTo(t, "next") ELSE EndNotify(t)

TimerNotify(t) ==
  /\ Running(t, {"poll"})
  /\ IF Answered
     THEN Complete(t)
     ELSE EndNotify(t) /\ UNCHANGED <<reply, rx, TransactionList, timer>>
  /\ UNCHANGED <<info, ActiveChannel, signaled, tx, work>>

-----------------------------------------------------------------------------
(* The BPMPs: each takes one request at a time and answers it. *)

BpmpTake(c) ==
  /\ tx[c] # None
  /\ work[c] = None
  /\ work' = [work EXCEPT ![c] = tx[c]]
  /\ tx' = [tx EXCEPT ![c] = None]
  /\ UNCHANGED <<activation, info, ActiveChannel, TransactionList, timer, signaled, rx, reply>>

BpmpAnswer(c) ==
  /\ work[c] # None
  /\ rx[c] = None
  /\ rx' = [rx EXCEPT ![c] = work[c]]
  /\ work' = [work EXCEPT ![c] = None]
  /\ UNCHANGED <<activation, info, ActiveChannel, TransactionList, timer, signaled, tx, reply>>

-----------------------------------------------------------------------------

Init ==
  /\ activation = [t \in Tpl |-> Idle]
  /\ info = [k \in Call |-> [channel |-> 0, blocking |-> FALSE]]
  /\ ActiveChannel = 0
  /\ TransactionList = <<>>
  /\ timer = FALSE
  /\ signaled = FALSE
  /\ tx = [c \in Channel |-> None]
  /\ rx = [c \in Channel |-> None]
  /\ work = [c \in Channel |-> None]
  /\ reply = [k \in Call |-> None]

CommunicateBlocking ==
  \E k \in Call, phandle \in Phandle, t \in Tpl :
    Communicate(k, TRUE, phandle, t)

CommunicateAsync ==
  \E k \in Call, phandle \in Phandle, t \in AsyncTpl : Communicate(k, FALSE, phandle, t)

(* The running activation goes on. *)
Run == \E t \in Tpl :
  Refuse(t) \/ Enqueue(t) \/ Check(t) \/ ProcessTransaction(t) \/ TimerNotify(t)

Next ==
  \/ CommunicateBlocking
  \/ CommunicateAsync
  \/ Run
  \/ Tick
  \/ Dispatch
  \/ \E c \in Channel : BpmpTake(c) \/ BpmpAnswer(c)

(* The boot processor runs, the BPMPs answer, the timer expires while it is  *)
(* armed, and when the level falls a waiting notification comes first.       *)
Fairness ==
  /\ WF_vars(Run)
  /\ WF_vars(Tick)
  /\ SF_vars(Dispatch)
  /\ \A c \in Channel : WF_vars(BpmpTake(c)) /\ WF_vars(BpmpAnswer(c))

Spec == Init /\ [][Next]_vars
FairSpec == Spec /\ Fairness
=============================================================================
