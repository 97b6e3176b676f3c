----------------------------- MODULE BpmpProofs -----------------------------
(***************************************************************************)
(* With one BPMP, and calls with a token made at TPL_NOTIFY, every call has  *)
(* the answer to its own request, for any number of calls.                   *)
(*                                                                         *)
(* The argument: whatever is past the insertion into the list runs at        *)
(* TPL_NOTIFY, so what is interrupted has not touched the list yet; and the  *)
(* channel holds the first request in the list, unless the activation that   *)
(* runs is about to send it.                                                 *)
(***************************************************************************)
EXTENDS BpmpProperties, SequenceTheorems, TLAPS

OneBpmp == DeviceCount = 1 /\ AsyncTpl = {NOTIFY}

Inv == QueueInv /\ AnswersMatch

In(k, s) == \E i \in DOMAIN s : s[i] = k

Distinct(s) == \A i, j \in DOMAIN s : s[i] = s[j] => i = j

-----------------------------------------------------------------------------
(* The list *)

LEMMA AppendList ==
  ASSUME NEW S, NEW s \in Seq(S), NEW k \in S
  PROVE  /\ Append(s, k) \in Seq(S)
         /\ Append(s, k) # <<>>
         /\ \A x : In(x, Append(s, k)) <=> In(x, s) \/ x = k
         /\ Head(Append(s, k)) = IF s = <<>> THEN k ELSE Head(s)
         /\ Distinct(s) /\ ~In(k, s) => Distinct(Append(s, k))
         /\ s = <<>> => Append(s, k) = <<k>>
<1> DEFINE a == Append(s, k)
<1>1. /\ a \in Seq(S) /\ a # <<>>
      /\ Len(a) = Len(s) + 1
      /\ \A i \in 1 .. Len(s) : a[i] = s[i]
      /\ a[Len(s) + 1] = k
  BY AppendProperties
<1>2. DOMAIN s = 1 .. Len(s) /\ DOMAIN a = 1 .. Len(s) + 1 /\ Len(s) \in Nat
  BY <1>1, LenProperties
<1> HIDE DEF a
<1>3. \A x : In(x, a) <=> In(x, s) \/ x = k
  <2> SUFFICES ASSUME NEW x PROVE In(x, a) <=> In(x, s) \/ x = k
    OBVIOUS
  <2>1. ASSUME NEW i \in DOMAIN a, a[i] = x PROVE In(x, s) \/ x = k
    BY <1>1, <1>2, <2>1 DEF In
  <2>2. ASSUME NEW i \in DOMAIN s, s[i] = x PROVE In(x, a)
    BY <1>1, <1>2, <2>2 DEF In
  <2>3. ASSUME x = k PROVE In(x, a)
    BY <1>1, <1>2, <2>3 DEF In
  <2> QED BY <2>1, <2>2, <2>3 DEF In
<1>4. Head(a) = IF s = <<>> THEN k ELSE Head(s)
  BY <1>1, <1>2, HeadTailProperties, EmptySeq DEF a
<1>5. Distinct(s) /\ ~In(k, s) => Distinct(a)
  BY <1>1, <1>2 DEF Distinct, In
<1>6. s = <<>> => a = <<k>>
  BY DEF a
<1> QED BY <1>1, <1>3, <1>4, <1>5, <1>6 DEF a

LEMMA TailList ==
  ASSUME NEW S, NEW s \in Seq(S), s # <<>>, Distinct(s)
  PROVE  /\ Head(s) \in S
         /\ In(Head(s), s)
         /\ Tail(s) \in Seq(S)
         /\ \A x : In(x, Tail(s)) <=> In(x, s) /\ x # Head(s)
         /\ Distinct(Tail(s))
<1> DEFINE a == Tail(s)
<1>1. /\ Head(s) \in S /\ a \in Seq(S)
      /\ Len(a) = Len(s) - 1
      /\ \A i \in 1 .. Len(a) : a[i] = s[i + 1]
  BY HeadTailProperties
<1>2. /\ DOMAIN s = 1 .. Len(s) /\ DOMAIN a = 1 .. Len(s) - 1
      /\ Len(s) \in Nat \ {0}
  BY <1>1, LenProperties, EmptySeq
<1>3. Head(s) = s[1]
  OBVIOUS
<1> HIDE DEF a
<1>4. \A x : In(x, a) <=> In(x, s) /\ x # Head(s)
  <2> SUFFICES ASSUME NEW x PROVE In(x, a) <=> In(x, s) /\ x # Head(s)
    OBVIOUS
  <2>1. ASSUME NEW i \in DOMAIN a, a[i] = x PROVE In(x, s) /\ x # Head(s)
    <3>1. i + 1 \in DOMAIN s /\ 1 \in DOMAIN s /\ s[i + 1] = x /\ i + 1 # 1
      BY <1>1, <1>2, <2>1
    <3> QED BY <1>3, <3>1 DEF In, Distinct
  <2>2. ASSUME NEW i \in DOMAIN s, s[i] = x, x # Head(s) PROVE In(x, a)
    <3>1. i - 1 \in DOMAIN a /\ a[i - 1] = s[i]
      BY <1>1, <1>2, <1>3, <2>2
    <3> QED BY <2>2, <3>1 DEF In
  <2> QED BY <2>1, <2>2 DEF In
<1>5. Distinct(a)
  <2> SUFFICES ASSUME NEW i \in DOMAIN a, NEW j \in DOMAIN a, a[i] = a[j] PROVE i = j
    BY DEF Distinct
  <2>1. i + 1 \in DOMAIN s /\ j + 1 \in DOMAIN s /\ s[i + 1] = s[j + 1]
    BY <1>1, <1>2
  <2> QED BY <1>2, <2>1 DEF Distinct
<1> QED BY <1>1, <1>2, <1>3, <1>4, <1>5 DEF In, a

LEMMA ListedIn == \A k : Listed(k) <=> In(k, TransactionList)
  BY DEF Listed, In

LEMMA ListedInNext == \A k : Listed(k)' <=> In(k, TransactionList')
  BY DEF Listed, In

-----------------------------------------------------------------------------
(* Levels *)

(* What is entered finds only calls that have not queued their request.      *)
LEMMA EnterQuiet ==
  ASSUME QueueInv, NEW t \in Tpl, CanEnter(t)
  PROVE  /\ ~Active(t)
         /\ \A u \in Tpl : activation[u].step \in {"idle", "enter"}
         /\ \A u \in Tpl : u > t => ~Active(u)
<1>1. t \in {4, 8, 16} /\ Tpl = {4, 8, 16}
  BY DEF Tpl, APPLICATION, CALLBACK, NOTIFY
<1>2. ASSUME NEW u \in Tpl, Works(u) PROVE FALSE
  <2>1. Active(u) /\ activation[u].step # "enter"
    BY <1>2 DEF Works, QueueInv, ActivationsInv
  <2>2. Level(u) = NOTIFY
    <3>1. CASE activation[u].call = None
      BY <2>1, <1>2, <3>1 DEF Level, QueueInv, ActivationsInv
    <3>2. CASE activation[u].call # None
      BY <2>1, <3>2 DEF Level, QueueInv, CallsInv, CallInv
    <3> QED BY <3>1, <3>2
  <2> QED BY <1>1, <2>1, <2>2 DEF CanEnter, NOTIFY
<1>3. ASSUME NEW u \in Tpl, Active(u) PROVE u < t
  <2>1. activation[u].step = "enter"
    BY <1>2, <1>3 DEF Works, QueueInv, ActivationsInv
  <2> QED BY <1>3, <2>1 DEF Level, CanEnter
<1> QED BY <1>1, <1>2, <1>3 DEF Works

(* The activation that runs is the only one that works on the list.          *)
LEMMA RunsAlone ==
  ASSUME QueueInv, NEW t \in Tpl, NEW steps, Running(t, steps), "idle" \notin steps
  PROVE  /\ Active(t)
         /\ activation[t].step \in steps
         /\ \A u \in Tpl \ {t} : activation[u].step \in {"idle", "enter"}
         /\ \A u \in Tpl : u > t => ~Active(u)
<1>1. Active(t)
  BY DEF Running, QueueInv, ActivationsInv
<1>2. ASSUME NEW u \in Tpl \ {t}, Works(u) PROVE FALSE
  <2>1. Active(u)
    BY <1>2 DEF Works, QueueInv, ActivationsInv
  <2>2. u < t
    BY <2>1 DEF Running, Tpl, APPLICATION, CALLBACK, NOTIFY
  <2> QED BY <1>1, <1>2, <2>2 DEF QueueInv, ActivationsInv, Tpl, APPLICATION, CALLBACK, NOTIFY
<1> QED BY <1>1, <1>2 DEF Running, Works

LEMMA OneChannel ==
  ASSUME OneBpmp
  PROVE  Channel = {0}
  BY DEF OneBpmp, Channel

-----------------------------------------------------------------------------
(* The calls *)

LEMMA CommunicateStep ==
  ASSUME OneBpmp, Inv, NEW k \in Call, NEW blocking \in BOOLEAN, NEW phandle, NEW t \in Tpl,
         blocking \/ t = NOTIFY, Communicate(k, blocking, phandle, t)
  PROVE  Inv'
<1> USE NoneAssumption
<1>1. /\ ~Active(t)
      /\ \A u \in Tpl : activation[u].step \in {"idle", "enter"}
      /\ \A u \in Tpl : u > t => ~Active(u)
  BY EnterQuiet DEF Communicate, Inv
<1>2. ~Listed(k) /\ \A u \in Tpl : activation[u].call # k
  BY DEF Communicate, Busy
<1>3. ChannelOf(phandle) \in Channel
  BY OneChannel DEF ChannelOf
<1>4. /\ activation' = [activation EXCEPT ![t] = [call |-> k, step |-> "enter"]]
      /\ info' = [info EXCEPT ![k] = [channel |-> ChannelOf(phandle), blocking |-> blocking]]
      /\ ActiveChannel' = ChannelOf(phandle)
      /\ reply' = [reply EXCEPT ![k] = None]
      /\ UNCHANGED <<TransactionList, timer, signaled, tx, rx, work>>
  BY DEF Communicate
<1>5. BpmpTypeOK'
  BY <1>3, <1>4 DEF Inv, QueueInv, BpmpTypeOK, Message, Step
<1> USE <1>1, <1>4 DEF Inv, QueueInv, BpmpTypeOK
<1>6. ActivationsInv'
  BY <1>2 DEF ActivationsInv, Active, Works, Idle
<1>7. CallsInv'
  BY <1>2, ListedIn, ListedInNext DEF CallsInv, CallInv
<1>8. ListInv'
  <2>1. ~Sending'
    BY DEF Sending
  <2>2. \A j \in Call : Listed(j)' => j # k /\ Listed(j)
    BY <1>2, ListedIn, ListedInNext
  <2>3. \A u \in Tpl : activation[u].call \in Call => activation'[u].call = activation[u].call
    BY <1>1 DEF Active, Idle
  <2>4. \A j \in Call : Listed(j)' =>
          /\ reply'[j] = None
          /\ info'[j].blocking => \E u \in Tpl : activation'[u].call = j
    BY <2>2, <2>3 DEF ListInv
  <2> QED BY <2>1, <2>4 DEF ListInv
<1>9. FlightInv'
  BY DEF FlightInv, Sending, Empty, Carries
<1>10. ListWatched'
  BY DEF ListWatched, Sending, Works
<1>11. AnswersMatch'
  BY DEF AnswersMatch
<1> QED BY <1>5, <1>6, <1>7, <1>8, <1>9, <1>10, <1>11

LEMMA RefuseStep ==
  ASSUME OneBpmp, Inv, NEW t \in Tpl, Refuse(t)
  PROVE  Inv'
<1> USE NoneAssumption
<1>1. /\ activation[t].step = "enter"
      /\ \A u \in Tpl \ {t} : activation[u].step \in {"idle", "enter"}
      /\ \A u \in Tpl : u > t => ~Active(u)
  BY RunsAlone DEF Refuse, Inv
<1>2. /\ activation' = [activation EXCEPT ![t] = Idle]
      /\ UNCHANGED <<info, ActiveChannel, TransactionList, timer, signaled, tx, rx, work, reply>>
  BY DEF Refuse, Return
<1>3. activation[t].call \in Call /\ ~Listed(activation[t].call)
  BY <1>1 DEF Inv, QueueInv, BpmpTypeOK, ActivationsInv, Active, Idle, CallsInv, CallInv, Message
<1> USE <1>1, <1>2 DEF Inv, QueueInv, BpmpTypeOK
<1>4. BpmpTypeOK'
  BY DEF Message, Step, Idle
<1>5. ActivationsInv'
  BY DEF ActivationsInv, Active, Works, Idle
<1>6. CallsInv'
  BY ListedIn, ListedInNext DEF CallsInv, CallInv, Idle
<1>7. ListInv'
  <2>1. ~Sending'
    BY DEF Sending, Idle
  <2>2. \A j \in Call : Listed(j)' =>
          /\ reply'[j] = None
          /\ info'[j].blocking => \E u \in Tpl : activation'[u].call = j
    BY <1>3, ListedIn, ListedInNext DEF ListInv
  <2> QED BY <2>1, <2>2 DEF ListInv
<1>8. FlightInv'
  BY DEF FlightInv, Sending, Empty, Carries, Idle
<1>9. ListWatched'
  BY DEF ListWatched, Sending, Works, Idle
<1>10. AnswersMatch'
  BY DEF AnswersMatch
<1> QED BY <1>4, <1>5, <1>6, <1>7, <1>8, <1>9, <1>10

(* Nothing is sent while a caller enters, so the request waits for the first *)
(* one, or is the first and is sent by this call.                            *)
LEMMA EnqueueStep ==
  ASSUME OneBpmp, Inv, NEW t \in Tpl, Enqueue(t)
  PROVE  Inv'
<1> USE NoneAssumption
<1> DEFINE k == activation[t].call
<1>1. /\ activation[t].step = "enter"
      /\ \A u \in Tpl \ {t} : activation[u].step \in {"idle", "enter"}
      /\ \A u \in Tpl : u > t => ~Active(u)
  BY RunsAlone DEF Enqueue, Inv
<1>2. /\ k \in Call /\ ~Listed(k) /\ reply[k] = None
      /\ ~info[k].blocking => t = NOTIFY
      /\ \A u \in Tpl \ {t} : activation[u].call # k
  BY <1>1 DEF Inv, QueueInv, BpmpTypeOK, ActivationsInv, Active, Idle, CallsInv, CallInv, Message
<1>3. /\ TransactionList' = Append(TransactionList, k)
      /\ UNCHANGED <<info, ActiveChannel, signaled, tx, rx, work, reply>>
  BY DEF Enqueue
<1>4. /\ TransactionList' \in Seq(Call)
      /\ TransactionList' # <<>>
      /\ \A x : Listed(x)' <=> Listed(x) \/ x = k
      /\ Head(TransactionList') = IF TransactionList = <<>> THEN k ELSE Head(TransactionList)
      /\ \A i, j \in DOMAIN TransactionList' : TransactionList'[i] = TransactionList'[j] => i = j
      /\ TransactionList = <<>> => TransactionList' = <<k>>
  BY <1>2, <1>3, AppendList, ListedIn, ListedInNext DEF Inv, QueueInv, BpmpTypeOK, ListInv, Distinct
<1>5. ~Sending
  BY <1>1 DEF Sending
<1> HIDE DEF k
<1>6. CASE TransactionList = <<>>
  <2>1. activation' = [activation EXCEPT ![t].step = "process"] /\ timer' = timer
    BY <1>6 DEF Enqueue, NeedQueue, GoTo
  <2>2. activation'[t].step = "process" /\ activation'[t].call = k
    BY <2>1 DEF Inv, QueueInv, BpmpTypeOK, k
  <2> USE <1>1, <1>2, <1>3, <1>4, <1>5, <1>6, <2>1, <2>2 DEF Inv, QueueInv, BpmpTypeOK
  <2>3. BpmpTypeOK'
    BY DEF Message, Step
  <2>4. ActivationsInv'
    BY DEF ActivationsInv, Active, Works, Idle, k
  <2>5. CallsInv'
    BY DEF CallsInv, CallInv, k
  <2>6. ListInv'
    BY DEF ListInv
  <2>7. FlightInv' /\ ListWatched'
    BY DEF FlightInv, Sending, Empty, ListWatched
  <2>8. AnswersMatch'
    BY DEF AnswersMatch
  <2> QED BY <2>3, <2>4, <2>5, <2>6, <2>7, <2>8
<1>7. CASE TransactionList # <<>> /\ info[k].blocking
  <2>1. activation' = [activation EXCEPT ![t].step = "poll"] /\ timer' = FALSE
    BY <1>7 DEF Enqueue, NeedQueue, Proceed, GoTo, k
  <2>2. activation'[t].step = "poll" /\ activation'[t].call = k
    BY <2>1 DEF Inv, QueueInv, BpmpTypeOK, k
  <2> USE <1>1, <1>2, <1>3, <1>4, <1>5, <1>7, <2>1, <2>2 DEF Inv, QueueInv, BpmpTypeOK
  <2>3. BpmpTypeOK'
    BY DEF Message, Step
  <2>4. ActivationsInv'
    BY DEF ActivationsInv, Active, Works, Idle, k
  <2>5. CallsInv'
    BY DEF CallsInv, CallInv, k
  <2>6. ~Sending'
    BY DEF Sending
  <2>7. ListInv'
    BY <2>6 DEF ListInv
  <2>8. FlightInv'
    BY <2>6 DEF FlightInv, Carries
  <2>9. ListWatched'
    BY DEF ListWatched, Works
  <2>10. AnswersMatch'
    BY DEF AnswersMatch
  <2> QED BY <2>3, <2>4, <2>5, <2>7, <2>8, <2>9, <2>10
<1>8. CASE TransactionList # <<>> /\ ~info[k].blocking
  <2>1. activation' = [activation EXCEPT ![t] = Idle] /\ timer' = timer
    BY <1>8 DEF Enqueue, NeedQueue, Proceed, Return, k
  <2> USE <1>1, <1>2, <1>3, <1>4, <1>5, <1>8, <2>1 DEF Inv, QueueInv, BpmpTypeOK
  <2>2. BpmpTypeOK'
    BY DEF Message, Step, Idle
  <2>3. ActivationsInv'
    BY DEF ActivationsInv, Active, Works, Idle
  <2>4. CallsInv'
    BY DEF CallsInv, CallInv, Idle
  <2>5. ~Sending'
    BY DEF Sending, Idle
  <2>6. ListInv'
    BY <2>5 DEF ListInv, k
  <2>7. FlightInv'
    BY <2>5 DEF FlightInv, Carries
  <2>8. ListWatched'
    BY DEF ListWatched, Works
  <2>9. AnswersMatch'
    BY DEF AnswersMatch
  <2> QED BY <2>2, <2>3, <2>4, <2>6, <2>7, <2>8, <2>9
<1> QED BY <1>6, <1>7, <1>8

LEMMA CheckStep ==
  ASSUME OneBpmp, Inv, NEW t \in Tpl, Check(t)
  PROVE  Inv'
<1> USE NoneAssumption
<1> DEFINE k == activation[t].call
<1>1. /\ activation[t].step = "check"
      /\ \A u \in Tpl \ {t} : activation[u].step \in {"idle", "enter"}
      /\ \A u \in Tpl : u > t => ~Active(u)
  BY RunsAlone DEF Check, Inv
<1>2. k \in Call /\ info[k].blocking /\ (Listed(k) <=> reply[k] = None)
  BY <1>1 DEF Inv, QueueInv, BpmpTypeOK, ActivationsInv, Active, Idle, CallsInv, CallInv, Message
<1>3. UNCHANGED <<info, ActiveChannel, TransactionList, timer, signaled, tx, rx, work, reply>>
  BY DEF Check
<1>4. \A x : Listed(x)' <=> Listed(x)
  BY <1>3, ListedIn, ListedInNext
<1>5. ~Sending
  BY <1>1 DEF Sending
<1> HIDE DEF k
<1>6. CASE reply[k] # None
  <2>1. activation' = [activation EXCEPT ![t] = Idle]
    BY <1>6 DEF Check, Return, k
  <2> USE <1>1, <1>2, <1>3, <1>4, <1>5, <1>6, <2>1 DEF Inv, QueueInv, BpmpTypeOK
  <2>2. BpmpTypeOK'
    BY DEF Message, Step, Idle
  <2>3. ActivationsInv'
    BY DEF ActivationsInv, Active, Works, Idle
  <2>4. CallsInv'
    BY DEF CallsInv, CallInv, Idle
  <2>5. ~Sending'
    BY DEF Sending, Idle
  <2>6. ListInv'
    BY <2>5 DEF ListInv, k
  <2>7. FlightInv'
    BY <2>5 DEF FlightInv, Carries, Empty
  <2>8. ListWatched'
    BY DEF ListWatched, Works, k
  <2>9. AnswersMatch'
    BY DEF AnswersMatch
  <2> QED BY <2>2, <2>3, <2>4, <2>6, <2>7, <2>8, <2>9
<1>7. CASE reply[k] = None
  <2>1. activation' = [activation EXCEPT ![t].step = "poll"]
    BY <1>7 DEF Check, GoTo, k
  <2>2. activation'[t].step = "poll" /\ activation'[t].call = k
    BY <2>1 DEF Inv, QueueInv, BpmpTypeOK, k
  <2> USE <1>1, <1>2, <1>3, <1>4, <1>5, <1>7, <2>1, <2>2 DEF Inv, QueueInv, BpmpTypeOK
  <2>3. BpmpTypeOK'
    BY DEF Message, Step
  <2>4. ActivationsInv'
    BY DEF ActivationsInv, Active, Works, Idle, k
  <2>5. CallsInv'
    BY DEF CallsInv, CallInv, k
  <2>6. ~Sending'
    BY DEF Sending
  <2>7. ListInv'
    BY <2>6 DEF ListInv
  <2>8. FlightInv'
    BY <2>6 DEF FlightInv, Carries, Empty
  <2>9. ListWatched'
    BY DEF ListWatched, Works
  <2>10. AnswersMatch'
    BY DEF AnswersMatch
  <2> QED BY <2>3, <2>4, <2>5, <2>7, <2>8, <2>9, <2>10
<1> QED BY <1>6, <1>7

-----------------------------------------------------------------------------
(* The request and its answer *)

(* What is sent is looked for: by the timer, or by its own caller, which is   *)
(* the activation that sends.                                                *)
LEMMA ProcessStep ==
  ASSUME OneBpmp, Inv, NEW t \in Tpl, ProcessTransaction(t)
  PROVE  Inv'
<1> USE NoneAssumption
<1> DEFINE k == activation[t].call
           first == Head(TransactionList)
<1>1. /\ activation[t].step \in {"process", "next"} /\ Active(t)
      /\ \A u \in Tpl \ {t} : activation[u].step \in {"idle", "enter"}
      /\ \A u \in Tpl : u > t => ~Active(u)
  BY RunsAlone DEF ProcessTransaction, Inv
<1>2. TransactionList # <<>> /\ ActiveChannel = 0 /\ Channel = {0} /\ Empty(0)
  BY <1>1, OneChannel DEF Inv, QueueInv, BpmpTypeOK, ListInv, Sending, FlightInv
<1>3. first \in Call /\ Listed(first)
  BY <1>2, TailList, ListedIn DEF Inv, QueueInv, BpmpTypeOK, ListInv, Distinct
<1>4. /\ tx' = [tx EXCEPT ![0] = first]
      /\ Leave(t, timer \/ ~info[first].blocking)
      /\ UNCHANGED <<info, ActiveChannel, TransactionList, signaled, rx, work, reply>>
  BY <1>2 DEF ProcessTransaction, SendFirst, ChannelsFree, Empty
<1>5. \A x : Listed(x)' <=> Listed(x)
  BY <1>4, ListedIn, ListedInNext
<1>6. info[first].blocking => k = first
  <2> SUFFICES ASSUME info[first].blocking PROVE k = first
    OBVIOUS
  <2>1. PICK u \in Tpl : activation[u].call = first
    BY <1>3 DEF Inv, QueueInv, ListInv
  <2>2. activation[u].step \notin {"idle", "enter"}
    BY <1>3, <2>1 DEF Inv, QueueInv, CallsInv, CallInv, ActivationsInv, Active, Idle
  <2> QED BY <1>1, <2>1, <2>2
<1>7. /\ k = None => t = NOTIFY /\ activation[t].step = "next"
      /\ k # None => k \in Call /\ (~info[k].blocking => activation[t].step = "process")
      /\ activation[t].step = "process" => TransactionList = <<k>> /\ first = k
      /\ activation[t].step = "next" /\ k # None => (Listed(k) <=> reply[k] = None)
  <2>1. k # None => CallInv(k, t, activation[t].step)
    BY DEF Inv, QueueInv, CallsInv
  <2>2. k = None => t = NOTIFY /\ activation[t].step = "next"
    BY <1>1 DEF Inv, QueueInv, ActivationsInv
  <2>3. k \in Call \cup {None}
    BY DEF Inv, QueueInv, BpmpTypeOK, Message
  <2>4. activation[t].step = "process" => TransactionList = <<k>> /\ first = k
    BY <2>1, <2>2 DEF CallInv
  <2> QED BY <2>1, <2>2, <2>3, <2>4, <1>1 DEF CallInv
<1> HIDE DEF first
<1>8. /\ tx'[0] = first /\ work'[0] = None /\ rx'[0] = None
      /\ tx' \in [Channel -> Message]
  BY <1>2, <1>3, <1>4 DEF Empty, Inv, QueueInv, BpmpTypeOK, Message
<1> HIDE DEF k
<1>9. CASE k = None \/ ~info[k].blocking
  <2>1. activation' = [activation EXCEPT ![t] = Idle] /\ timer' = (timer \/ ~info[first].blocking)
    BY <1>1, <1>4, <1>7, <1>9 DEF Leave, Proceed, EndNotify, Return, k
  <2>2. timer' = TRUE
    <3>1. ~info[first].blocking
      BY <1>3, <1>6, <1>9
    <3> QED BY <2>1, <3>1
  <2> USE <1>1, <1>2, <1>3, <1>4, <1>5, <1>7, <1>8, <1>9, <2>1, <2>2 DEF Inv, QueueInv, BpmpTypeOK
  <2>3. BpmpTypeOK'
    BY DEF Message, Step, Idle
  <2>4. ActivationsInv'
    BY DEF ActivationsInv, Active, Works, Idle
  <2>5. CallsInv'
    BY DEF CallsInv, CallInv, Idle
  <2>6. ~Sending'
    BY DEF Sending, Idle
  <2>7. ListInv'
    BY <1>6, <2>6 DEF ListInv, k
  <2>8. FlightInv'
    BY <2>6 DEF FlightInv, Carries, first
  <2>9. ListWatched'
    BY DEF ListWatched
  <2>10. AnswersMatch'
    BY DEF AnswersMatch
  <2> QED BY <2>3, <2>4, <2>5, <2>7, <2>8, <2>9, <2>10
<1>10. CASE k # None /\ info[k].blocking
  <2> DEFINE step == IF activation[t].step = "process" THEN "poll" ELSE "check"
  <2>1. /\ activation' = [activation EXCEPT ![t].step = step]
        /\ timer' = IF activation[t].step = "process" THEN FALSE
                     ELSE timer \/ ~info[first].blocking
    BY <1>4, <1>10 DEF Leave, Proceed, EndNotify, GoTo, k
  <2>2. /\ activation'[t].step = step /\ activation'[t].call = k
        /\ step \in {"poll", "check"} /\ (step = "poll" => activation[t].step = "process")
        /\ step = "check" => activation[t].step = "next"
    BY <1>1, <2>1 DEF Inv, QueueInv, BpmpTypeOK, k
  <2>3. timer' \in BOOLEAN /\ (timer' \/ k = first)
    <3>1. CASE activation[t].step = "process"
      BY <1>7, <2>1, <3>1
    <3>2. CASE activation[t].step # "process"
      BY <1>3, <1>6, <2>1, <3>2 DEF Inv, QueueInv, BpmpTypeOK
    <3> QED BY <3>1, <3>2
  <2> HIDE DEF step
  <2>4. activation' \in [Tpl -> [call : Message, step : Step]]
    BY <2>1, <2>2 DEF Inv, QueueInv, BpmpTypeOK, Step, Message
  <2>5. BpmpTypeOK'
    BY <1>4, <1>8, <2>3, <2>4 DEF Inv, QueueInv, BpmpTypeOK
  <2> USE <1>1, <1>2, <1>3, <1>4, <1>5, <1>7, <1>8, <1>10, <2>1, <2>2 DEF Inv, QueueInv, BpmpTypeOK
  <2>6. ActivationsInv'
    BY DEF ActivationsInv, Active, Works, Idle, k
  <2>7. CallsInv'
    <3>1. reply[first] = None
      BY DEF ListInv
    <3> QED BY <3>1 DEF CallsInv, CallInv, k
  <2>8. ~Sending'
    BY DEF Sending
  <2>9. ListInv'
    BY <2>8 DEF ListInv
  <2>10. FlightInv'
    BY <2>8 DEF FlightInv, Carries, first
  <2>11. ListWatched'
    BY <2>3 DEF ListWatched, Works
  <2>12. AnswersMatch'
    BY DEF AnswersMatch
  <2> QED BY <2>5, <2>6, <2>7, <2>9, <2>10, <2>11, <2>12
<1> QED BY <1>9, <1>10

LEMMA PollsNothing ==
  ASSUME OneBpmp, Inv, NEW t \in Tpl, TimerNotify(t), ~Answered
  PROVE  Inv'
<1> USE NoneAssumption
<1> DEFINE k == activation[t].call
<1>1. /\ activation[t].step = "poll" /\ Active(t)
      /\ \A u \in Tpl \ {t} : activation[u].step \in {"idle", "enter"}
      /\ \A u \in Tpl : u > t => ~Active(u)
  BY RunsAlone DEF TimerNotify, Inv
<1>2. /\ EndNotify(t)
      /\ UNCHANGED <<info, ActiveChannel, TransactionList, timer, signaled, tx, rx, work, reply>>
  BY DEF TimerNotify
<1>3. \A x : Listed(x)' <=> Listed(x)
  BY <1>2, ListedIn, ListedInNext
<1>4. ~Sending
  BY <1>1 DEF Sending
<1>5. k # None => /\ k \in Call /\ info[k].blocking /\ Listed(k)
                  /\ (Listed(k) <=> reply[k] = None)
  BY <1>1 DEF Inv, QueueInv, BpmpTypeOK, CallsInv, CallInv, Message
<1> HIDE DEF k
<1>6. CASE k = None
  <2>1. activation' = [activation EXCEPT ![t] = Idle]
    BY <1>2, <1>6 DEF EndNotify, Return, k
  <2> USE <1>1, <1>2, <1>3, <1>4, <1>6, <2>1 DEF Inv, QueueInv, BpmpTypeOK
  <2>2. BpmpTypeOK'
    BY DEF Message, Step, Idle
  <2>3. ActivationsInv'
    BY DEF ActivationsInv, Active, Works, Idle
  <2>4. CallsInv'
    BY DEF CallsInv, CallInv, Idle
  <2>5. ~Sending'
    BY DEF Sending, Idle
  <2>6. ListInv'
    BY <2>5 DEF ListInv, k
  <2>7. FlightInv'
    BY <2>5 DEF FlightInv, Carries, Empty
  <2>8. ListWatched'
    BY DEF ListWatched, Works, k
  <2>9. AnswersMatch'
    BY DEF AnswersMatch
  <2> QED BY <2>2, <2>3, <2>4, <2>6, <2>7, <2>8, <2>9
<1>7. CASE k # None
  <2>1. activation' = [activation EXCEPT ![t].step = "check"]
    BY <1>2, <1>7 DEF EndNotify, GoTo, k
  <2>2. activation'[t].step = "check" /\ activation'[t].call = k
    BY <2>1 DEF Inv, QueueInv, BpmpTypeOK, k
  <2> USE <1>1, <1>2, <1>3, <1>4, <1>5, <1>7, <2>1, <2>2 DEF Inv, QueueInv, BpmpTypeOK
  <2>3. BpmpTypeOK'
    BY DEF Message, Step
  <2>4. ActivationsInv'
    BY DEF ActivationsInv, Active, Works, Idle, k
  <2>5. CallsInv'
    BY DEF CallsInv, CallInv, k
  <2>6. ~Sending'
    BY DEF Sending
  <2>7. ListInv'
    BY <2>6 DEF ListInv
  <2>8. FlightInv'
    BY <2>6 DEF FlightInv, Carries, Empty
  <2>9. ListWatched'
    BY DEF ListWatched, Works
  <2>10. AnswersMatch'
    BY DEF AnswersMatch
  <2> QED BY <2>3, <2>4, <2>5, <2>7, <2>8, <2>9, <2>10
<1> QED BY <1>6, <1>7

(* The answer is that of the first request, and leaves the channel empty;    *)
(* the activation that took it sends the next request if there is one.       *)
LEMMA CompleteStep ==
  ASSUME OneBpmp, Inv, NEW t \in Tpl, TimerNotify(t), Answered
  PROVE  Inv'
<1> USE NoneAssumption
<1> DEFINE k == activation[t].call
           first == Head(TransactionList)
           rest == Tail(TransactionList)
<1>1. /\ activation[t].step = "poll" /\ Active(t)
      /\ \A u \in Tpl \ {t} : activation[u].step \in {"idle", "enter"}
      /\ \A u \in Tpl : u > t => ~Active(u)
  BY RunsAlone DEF TimerNotify, Inv
<1>2. TransactionList # <<>> /\ rx[ActiveChannel] # None /\ ActiveChannel = 0 /\ Channel = {0}
  BY OneChannel DEF Answered, Inv, QueueInv, BpmpTypeOK
<1>3. Carries(0, first)
  BY <1>1, <1>2 DEF Inv, QueueInv, FlightInv, Sending
<1>4. /\ first \in Call /\ Listed(first) /\ rest \in Seq(Call)
      /\ \A x : In(x, rest) <=> Listed(x) /\ x # first
      /\ Distinct(rest)
  BY <1>2, TailList, ListedIn DEF Inv, QueueInv, BpmpTypeOK, ListInv, Distinct
<1>5. rx[0] = first /\ tx[0] = None /\ work[0] = None
  BY <1>2, <1>3, <1>4 DEF Carries
<1>6. /\ reply' = [reply EXCEPT ![first] = [to |-> first, by |-> 0]]
      /\ rx' = [rx EXCEPT ![0] = None]
      /\ TransactionList' = rest
      /\ timer' = FALSE
      /\ IF rest # <<>> THEN GoTo(t, "next") ELSE EndNotify(t)
      /\ UNCHANGED <<info, ActiveChannel, signaled, tx, work>>
  BY <1>2, <1>5 DEF TimerNotify, Complete
<1>7. \A x : Listed(x)' <=> Listed(x) /\ x # first
  BY <1>4, <1>6, ListedInNext
<1>8. k # None => k \in Call /\ info[k].blocking /\ Listed(k)
  BY <1>1 DEF Inv, QueueInv, BpmpTypeOK, CallsInv, CallInv, Message
<1>9. info[first].channel = 0
  BY <1>2, <1>4 DEF Inv, QueueInv, BpmpTypeOK
<1>10. \A u \in Tpl \ {t} : activation[u].call # None => activation[u].call # first
  BY <1>1, <1>4 DEF Inv, QueueInv, CallsInv, CallInv, ActivationsInv, Active, Idle
<1>11. /\ \A x \in Call : x # first => reply'[x] = reply[x]
       /\ reply'[first] = [to |-> first, by |-> 0] /\ reply'[first] # None
       /\ reply' \in [Call -> {None, Unanswered} \cup [to : Call, by : Channel]]
       /\ AnswersMatch'
  <2>1. reply' \in [Call -> {None, Unanswered} \cup [to : Call, by : Channel]]
    BY <1>2, <1>4, <1>6 DEF Inv, QueueInv, BpmpTypeOK
  <2>2. reply'[first] = [to |-> first, by |-> 0] /\ \A x \in Call : x # first => reply'[x] = reply[x]
    BY <1>4, <1>6 DEF Inv, QueueInv, BpmpTypeOK
  <2>3. AnswersMatch'
    BY <2>2, <1>6, <1>9 DEF AnswersMatch, Inv
  <2>4. [to |-> first, by |-> 0] \in [to : Call, by : Channel]
    BY <1>2, <1>4
  <2> QED BY <2>1, <2>2, <2>3, <2>4
<1>12. (\A c \in Channel : Empty(c)') /\ rx' \in [Channel -> Message]
  BY <1>2, <1>5, <1>6 DEF Empty, Inv, QueueInv, BpmpTypeOK, Message
<1> HIDE DEF k, first, rest
<1>13. CASE rest = <<>> /\ k = None
  <2>1. activation' = [activation EXCEPT ![t] = Idle]
    BY <1>6, <1>13 DEF EndNotify, Return, k
  <2> USE <1>1, <1>4, <1>6, <1>7, <1>10, <1>11, <1>12, <1>13, <2>1 DEF Inv, QueueInv, BpmpTypeOK
  <2>2. BpmpTypeOK'
    BY DEF Message, Step, Idle
  <2>3. ActivationsInv'
    BY DEF ActivationsInv, Active, Works, Idle
  <2>4. CallsInv'
    BY DEF CallsInv, CallInv, Idle
  <2>5. ~Sending'
    BY SMTT(60) DEF Sending, Idle
  <2>6. ListInv'
    BY <2>5 DEF ListInv, Distinct, k
  <2>7. FlightInv' /\ ListWatched'
    BY DEF FlightInv, ListWatched
  <2> QED BY <2>2, <2>3, <2>4, <2>6, <2>7
<1>14. CASE rest # <<>> \/ k # None
  <2> DEFINE step == IF rest # <<>> THEN "next" ELSE "check"
  <2>1. activation' = [activation EXCEPT ![t].step = step]
    BY <1>6, <1>14 DEF EndNotify, GoTo, k
  <2>2. /\ activation'[t].step = step /\ activation'[t].call = k
        /\ step \in {"next", "check"} /\ (step = "next" <=> rest # <<>>)
        /\ step = "check" => k # None
    BY <1>14, <2>1 DEF Inv, QueueInv, BpmpTypeOK, k
  <2> HIDE DEF step
  <2>3. activation' \in [Tpl -> [call : Message, step : Step]]
    BY <2>1, <2>2 DEF Inv, QueueInv, BpmpTypeOK, Step, Message
  <2>4. BpmpTypeOK'
    BY <1>4, <1>6, <1>11, <1>12, <2>3 DEF Inv, QueueInv, BpmpTypeOK
  <2> USE <1>1, <1>4, <1>6, <1>7, <1>8, <1>10, <1>11, <1>12, <1>14, <2>1, <2>2
      DEF Inv, QueueInv, BpmpTypeOK
  <2>5. ActivationsInv'
    BY DEF ActivationsInv, Active, Works, Idle, k
  <2>6. CallsInv'
    <3>1. k # None => (k # first <=> reply'[k] = None)
      BY DEF ListInv
    <3>2. \A u \in Tpl \ {t} : activation'[u] = activation[u]
      OBVIOUS
    <3> QED BY <3>1, <3>2 DEF CallsInv, CallInv
  <2>7. Sending' => TransactionList' # <<>>
    BY DEF Sending
  <2>8. ListInv'
    BY <2>7 DEF ListInv, Distinct
  <2>9. TransactionList' # <<>> => Sending'
    BY DEF Sending
  <2>10. FlightInv' /\ ListWatched'
    BY <2>9 DEF FlightInv, ListWatched
  <2> QED BY <2>4, <2>5, <2>6, <2>8, <2>10
<1> QED BY <1>13, <1>14

LEMMA DispatchStep ==
  ASSUME OneBpmp, Inv, Dispatch
  PROVE  Inv'
<1> USE NoneAssumption
<1>1. /\ ~Active(NOTIFY) /\ NOTIFY \in Tpl
      /\ \A u \in Tpl : activation[u].step \in {"idle", "enter"}
      /\ \A u \in Tpl : u > NOTIFY => ~Active(u)
  BY EnterQuiet DEF Dispatch, Inv, Tpl
<1>2. /\ activation' = [activation EXCEPT ![NOTIFY] = [call |-> None, step |-> "poll"]]
      /\ signaled' = FALSE
      /\ UNCHANGED <<info, ActiveChannel, TransactionList, timer, tx, rx, work, reply>>
  BY DEF Dispatch
<1>3. \A x : Listed(x)' <=> Listed(x)
  BY <1>2, ListedIn, ListedInNext
<1> USE <1>1, <1>2, <1>3 DEF Inv, QueueInv, BpmpTypeOK
<1>4. BpmpTypeOK'
  BY DEF Message, Step
<1>5. ActivationsInv'
  <2>1. activation'[NOTIFY] = [call |-> None, step |-> "poll"]
    OBVIOUS
  <2>2. \A u \in Tpl \ {NOTIFY} : activation'[u] = activation[u]
    OBVIOUS
  <2>3. \A u \in Tpl : u > NOTIFY => FALSE
    BY DEF Tpl, APPLICATION, CALLBACK, NOTIFY
  <2> QED BY <2>1, <2>2, <2>3 DEF ActivationsInv, Active, Works, Idle
<1>6. CallsInv'
  <2>1. \A u \in Tpl : activation'[u].call # None => activation'[u] = activation[u]
    OBVIOUS
  <2> QED BY <2>1 DEF CallsInv, CallInv
<1>7. ~Sending' /\ ~Sending
  BY DEF Sending
<1>8. ListInv'
  <2>1. \A u \in Tpl : activation[u].call # None => activation'[u].call = activation[u].call
    BY DEF Active, Idle
  <2> QED BY <1>7, <2>1 DEF ListInv
<1>9. FlightInv'
  BY <1>7 DEF FlightInv, Empty, Carries
<1>10. ListWatched'
  BY DEF ListWatched, Works, Sending
<1>11. AnswersMatch'
  BY DEF AnswersMatch
<1> QED BY <1>4, <1>5, <1>6, <1>8, <1>9, <1>10, <1>11

(* The timer and the BPMP move the flag or the one message only.             *)
LEMMA OutsideStep ==
  ASSUME OneBpmp, Inv, Tick \/ (\E c \in Channel : BpmpTake(c) \/ BpmpAnswer(c)) \/ UNCHANGED vars
  PROVE  Inv'
<1> USE NoneAssumption
<1>1. UNCHANGED <<activation, info, ActiveChannel, TransactionList, timer, reply>>
  BY DEF Tick, BpmpTake, BpmpAnswer, vars
<1>2. Channel = {0}
  BY OneChannel
<1>3. /\ signaled' \in BOOLEAN
      /\ tx' \in [Channel -> Message] /\ rx' \in [Channel -> Message] /\ work' \in [Channel -> Message]
  BY DEF Tick, BpmpTake, BpmpAnswer, vars, Inv, QueueInv, BpmpTypeOK, Message
<1>4. (Empty(0) => Empty(0)') /\ \A k \in Call : Carries(0, k) => Carries(0, k)'
  BY <1>2 DEF Tick, BpmpTake, BpmpAnswer, vars, Inv, QueueInv, BpmpTypeOK, Empty, Carries
<1>5. (Sending' <=> Sending) /\ \A x : Listed(x)' <=> Listed(x)
  BY <1>1, ListedIn, ListedInNext DEF Sending
<1>6. TransactionList # <<>> => Head(TransactionList) \in Call
  BY TailList DEF Inv, QueueInv, BpmpTypeOK, ListInv, Distinct
<1> USE <1>1, <1>5 DEF Inv, QueueInv
<1>7. BpmpTypeOK'
  BY <1>3 DEF BpmpTypeOK
<1>8. ActivationsInv'
  BY DEF ActivationsInv, Active, Works
<1>9. CallsInv'
  BY DEF CallsInv, CallInv
<1>10. ListInv'
  BY DEF ListInv
<1>11. FlightInv'
  BY <1>2, <1>4, <1>6 DEF FlightInv
<1>12. ListWatched'
  BY DEF ListWatched, Works
<1>13. AnswersMatch'
  BY DEF AnswersMatch
<1> QED BY <1>7, <1>8, <1>9, <1>10, <1>11, <1>12, <1>13

-----------------------------------------------------------------------------

LEMMA InitInv == ASSUME OneBpmp, Init PROVE Inv
<1> USE NoneAssumption, OneChannel
<1>1. DOMAIN TransactionList = {} /\ \A k : ~Listed(k)
  <2>1. DOMAIN TransactionList = 1 .. 0
    BY EmptySeq, LenProperties DEF Init
  <2> QED BY <2>1 DEF Listed
<1>2. BpmpTypeOK
  BY EmptySeq DEF Init, BpmpTypeOK, Message, Step, Idle
<1>3. ActivationsInv /\ CallsInv /\ ~Sending
  BY DEF Init, ActivationsInv, CallsInv, Active, Works, Idle, Sending
<1>4. ListInv /\ FlightInv /\ ListWatched /\ AnswersMatch
  BY <1>1, <1>3 DEF Init, ListInv, FlightInv, Empty, ListWatched, AnswersMatch
<1> QED BY <1>2, <1>3, <1>4 DEF Inv, QueueInv

LEMMA StepInv == ASSUME OneBpmp, Inv, [Next]_vars PROVE Inv'
<1>1. CASE CommunicateBlocking
  BY <1>1, CommunicateStep DEF CommunicateBlocking
<1>2. CASE CommunicateAsync
  BY <1>2, CommunicateStep DEF CommunicateAsync, OneBpmp, Tpl
<1>3. CASE Run
  <2>1. PICK t \in Tpl :
          Refuse(t) \/ Enqueue(t) \/ Check(t) \/ ProcessTransaction(t) \/ TimerNotify(t)
    BY <1>3 DEF Run
  <2> QED BY <2>1, RefuseStep, EnqueueStep, CheckStep, ProcessStep, PollsNothing, CompleteStep
<1>4. CASE Dispatch
  BY <1>4, DispatchStep
<1>5. CASE Tick \/ (\E c \in Channel : BpmpTake(c) \/ BpmpAnswer(c)) \/ UNCHANGED vars
  BY <1>5, OutsideStep
<1> QED BY <1>1, <1>2, <1>3, <1>4, <1>5 DEF Next

(* With one BPMP no queued request is left alone, sent twice or mixed up      *)
(* with another, for any number of calls at any levels                        *)
(* (BpmpIpcCommunicate, ProcessTransaction, BpmpIpcTimerNotify).              *)
THEOREM QueueKept == ASSUME OneBpmp PROVE Spec => []QueueInv
<1>1. Init => Inv
  BY InitInv
<1>2. Inv /\ [Next]_vars => Inv'
  BY StepInv
<1>3. Inv => QueueInv
  BY DEF Inv
<1> QED BY <1>1, <1>2, <1>3, PTL DEF Spec

(* With one BPMP every call that ends has the answer to its own request.      *)
THEOREM OwnAnswers == ASSUME OneBpmp PROVE Spec => []AnswersMatch
<1>1. Init => Inv
  BY InitInv
<1>2. Inv /\ [Next]_vars => Inv'
  BY StepInv
<1>3. Inv => AnswersMatch
  BY DEF Inv
<1> QED BY <1>1, <1>2, <1>3, PTL DEF Spec
=============================================================================
