-------------------------- MODULE VarIntProperties --------------------------
(***************************************************************************)
(* What the measurements promise: a variable store that was changed only   *)
(* by the driver is accepted at the next boot, wherever the power was lost.*)
(*                                                                         *)
(* The code keeps this promise except in the windows below, which the      *)
(* ghost variable trust marks; TLC shows that it breaks in each of them.   *)
(*   - The guess of the content was wrong: from the write of the store     *)
(*     until a corrected record is written, no record measures the store.  *)
(*     When the guess is what the store held before, no record is written  *)
(*     for the update at all.                                              *)
(*   - The first record of a blank partition is cut short.                 *)
(*   - A partition of the old format with two live records is migrated.    *)
(*   - The flash fails, other than in one header write after an update or  *)
(*     of the first record: the next boot repairs that ("strained"), but   *)
(*     another update before it may not.                                   *)
(***************************************************************************)
EXTENDS VarInt

RecordType == [ver : {0, 1}, st : {"erased", "pending", "valid", "invalid"},
               m : Content \union {Garbage}]

Phases == RecordPhases \union HeaderPhases \union
    {"off", "reinit", "validate", "idle", "store", "post", "reject", "wipe",
     "refused", "dead"}

\* The variables have their types: the records of the partition and of the
\* driver's copy, the content of the store, the step the driver is at.
TypeOK ==
    /\ flash \in [Slot -> RecordType] /\ copy \in [Slot -> RecordType]
    /\ store \in Content \union {NoStore}
    /\ phase \in Phases /\ match \in Slot
    /\ todo \subseteq Slot /\ others \subseteq Slot
    /\ deferred \in BOOLEAN /\ err \in BOOLEAN
    /\ upd \in [new : Content, guess : Content, ok : BOOLEAN, dirty : BOOLEAN]
    /\ faults \in 0 .. MaxFaults
    /\ trust \in {"kept", "strained", "lost"}

\* Outside the windows above VarIntValidate accepts the store, and the
\* machine is never off in a state it would reject: the partition is blank
\* for a store never measured, or a live record measures the store and there
\* are at most two live ones.
StoreAccepted ==
    trust # "lost" =>
        /\ phase # "reject"
        /\ phase = "off" =>
              \/ store = NoStore
              \/ Blank(flash) /\ (deferred \/ store = Fresh)
              \/ /\ ~TooMany(flash)
                 /\ MatchesV1(flash, store) \union MatchesV0(flash, store) # {}

\* Between updates the driver's copy is the flash, and exactly one record is
\* live: a valid one, which measures the store as it is.  The commit, the
\* abort and the repair at boot all have to leave it so, although each of
\* them rewrites the headers one at a time.
OneRecordWhenIdle ==
    phase = "idle" /\ trust = "kept" /\ ~deferred =>
        /\ copy = flash
        /\ \E s \in Slot : Live(copy) = {s} /\ copy[s] = Record(1, "valid", store)

\* When the power stays on, the machine gets to run with a measured store
\* again and again, or it stops on an assertion: a rejected store is wiped
\* and made anew by the next boot, without a loop of resets.
Recovers ==
    <>[][~PowerLoss]_vars => []<>(phase = "dead" \/ (phase = "idle" /\ ~deferred))
=============================================================================
