------------------------------ MODULE TrackerOps ------------------------------
(***************************************************************************)
(* The methods of LifecycleTracker (crates/txradar-core/src/tracker.rs) as *)
(* operators on the tracker's value: a record of                           *)
(*   active     the HashMap of followed bundles, a function whose domain   *)
(*              is the set of keys;                                        *)
(*   completed  the Vec of terminal records awaiting the log writer.       *)
(* A method that walks the HashMap visits it in an unspecified order; its  *)
(* operator returns the set of values it may leave.                        *)
(*                                                                         *)
(* Wall-clock times are left out: every event is pushed together with its  *)
(* StageTimings observation, so the stages observed are those of events.   *)
(* Tracked.landed_slot and record.landed_slot are always assigned together *)
(* and are one field here.                                                 *)
(***************************************************************************)
EXTENDS Integers, FiniteSets, Sequences, Functions

CONSTANTS
    Sigs,      \* transaction signatures a bundle may carry
    Slots,     \* chain slots
    Heights,   \* block heights, for the validity window of a blockhash
    None       \* the None of every Option

ASSUME SigsFinite   == IsFiniteSet(Sigs) /\ None \notin Sigs
ASSUME SlotsAssumption   == Slots \subseteq Nat /\ None \notin Slots
ASSUME HeightsAssumption == Heights \subseteq Nat /\ None \notin Heights

(***************************************************************************)
(* CommitmentStage, by its order(); Failed has no order and comes last in  *)
(* a record's events.  A slot update carries one of Levels.                *)
(***************************************************************************)
Submitted == 0
Processed == 1
Confirmed == 2
Finalized == 3
Failed    == 4

Levels == {Processed, Confirmed, Finalized}
Order  == [stage \in {Submitted} \cup Levels |-> stage]

FailureClass == {"ExpiredBlockhash", "FeeTooLow", "ComputeExceeded", "BundleFailure", "Unknown"}

ASSUME NoneIsNoClass == None \notin FailureClass
ASSUME NoneIsNoStage == None \notin {Submitted, Failed} \cup Levels

Opt(S) == S \cup {None}

Event  == [stage : {Submitted, Failed} \cup Levels, slot : Opt(Slots)]
Record == [signature : Opt(Sigs), lvbh : Opt(Heights), landed_slot : Opt(Slots),
           failure : Opt(FailureClass), events : Seq(Event)]
Entry  == [record : Record, stage : {Submitted} \cup Levels]

IsTracker(tr) ==
    /\ DOMAIN tr.active \subseteq Sigs
    /\ tr = [active |-> tr.active, completed |-> tr.completed]
    /\ tr.active \in [DOMAIN tr.active -> Entry]
    /\ tr.completed \in Seq(Record)

\* A record as the executor opens it, before it is tracked.
NewRecord(sig, lvbh) ==
    [signature |-> sig, lvbh |-> lvbh, landed_slot |-> None, failure |-> None, events |-> <<>>]

EmptyTracker == [active |-> [s \in {} |-> None], completed |-> <<>>]

-------------------------------------------------------------------------------
Push(rec, stage, slot) ==
    [rec EXCEPT !.events = Append(@, [stage |-> stage, slot |-> slot])]

\* A record closed as a failure: its class, and a Failed event at its slot.
FailedRecord(rec, class) == Push([rec EXCEPT !.failure = class], Failed, rec.landed_slot)

\* Mutant: a stage is taken whichever came before.
AdvanceAnywhere(t, stage, slot) ==
    [record |-> Push(t.record, stage, slot), stage |-> stage]

\* Forward moves only.
Advance(t, stage, slot) ==
    IF Order[stage] <= Order[t.stage] THEN t
    ELSE [record |-> Push(t.record, stage, slot), stage |-> stage]

Orders(S) == Bijection(1 .. Cardinality(S), S)

\* Mutant: the record is completed and the bundle stays followed.
SettleKept(tr, ord, rec) ==
    [tr EXCEPT !.completed = @ \o [i \in DOMAIN ord |-> rec[ord[i]]]]

\* The bundles of ord leave the map for completed, in that order, each with the record rec[s].
Settle(tr, ord, rec) ==
    [active    |-> Restrict(tr.active, DOMAIN tr.active \ Range(ord)),
     completed |-> tr.completed \o [i \in DOMAIN ord |-> rec[ord[i]]]]

-------------------------------------------------------------------------------
Track(tr, rec) ==
    IF rec.signature = None
    THEN [tr EXCEPT !.completed = Append(@, [rec EXCEPT !.failure = "Unknown"])]
    ELSE [tr EXCEPT !.active =
            [s \in DOMAIN @ \cup {rec.signature} |->
                IF s = rec.signature
                THEN [record |-> Push(rec, Submitted, None), stage |-> Submitted]
                ELSE tr.active[s]]]

\* Mutant: the failure is noted on a bundle that stays in the map.
FailInPlace(tr, sig, class) ==
    IF sig \notin DOMAIN tr.active THEN tr
    ELSE [tr EXCEPT !.active[sig] =
            [record |-> FailedRecord(@.record, class), stage |-> Failed]]

Fail(tr, sig, class) ==
    IF sig \notin DOMAIN tr.active THEN tr
    ELSE Settle(tr, <<sig>>, [s \in {sig} |-> FailedRecord(tr.active[s].record, class)])

\* Mutant: only a reverted transaction leaves its slot on the record.
OnTransactionSlotless(tr, sig, slot, failed) ==
    IF sig \notin DOMAIN tr.active THEN tr
    ELSE IF failed
         THEN Fail([tr EXCEPT !.active[sig].record.landed_slot = slot], sig, "BundleFailure")
         ELSE [tr EXCEPT !.active[sig] = Advance(@, Processed, slot)]

\* Mutant: the slot on the record is that of the last update.
OnTransactionOverwrites(tr, sig, slot, failed) ==
    IF sig \notin DOMAIN tr.active THEN tr
    ELSE LET seen == [tr EXCEPT !.active[sig].record.landed_slot = slot]
         IN  IF failed THEN Fail(seen, sig, "BundleFailure")
             ELSE [seen EXCEPT !.active[sig] = Advance(@, Processed, slot)]

\* The landed slot is written once; a reverted transaction closes the bundle.
OnTransaction(tr, sig, slot, failed) ==
    IF sig \notin DOMAIN tr.active THEN tr
    ELSE LET seen == [tr EXCEPT !.active[sig].record.landed_slot = IF @ = None THEN slot ELSE @]
         IN  IF failed THEN Fail(seen, sig, "BundleFailure")
             ELSE [seen EXCEPT !.active[sig] = Advance(@, Processed, slot)]

\* Mutant: an update moves bundles that landed after its slot too.
ToAdvanceUnbounded(tr, slot, level) ==
    {s \in DOMAIN tr.active :
        /\ tr.active[s].record.landed_slot # None
        /\ Order[level] > Order[tr.active[s].stage]}

\* Mutant: one stage at a time, so a missed update is never made up for.
ToAdvanceStepwise(tr, slot, level) ==
    {s \in DOMAIN tr.active :
        /\ tr.active[s].record.landed_slot # None
        /\ tr.active[s].record.landed_slot <= slot
        /\ Order[level] = Order[tr.active[s].stage] + 1}

\* The bundles a slot update moves forward: landed at or before that slot.
ToAdvance(tr, slot, level) ==
    {s \in DOMAIN tr.active :
        /\ tr.active[s].record.landed_slot # None
        /\ tr.active[s].record.landed_slot <= slot
        /\ Order[level] > Order[tr.active[s].stage]}

AdvanceAll(tr, slot, level) ==
    [tr EXCEPT !.active =
        [s \in DOMAIN @ |->
            IF s \in ToAdvance(tr, slot, level)
            THEN Advance(@[s], level, @[s].record.landed_slot)
            ELSE @[s]]]

Records(tr) == [s \in DOMAIN tr.active |-> tr.active[s].record]

OnSlotCommitment(tr, slot, level) ==
    LET after == AdvanceAll(tr, slot, level)
    IN  IF level # Finalized THEN {after}
        ELSE {Settle(after, ord, Records(after)) : ord \in Orders(ToAdvance(tr, slot, level))}

Expired(tr, height) ==
    {s \in DOMAIN tr.active :
        /\ tr.active[s].record.landed_slot = None
        /\ tr.active[s].record.lvbh # None
        /\ height > tr.active[s].record.lvbh}

ExpireUnlanded(tr, height) ==
    LET failures == [s \in DOMAIN tr.active |-> FailedRecord(tr.active[s].record, "ExpiredBlockhash")]
    IN  {Settle(tr, ord, failures) : ord \in Orders(Expired(tr, height))}

\* Mutants: every bundle closes as it stands; as Unknown; or only if it landed.
FlushAsTheyStand(tr) ==
    {Settle(tr, ord, Records(tr)) : ord \in Orders(DOMAIN tr.active)}

FlushAllUnknown(tr) ==
    LET last == [s \in DOMAIN tr.active |-> FailedRecord(tr.active[s].record, "Unknown")]
    IN  {Settle(tr, ord, last) : ord \in Orders(DOMAIN tr.active)}

FlushLandedOnly(tr) ==
    LET landed == {s \in DOMAIN tr.active : tr.active[s].record.landed_slot # None}
    IN  {[Settle(tr, ord, Records(tr)) EXCEPT !.active = EmptyTracker.active] : ord \in Orders(landed)}

\* End of run: a landed bundle closes as it stands, any other as Unknown.
FlushActive(tr) ==
    LET last == [s \in DOMAIN tr.active |->
                    LET rec == tr.active[s].record
                    IN  IF rec.landed_slot = None THEN FailedRecord(rec, "Unknown") ELSE rec]
    IN  {Settle(tr, ord, last) : ord \in Orders(DOMAIN tr.active)}

DrainCompleted(tr) == [tr EXCEPT !.completed = <<>>]

-------------------------------------------------------------------------------
IsActive(tr, sig) == sig \in DOMAIN tr.active

\* active_progress: <<stage, slot>>, or None.
ActiveProgress(tr, sig) ==
    IF IsActive(tr, sig)
    THEN <<tr.active[sig].stage, tr.active[sig].record.landed_slot>>
    ELSE None

\* completed_outcome, of the first completed record of sig.
CompletedOutcome(tr, sig) ==
    LET hits == {i \in DOMAIN tr.completed : tr.completed[i].signature = sig}
        rec  == tr.completed[CHOOSE i \in hits : \A j \in hits : i <= j]
    IN  CASE hits = {} -> None
          [] hits # {} /\ rec.failure # None -> [failed |-> TRUE, class |-> rec.failure]
          [] hits # {} /\ rec.failure = None /\ rec.landed_slot # None ->
                [failed |-> FALSE, slot |-> rec.landed_slot]
          [] OTHER -> [failed |-> TRUE, class |-> "Unknown"]
===============================================================================
