--------------------------- MODULE LifecycleTracker ---------------------------
(***************************************************************************)
(* The lifecycle tracker as a state machine: one action per public method. *)
(* Its callers are the executor (track, mark_failed, flush_active,         *)
(* drain_completed) and the ingest task, which replays whatever the stream *)
(* delivers: slot and transaction updates for any slot, in any order, any  *)
(* number of times.  Every attempt of the executor signs a transaction of  *)
(* its own (the memo carries the attempt id), so no signature is tracked   *)
(* twice; that is the only restriction on callers.                         *)
(*                                                                         *)
(* drained is what the log writer was handed, in order; heard[l] is the    *)
(* highest slot a commitment update of level l named, -1 before the first. *)
(* heard is history: only properties read it.  It has no entry for         *)
(* Processed: a bundle reaches Processed only by its own transaction.      *)
(***************************************************************************)
EXTENDS TrackerOps

CONSTANTS
    MaxUnsigned,   \* bound: records without a signature handed to track
    Classes        \* the classes mark_failed is called with

ASSUME MaxUnsignedAssumption == MaxUnsigned \in Nat
ASSUME ClassesAssumption == Classes \subseteq FailureClass

VARIABLES tracker, drained, heard

vars == <<tracker, drained, heard>>

History == drained \o tracker.completed

SignedBy(seq, sig) == {i \in DOMAIN seq : seq[i].signature = sig}

Init ==
    /\ tracker = EmptyTracker
    /\ drained = <<>>
    /\ heard = [l \in {Confirmed, Finalized} |-> -1]

TrackSigned ==
    /\ \E sig \in Sigs, lvbh \in Heights :
        /\ ~ IsActive(tracker, sig)
        /\ SignedBy(History, sig) = {}
        /\ tracker' = Track(tracker, NewRecord(sig, lvbh))
    /\ UNCHANGED <<drained, heard>>

TrackUnsigned ==
    /\ Cardinality(SignedBy(History, None)) < MaxUnsigned
    /\ \E lvbh \in Heights : tracker' = Track(tracker, NewRecord(None, lvbh))
    /\ UNCHANGED <<drained, heard>>

SeeTransaction ==
    /\ \E sig \in Sigs, slot \in Slots, failed \in BOOLEAN :
        tracker' = OnTransaction(tracker, sig, slot, failed)
    /\ UNCHANGED <<drained, heard>>

CommitSlot(slot, level) ==
    /\ tracker' \in OnSlotCommitment(tracker, slot, level)
    /\ heard' = [l \in DOMAIN heard |-> IF l = level /\ slot > heard[l] THEN slot ELSE heard[l]]
    /\ UNCHANGED drained

SlotCommitment == \E slot \in Slots, level \in Levels : CommitSlot(slot, level)

Expire ==
    /\ \E height \in Heights : tracker' \in ExpireUnlanded(tracker, height)
    /\ UNCHANGED <<drained, heard>>

MarkFailed ==
    /\ \E sig \in Sigs, class \in Classes : tracker' = Fail(tracker, sig, class)
    /\ UNCHANGED <<drained, heard>>

Flush ==
    /\ tracker' \in FlushActive(tracker)
    /\ UNCHANGED <<drained, heard>>

\* Mutant: the completed records are cleared before they are handed over.
DrainCleared ==
    /\ tracker' = DrainCompleted(tracker)
    /\ drained' = drained \o tracker'.completed
    /\ UNCHANGED heard

Drain ==
    /\ drained' = drained \o tracker.completed
    /\ tracker' = DrainCompleted(tracker)
    /\ UNCHANGED heard

Next ==
    \/ TrackSigned \/ TrackUnsigned \/ SeeTransaction \/ SlotCommitment
    \/ Expire \/ MarkFailed \/ Flush \/ Drain

Spec == Init /\ [][Next]_vars

-------------------------------------------------------------------------------
(* Type correctness of the tracker, the log and the history.               *)
TypeOK ==
    /\ IsTracker(tracker)
    /\ drained \in Seq(Record)
    /\ heard \in [{Confirmed, Finalized} -> Slots \cup {-1}]

(* A tracked bundle has exactly one record: it is either still followed or *)
(* it was completed once, whatever mix of stream updates, executor         *)
(* failures, expiry, flush and drain closed it.  The campaign log counts   *)
(* landings by record, so a second record would be a second landing.       *)
OneRecordPerBundle ==
    /\ \A i, j \in DOMAIN History :
         History[i].signature = History[j].signature => i = j \/ History[i].signature = None
    /\ \A i \in DOMAIN History : ~ IsActive(tracker, History[i].signature)

(* Followed records are open ones, filed under their own signature, that   *)
(* have a landed slot exactly when they got past Submitted.                *)
OpenRecords ==
    \A sig \in DOMAIN tracker.active :
        LET t == tracker.active[sig]
        IN  /\ t.record.signature = sig
            /\ t.record.failure = None
            /\ (t.record.landed_slot = None) <=> (t.stage = Submitted)

(* A record closed without a failure landed: completed_outcome never meets *)
(* the pair (None, None) its comment says "shouldn't happen".              *)
SuccessMeansLanded ==
    \A i \in DOMAIN History :
        History[i].failure = None => History[i].landed_slot # None

\* The events of rec lead from Submitted to stage.
TraceOf(rec, stage) ==
    LET ev == rec.events
        n  == Len(ev)
    IN  /\ n > 0 /\ ev[1] = [stage |-> Submitted, slot |-> None]
        /\ ev[n].stage = stage
        /\ \A i, j \in 1 .. n : i < j => ev[i].stage < ev[j].stage
        /\ \A i \in 2 .. n : ev[i].slot = rec.landed_slot

(* The events of a record retrace one lifecycle: Submitted first, stages   *)
(* strictly ascending whatever order updates came in, a Failed event last  *)
(* exactly when the record has a failure, and every event after Submitted  *)
(* at the slot the record says it landed in.                               *)
LifecycleTrace ==
    /\ \A sig \in DOMAIN tracker.active :
         TraceOf(tracker.active[sig].record, tracker.active[sig].stage)
    /\ \A i \in DOMAIN History :
         LET rec == History[i]
         IN  rec.signature # None =>
               /\ \E stage \in Levels \cup {Failed} : TraceOf(rec, stage)
               /\ (\E k \in DOMAIN rec.events : rec.events[k].stage = Failed)
                    <=> (rec.failure # None)

\* The stream reported, by hd, the commitment levels rec shows.
Backed(rec, hd) ==
    \A k \in DOMAIN rec.events :
        rec.events[k].stage \in {Confirmed, Finalized} =>
            rec.landed_slot # None /\ rec.landed_slot <= hd[rec.events[k].stage]

(* No stage past Processed without the stream's word for it: a record that *)
(* shows Confirmed or Finalized landed at or before a slot that the stream *)
(* reported at that very level.                                            *)
StageIsEvidenced ==
    /\ \A sig \in DOMAIN tracker.active : Backed(tracker.active[sig].record, heard)
    /\ \A i \in DOMAIN History : Backed(History[i], heard)

(* Completed records are final: over any step the sequence of all records  *)
(* ever completed only grows at its end.  No late update or second         *)
(* mark_failed rewrites, reorders or drops one, drained or not.            *)
CompletedIsFinal ==
    [][/\ Len(History') >= Len(History)
       /\ SubSeq(History', 1, Len(History)) = History]_vars

(* A followed bundle never goes back a stage and keeps the slot it landed  *)
(* in, and it leaves the map only into the completed records with that     *)
(* slot: no step drops one.                                                *)
NeverRegress ==
    [][\A sig \in DOMAIN tracker.active :
          LET t == tracker.active[sig]
          IN  IF sig \in DOMAIN tracker'.active
              THEN /\ tracker'.active[sig].stage >= t.stage
                   /\ t.record.landed_slot \in {None, tracker'.active[sig].record.landed_slot}
              ELSE \E i \in DOMAIN tracker'.completed :
                      /\ tracker'.completed[i].signature = sig
                      /\ t.record.landed_slot \in {None, tracker'.completed[i].landed_slot}]_vars

(* What the run's end relies on: while the chain keeps finalizing slots at *)
(* or past the highest one, every bundle seen landed is completed, with no *)
(* help from the executor, even when the Confirmed update never came.      *)
TopSlotFinalizes ==
    \E top \in Slots : (\A s \in Slots : s <= top) /\ CommitSlot(top, Finalized)

FairSpec == Spec /\ WF_vars(TopSlotFinalizes)

LandedCompletes ==
    \A sig \in Sigs :
        (IsActive(tracker, sig) /\ tracker.active[sig].record.landed_slot # None)
            ~> (SignedBy(History, sig) # {})

-------------------------------------------------------------------------------
(* What each signature looks like to the abstract Lifecycle.               *)
StageOf(sig) == IF IsActive(tracker, sig) THEN tracker.active[sig].stage ELSE None
SlotOf(sig)  == IF IsActive(tracker, sig) THEN tracker.active[sig].record.landed_slot ELSE None

Outcome(rec) == [slot |-> rec.landed_slot, failed |-> rec.failure # None]

OutcomesIn(seq, sig) == {Outcome(seq[i]) : i \in SignedBy(seq, sig)}

Bundle(sig) == INSTANCE Lifecycle WITH
    stage    <- StageOf(sig),
    slot     <- SlotOf(sig),
    outcomes <- OutcomesIn(History, sig)

(* Every bundle lives one lifecycle: whatever order updates, failures,     *)
(* expiry, flush and drain come in, and however many bundles one call      *)
(* moves, each goes forward through its stages and ends once, with the     *)
(* slot it landed in.                                                      *)
ImplementsLifecycle ==
    /\ \A sig \in Sigs : Bundle(sig)!Init
    /\ [][\A sig \in Sigs : [Bundle(sig)!Next]_<<StageOf(sig), SlotOf(sig), OutcomesIn(History, sig)>>]_vars
===============================================================================
