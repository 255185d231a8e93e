---------------------- MODULE LifecycleTrackerRefinement ----------------------
(***************************************************************************)
(* Every step of the tracker is, for each followed bundle, one step of the *)
(* abstract Lifecycle or none: Grows.  From it follow that completed       *)
(* records are final, that no bundle regresses or is dropped, and that the *)
(* tracker implements Lifecycle, for every set of signatures and slots.    *)
(***************************************************************************)
EXTENDS LifecycleTrackerProofs

USE DEF Submitted, Processed, Confirmed, Finalized, Failed

-------------------------------------------------------------------------------
\* Moves, next to which records without a signature may be completed.
Adds(tr, after, m) ==
    /\ after.completed = tr.completed \o m
    /\ \A i \in DOMAIN m : m[i].signature # None =>
          /\ m[i].signature \in DOMAIN tr.active \ DOMAIN after.active
          /\ EndsAs(tr.active[m[i].signature], m[i], News, Slots)
    /\ \A i, j \in DOMAIN m : m[i].signature = m[j].signature => i = j
    /\ DOMAIN after.active \subseteq DOMAIN tr.active
    /\ \A s \in DOMAIN after.active : Stays(tr.active[s], after.active[s], News, Slots)
    /\ \A s \in DOMAIN tr.active \ DOMAIN after.active : \E i \in DOMAIN m : m[i].signature = s

Grows(tr, after) == \E m \in Seq(Record) : Adds(tr, after, m)

LEMMA MovesGrow ==
    ASSUME NEW tr, NEW after, NEW kept, NEW news \in SUBSET News, NEW vouched \in SUBSET Slots,
           Moves(tr, after, kept, news, vouched)
    PROVE  Grows(tr, after)
<1>1. PICK m \in Seq(Record) : Appends(tr, after, m, kept, news, vouched)
  BY DEF Moves
<1>2. Adds(tr, after, m)
  BY <1>1 DEF Appends, Adds, Stays, EndsAs
<1> QED
  BY <1>2 DEF Grows

(* A record without a signature is completed; no bundle moves.             *)
LEMMA TrackUnsignedGrows ==
    ASSUME NEW tr, IsTracker(tr), NEW lvbh \in Heights
    PROVE  Grows(tr, Track(tr, NewRecord(None, lvbh)))
<1> DEFINE rec   == [NewRecord(None, lvbh) EXCEPT !.failure = "Unknown"]
           after == Track(tr, NewRecord(None, lvbh))
<1>1. after.active = tr.active /\ after.completed = Append(tr.completed, rec)
  BY DEF Track, NewRecord, IsTracker
<1>2. rec \in Record /\ rec.signature = None
  BY NewRecordType DEF Record, Opt, FailureClass, NewRecord
<1> HIDE DEF rec, after
<1>3. tr.completed \in Seq(Record) /\ <<rec>> \in Seq(Record)
  BY <1>2 DEF IsTracker
<1>4. after.completed = tr.completed \o <<rec>>
  BY <1>1, <1>2, <1>3, AppendIsConcat
<1>5. DOMAIN <<rec>> = {1} /\ <<rec>>[1] = rec
  OBVIOUS
<1>6. Adds(tr, after, <<rec>>)
  BY <1>1, <1>2, <1>4, <1>5 DEF Adds, Stays
<1> QED
  BY <1>3, <1>6 DEF Grows, after

(* Every step follows a new bundle, hands completed records over, or moves *)
(* followed bundles.                                                       *)
LEMMA NextGrows ==
    ASSUME IInv, Next
    PROVE  TrackSigned \/ Drain \/ (Grows(tracker, tracker') /\ drained' = drained)
<1>1. IsTracker(tracker) /\ Sound(tracker)
  BY DEF IInv, TypeOK, Safe, Open, Sound, Follows
<1>2. CASE TrackUnsigned
  BY <1>1, <1>2, TrackUnsignedGrows DEF TrackUnsigned
<1>3. CASE SeeTransaction
  <2>1. PICK sig \in Sigs, slot \in Slots, failed \in BOOLEAN :
          tracker' = OnTransaction(tracker, sig, slot, failed) /\ drained' = drained
    BY <1>3 DEF SeeTransaction
  <2>2. Moves(tracker, tracker', {}, {Saw(sig, slot, failed)}, {})
    BY <1>1, <2>1, OnTransactionMoves
  <2>3. {Saw(sig, slot, failed)} \in SUBSET News
    BY DEF Saw, News
  <2> QED
    BY <2>1, <2>2, <2>3, MovesGrow
<1>4. CASE SlotCommitment
  <2>1. PICK slot \in Slots, level \in Levels :
          tracker' \in OnSlotCommitment(tracker, slot, level) /\ drained' = drained
    BY <1>4 DEF SlotCommitment, CommitSlot
  <2>2. Moves(tracker, tracker', {}, {}, Vouched(slot, level))
    BY <1>1, <2>1, OnSlotCommitmentMoves
  <2>3. Vouched(slot, level) \in SUBSET Slots
    BY DEF Vouched
  <2> QED
    BY <2>1, <2>2, <2>3, MovesGrow
<1>5. CASE Expire
  BY <1>1, <1>5, ExpireMoves, MovesGrow DEF Expire
<1>6. CASE MarkFailed
  BY <1>1, <1>6, FailMoves, MovesGrow, ClassesAssumption DEF MarkFailed
<1>7. CASE Flush
  <2>1. Moves(tracker, tracker', LandedIn(tracker), {}, Slots) /\ drained' = drained
    BY <1>1, <1>7, FlushMoves DEF Flush
  <2> QED
    BY <2>1, MovesGrow
<1> QED
  BY <1>2, <1>3, <1>4, <1>5, <1>6, <1>7 DEF Next

LEMMA HistoryType == TypeOK => History \in Seq(Record)
BY ConcatProperties DEF TypeOK, IsTracker, History

(* Draining moves records within the history.                              *)
LEMMA DrainKeeps ==
    ASSUME TypeOK, Drain
    PROVE  History' = History /\ tracker'.active = tracker.active
<1>1. drained \in Seq(Record) /\ tracker.completed \in Seq(Record)
  BY DEF TypeOK, IsTracker
<1>2. tracker'.completed = <<>> /\ tracker'.active = tracker.active
  BY DEF Drain, DrainCompleted, TypeOK, IsTracker
<1>3. drained \o tracker.completed \in Seq(Record)
  BY <1>1, ConcatProperties
<1>4. (drained \o tracker.completed) \o <<>> = drained \o tracker.completed
  BY <1>3, ConcatEmptySeq
<1> QED
  BY <1>2, <1>4 DEF Drain, History

(* Following a new bundle completes none and changes none.                 *)
LEMMA TrackSignedKeeps ==
    ASSUME TypeOK, NEW sig \in Sigs, NEW lvbh \in Heights, ~ IsActive(tracker, sig),
           tracker' = Track(tracker, NewRecord(sig, lvbh)), drained' = drained
    PROVE  /\ History' = History
           /\ DOMAIN tracker'.active = DOMAIN tracker.active \cup {sig}
           /\ tracker'.active[sig].stage = Submitted
           /\ tracker'.active[sig].record.landed_slot = None
           /\ \A s \in DOMAIN tracker.active : tracker'.active[s] = tracker.active[s]
<1>1. sig # None
  BY SigsFinite
<1>2. /\ tracker'.completed = tracker.completed
      /\ DOMAIN tracker'.active = DOMAIN tracker.active \cup {sig}
      /\ tracker'.active[sig] =
           [record |-> Push(NewRecord(sig, lvbh), Submitted, None), stage |-> Submitted]
      /\ \A s \in DOMAIN tracker.active : tracker'.active[s] = tracker.active[s]
  BY <1>1 DEF Track, NewRecord, TypeOK, IsTracker, IsActive
<1>3. Push(NewRecord(sig, lvbh), Submitted, None).landed_slot = None
  BY DEF Push, NewRecord
<1> QED
  BY <1>2, <1>3 DEF History

(* A step that moves bundles appends to the history.                       *)
LEMMA AddsHistory ==
    ASSUME TypeOK, drained' = drained, NEW m \in Seq(Record), Adds(tracker, tracker', m)
    PROVE  History' = History \o m
<1>1. drained \in Seq(Record) /\ tracker.completed \in Seq(Record)
  BY DEF TypeOK, IsTracker
<1>2. tracker'.completed = tracker.completed \o m
  BY DEF Adds
<1>3. drained \o (tracker.completed \o m) = (drained \o tracker.completed) \o m
  BY <1>1, RecordsAssociate, Zenon
<1> QED
  BY <1>2, <1>3 DEF History

(* Completed records are final: no step rewrites, reorders or drops one.   *)
THEOREM Final == Spec => CompletedIsFinal
<1>1. IInv /\ [Next]_vars => [/\ Len(History') >= Len(History)
                             /\ SubSeq(History', 1, Len(History)) = History]_vars
  <2> SUFFICES ASSUME IInv, Next
               PROVE  Len(History') >= Len(History) /\ SubSeq(History', 1, Len(History)) = History
    OBVIOUS
  <2>1. TypeOK /\ History \in Seq(Record)
    BY HistoryType DEF IInv
  <2>2. ASSUME NEW m \in Seq(Record), History' = History \o m
        PROVE  Len(History') >= Len(History) /\ SubSeq(History', 1, Len(History)) = History
    <3> DEFINE h == History
    <3>1. h \in Seq(Record) /\ Len(h) \in Nat /\ Len(m) \in Nat
      BY <2>1, LenProperties
    <3> HIDE DEF h
    <3>2. h \o m \in Seq(Record) /\ Len(h \o m) = Len(h) + Len(m)
          /\ \A i \in 1 .. Len(h) + Len(m) : (h \o m)[i] = IF i <= Len(h) THEN h[i] ELSE m[i - Len(h)]
      BY <3>1, ConcatProperties
    <3>3. SubSeq(h \o m, 1, Len(h)) = h
      BY <3>1, <3>2
    <3>4. Len(h \o m) >= Len(h)
      BY <3>1, <3>2
    <3> QED
      BY <2>2, <3>3, <3>4 DEF h
  <2>3. <<>> \in Seq(Record) /\ History \o <<>> = History
    BY <2>1, EmptySeq, ConcatEmptySeq
  <2>4. CASE TrackSigned
    BY <2>1, <2>2, <2>3, <2>4, TrackSignedKeeps DEF TrackSigned
  <2>5. CASE Drain
    BY <2>1, <2>2, <2>3, <2>5, DrainKeeps
  <2>6. CASE Grows(tracker, tracker') /\ drained' = drained
    BY <2>1, <2>2, <2>6, AddsHistory DEF Grows
  <2> QED
    BY <2>4, <2>5, <2>6, NextGrows
<1> QED
  BY <1>1, IInvAlways, PTL DEF Spec, CompletedIsFinal

(* A followed bundle never goes back, and is never dropped.                *)
THEOREM Forward == Spec => NeverRegress
<1> DEFINE Keeps(sig) ==
      LET t == tracker.active[sig]
      IN  IF sig \in DOMAIN tracker'.active
          THEN /\ tracker'.active[sig].stage >= t.stage
               /\ t.record.landed_slot \in {None, tracker'.active[sig].record.landed_slot}
          ELSE \E i \in DOMAIN tracker'.completed :
                  /\ tracker'.completed[i].signature = sig
                  /\ t.record.landed_slot \in {None, tracker'.completed[i].landed_slot}
<1>1. IInv /\ [Next]_vars => [\A sig \in DOMAIN tracker.active : Keeps(sig)]_vars
  <2> SUFFICES ASSUME IInv, Next, NEW sig \in DOMAIN tracker.active PROVE Keeps(sig)
    OBVIOUS
  <2>1. /\ TypeOK /\ sig \in Sigs /\ tracker.active[sig].stage \in {Submitted} \cup Levels
        /\ tracker.completed \in Seq(Record)
    BY DEF IInv, TypeOK, IsTracker, Entry
  <2>2. CASE sig \in DOMAIN tracker'.active /\ tracker'.active[sig] = tracker.active[sig]
    BY <2>1, <2>2 DEF Levels
  <2>3. CASE TrackSigned
    <3>1. sig \in DOMAIN tracker'.active /\ tracker'.active[sig] = tracker.active[sig]
      BY <2>1, <2>3, TrackSignedKeeps DEF TrackSigned
    <3> QED
      BY <2>2, <3>1
  <2>4. CASE Drain
    <3>1. sig \in DOMAIN tracker'.active /\ tracker'.active[sig] = tracker.active[sig]
      BY <2>1, <2>4, DrainKeeps
    <3> QED
      BY <2>2, <3>1
  <2>5. ASSUME NEW m \in Seq(Record), Adds(tracker, tracker', m)
        PROVE  Keeps(sig)
    <3>1. CASE sig \in DOMAIN tracker'.active
      <4>1. Stays(tracker.active[sig], tracker'.active[sig], News, Slots)
        BY <2>5, <3>1 DEF Adds
      <4> DEFINE t  == tracker.active[sig]
                 t2 == tracker'.active[sig]
      <4>2. t.stage \in {Submitted} \cup Levels
        BY <2>1
      <4>3. t2.stage >= t.stage /\ t.record.landed_slot \in {None, t2.record.landed_slot}
        <5> HIDE DEF t, t2
        <5>1. Stays(t, t2, News, Slots)
          BY <4>1 DEF t, t2
        <5> QED
          BY <4>2, <5>1 DEF Stays, Levels, Saw
      <4> QED
        BY <3>1, <4>3
    <3>2. CASE sig \notin DOMAIN tracker'.active
      <4>1. PICK i \in DOMAIN m : m[i].signature = sig
        BY <2>5, <3>2 DEF Adds
      <4>2. EndsAs(tracker.active[sig], m[i], News, Slots)
        BY <2>1, <2>5, <4>1, SigsFinite DEF Adds
      <4>3. tracker'.completed = tracker.completed \o m
        BY <2>5 DEF Adds
      <4>4. Len(tracker.completed) + i \in DOMAIN tracker'.completed
            /\ tracker'.completed[Len(tracker.completed) + i] = m[i]
        <5> DEFINE c == tracker.completed
        <5>1. c \in Seq(Record) /\ Len(c) \in Nat /\ Len(m) \in Nat /\ i \in 1 .. Len(m)
          BY <2>1, LenProperties
        <5> HIDE DEF c
        <5>2. c \o m \in Seq(Record) /\ Len(c \o m) = Len(c) + Len(m)
              /\ \A k \in 1 .. Len(c) + Len(m) : (c \o m)[k] = IF k <= Len(c) THEN c[k] ELSE m[k - Len(c)]
          BY <5>1, ConcatProperties
        <5>3. Len(c) + i \in 1 .. Len(c) + Len(m) /\ ~ (Len(c) + i <= Len(c))
              /\ (Len(c) + i) - Len(c) = i
          BY <5>1
        <5>4. DOMAIN (c \o m) = 1 .. Len(c) + Len(m)
          BY <5>2, LenProperties
        <5> QED
          BY <4>3, <5>2, <5>3, <5>4 DEF c
      <4>5. tracker.active[sig].record.landed_slot \in {None, m[i].landed_slot}
        BY <4>2 DEF EndsAs
      <4> QED
        BY <3>2, <4>1, <4>4, <4>5
    <3> QED
      BY <3>1, <3>2
  <2> HIDE DEF Keeps
  <2> QED
    BY <2>3, <2>4, <2>5, NextGrows DEF Grows
<1> QED
  BY <1>1, IInvAlways, PTL DEF Spec, NeverRegress

-------------------------------------------------------------------------------
(* The outcomes of a signature in a longer history.                        *)
LEMMA OutcomesGrow ==
    ASSUME NEW h \in Seq(Record), NEW m \in Seq(Record), NEW sig
    PROVE  OutcomesIn(h \o m, sig) = OutcomesIn(h, sig) \cup OutcomesIn(m, sig)
<1> DEFINE hm == h \o m
<1>1. /\ Len(h) \in Nat /\ Len(m) \in Nat
      /\ DOMAIN h = 1 .. Len(h) /\ DOMAIN m = 1 .. Len(m) /\ DOMAIN hm = 1 .. Len(h) + Len(m)
      /\ \A k \in 1 .. Len(h) + Len(m) : hm[k] = IF k <= Len(h) THEN h[k] ELSE m[k - Len(h)]
  BY ConcatProperties, LenProperties
<1> HIDE DEF hm
<1>2. ASSUME NEW o \in OutcomesIn(hm, sig) PROVE o \in OutcomesIn(h, sig) \cup OutcomesIn(m, sig)
  <2>1. PICK k \in DOMAIN hm : hm[k].signature = sig /\ o = Outcome(hm[k])
    BY <1>2 DEF OutcomesIn, SignedBy
  <2>2. CASE k <= Len(h)
    <3>1. k \in DOMAIN h /\ hm[k] = h[k]
      BY <1>1, <2>1, <2>2
    <3> QED
      BY <2>1, <3>1 DEF OutcomesIn, SignedBy
  <2>3. CASE ~ (k <= Len(h))
    <3>1. k - Len(h) \in DOMAIN m /\ hm[k] = m[k - Len(h)]
      BY <1>1, <2>1, <2>3
    <3> QED
      BY <2>1, <3>1 DEF OutcomesIn, SignedBy
  <2> QED
    BY <2>2, <2>3
<1>3. ASSUME NEW o \in OutcomesIn(h, sig) PROVE o \in OutcomesIn(hm, sig)
  <2>1. PICK k \in DOMAIN h : h[k].signature = sig /\ o = Outcome(h[k])
    BY <1>3 DEF OutcomesIn, SignedBy
  <2>2. k \in DOMAIN hm /\ hm[k] = h[k]
    BY <1>1, <2>1
  <2> QED
    BY <2>1, <2>2 DEF OutcomesIn, SignedBy
<1>4. ASSUME NEW o \in OutcomesIn(m, sig) PROVE o \in OutcomesIn(hm, sig)
  <2>1. PICK k \in DOMAIN m : m[k].signature = sig /\ o = Outcome(m[k])
    BY <1>4 DEF OutcomesIn, SignedBy
  <2>2. /\ Len(h) + k \in 1 .. Len(h) + Len(m) /\ ~ (Len(h) + k <= Len(h))
        /\ (Len(h) + k) - Len(h) = k
    BY <1>1, <2>1
  <2>3. Len(h) + k \in DOMAIN hm /\ hm[Len(h) + k] = m[k]
    BY <1>1, <2>2
  <2> QED
    BY <2>1, <2>3 DEF OutcomesIn, SignedBy
<1> QED
  BY <1>2, <1>3, <1>4 DEF hm

(* A followed bundle has no outcome yet.                                   *)
LEMMA NoOutcomeWhileFollowed ==
    ASSUME IInv, NEW sig \in DOMAIN tracker.active
    PROVE  OutcomesIn(History, sig) = {}
<1>1. \A i \in DOMAIN History : History[i].signature # sig
  BY DEF IInv, Safe, Filed
<1> QED
  BY <1>1 DEF OutcomesIn, SignedBy

\* What Lifecycle sees of a signature.
Mapped(sig) == <<StageOf(sig), SlotOf(sig), OutcomesIn(History, sig)>>

(* Followed bundles that move do what Lifecycle allows, one at a time.     *)
LEMMA GrowsImplements ==
    ASSUME IInv, IInv', drained' = drained, Grows(tracker, tracker'), NEW sig \in Sigs
    PROVE  [Bundle(sig)!Next]_(Mapped(sig))
<1>1. /\ TypeOK /\ IsTracker(tracker)
      /\ IsTracker(tracker')
      /\ History \in Seq(Record)
      /\ sig # None
  BY HistoryType, SigsFinite DEF IInv, TypeOK
<1>2. PICK m \in Seq(Record) : Adds(tracker, tracker', m)
  BY DEF Grows
<1>3. OutcomesIn(History, sig)' = OutcomesIn(History, sig) \cup OutcomesIn(m, sig)
  <2>1. History' = History \o m
    BY <1>1, <1>2, AddsHistory
  <2>2. OutcomesIn(History', sig) = OutcomesIn(History, sig) \cup OutcomesIn(m, sig)
    BY <1>1, <2>1, OutcomesGrow
  <2> QED
    BY <2>2
<1>4. ASSUME sig \notin DOMAIN tracker.active \ DOMAIN tracker'.active
      PROVE  OutcomesIn(History, sig)' = OutcomesIn(History, sig)
  <2>1. \A i \in DOMAIN m : m[i].signature # sig
    BY <1>1, <1>2, <1>4 DEF Adds
  <2>2. OutcomesIn(m, sig) = {}
    BY <2>1 DEF OutcomesIn, SignedBy
  <2> QED
    BY <1>3, <2>2
<1>5. CASE sig \notin DOMAIN tracker.active
  <2>1. sig \notin DOMAIN tracker'.active
    BY <1>2, <1>5 DEF Adds
  <2> QED
    BY <1>4, <1>5, <2>1 DEF Mapped, StageOf, SlotOf, IsActive
<1>6. CASE sig \in DOMAIN tracker'.active
  <2> DEFINE t  == tracker.active[sig]
             t2 == tracker'.active[sig]
  <2>1. Stays(t, t2, News, Slots) /\ sig \in DOMAIN tracker.active
    BY <1>2, <1>6 DEF Adds
  <2>2. /\ StageOf(sig) = t.stage /\ StageOf(sig)' = t2.stage
        /\ SlotOf(sig) = t.record.landed_slot /\ SlotOf(sig)' = t2.record.landed_slot
        /\ OutcomesIn(History, sig)' = OutcomesIn(History, sig)
    BY <1>4, <1>6, <2>1 DEF StageOf, SlotOf, IsActive
  <2> HIDE DEF t, t2
  <2>3. CASE t2.stage = t.stage /\ t2.record.landed_slot = t.record.landed_slot
    BY <2>2, <2>3 DEF Mapped
  <2>4. CASE /\ t.stage = Submitted /\ t2.stage = Processed
             /\ t.record.landed_slot = None /\ t2.record.landed_slot \in Slots
    <3>1. Bundle(sig)!Land
      BY <2>2, <2>4, NoneIsNoStage
      DEF Bundle!Land, Bundle!Followed, Bundle!Submitted, Bundle!Processed
    <3> QED
      BY <3>1 DEF Bundle!Next
  <2>5. CASE /\ t.stage = Processed /\ t2.stage = Confirmed
             /\ t2.record.landed_slot = t.record.landed_slot
    <3>1. Bundle(sig)!Confirm
      BY <2>2, <2>5, NoneIsNoStage
      DEF Levels, Bundle!Confirm, Bundle!Followed, Bundle!Processed, Bundle!Confirmed
    <3> QED
      BY <3>1 DEF Bundle!Next
  <2> QED
    BY <2>1, <2>3, <2>4, <2>5 DEF Stays, News, Saw
<1>7. CASE sig \in DOMAIN tracker.active \ DOMAIN tracker'.active
  <2> DEFINE t == tracker.active[sig]
  <2>1. PICK i \in DOMAIN m : m[i].signature = sig
    BY <1>2, <1>7 DEF Adds
  <2>2. EndsAs(t, m[i], News, Slots)
    BY <1>1, <1>2, <2>1 DEF Adds
  <2>3. OutcomesIn(m, sig) = {Outcome(m[i])}
    <3>1. \A j \in SignedBy(m, sig) : m[j] = m[i]
      BY <1>2, <2>1 DEF Adds, SignedBy
    <3>2. i \in SignedBy(m, sig)
      BY <2>1 DEF SignedBy
    <3> QED
      BY <3>1, <3>2 DEF OutcomesIn
  <2>4. OutcomesIn(History, sig) = {}
    BY <1>7, NoOutcomeWhileFollowed
  <2>5. OutcomesIn(History, sig)' = {Outcome(m[i])}
    BY <1>3, <2>3, <2>4
  <2>6. /\ StageOf(sig) = t.stage /\ StageOf(sig)' = None
        /\ SlotOf(sig) = t.record.landed_slot /\ SlotOf(sig)' = None
    BY <1>7 DEF StageOf, SlotOf, IsActive
  <2>7. t.stage # None
    <3>1. t \in Entry
      BY <1>1, <1>7 DEF IsTracker
    <3> QED
      BY <3>1, NoneIsNoStage DEF Entry, Levels
  <2>8. Outcome(m[i]) = [slot |-> m[i].landed_slot, failed |-> m[i].failure # None]
    BY DEF Outcome
  <2> HIDE DEF t
  <2>9. CASE m[i].failure = None
    BY <2>2, <2>5, <2>6, <2>7, <2>8, <2>9, SlotsAssumption
    DEF EndsAs, Bundle!Next, Bundle!Succeed, Bundle!Followed, Bundle!End, Bundle!Outcome
  <2>10. CASE m[i].failure # None /\ m[i].landed_slot = t.record.landed_slot
    BY <2>5, <2>6, <2>7, <2>8, <2>10
    DEF Bundle!Next, Bundle!Fail, Bundle!Followed, Bundle!End, Bundle!Outcome
  <2>11. CASE /\ m[i].failure # None /\ t.record.landed_slot = None
              /\ m[i].landed_slot \in Slots
    BY <2>5, <2>6, <2>7, <2>8, <2>11
    DEF Bundle!Next, Bundle!Revert, Bundle!Followed, Bundle!End, Bundle!Outcome
  <2> QED
    BY <2>2, <2>9, <2>10, <2>11 DEF EndsAs, News, Saw
<1> QED
  BY <1>5, <1>6, <1>7

(* Each bundle lives one lifecycle, for any number of bundles and any      *)
(* order of what the stream, the executor and the end of the run do.       *)
THEOREM Implements == Spec => ImplementsLifecycle
<1>1. Init => \A sig \in Sigs : Bundle(sig)!Init
  BY DEF Init, EmptyTracker, History, Bundle!Init, StageOf, SlotOf, IsActive, OutcomesIn, SignedBy
<1>2. IInv /\ IInv' /\ [Next]_vars =>
        [\A sig \in Sigs : [Bundle(sig)!Next]_<<StageOf(sig), SlotOf(sig), OutcomesIn(History, sig)>>]_vars
  <2> SUFFICES ASSUME IInv, IInv', Next, NEW sig \in Sigs PROVE [Bundle(sig)!Next]_(Mapped(sig))
    BY DEF Mapped
  <2>1. TypeOK
    BY DEF IInv
  <2>2. CASE Drain
    <3>1. History' = History /\ tracker'.active = tracker.active
      BY <2>1, <2>2, DrainKeeps
    <3> QED
      BY <3>1 DEF Mapped, StageOf, SlotOf, IsActive, OutcomesIn, SignedBy
  <2>3. CASE TrackSigned
    <3>1. PICK new \in Sigs, lvbh \in Heights :
            /\ ~ IsActive(tracker, new)
            /\ SignedBy(History, new) = {}
            /\ tracker' = Track(tracker, NewRecord(new, lvbh))
            /\ drained' = drained
      BY <2>3 DEF TrackSigned
    <3>2. /\ History' = History
          /\ DOMAIN tracker'.active = DOMAIN tracker.active \cup {new}
          /\ tracker'.active[new].stage = Submitted
          /\ tracker'.active[new].record.landed_slot = None
          /\ \A s \in DOMAIN tracker.active : tracker'.active[s] = tracker.active[s]
      BY <2>1, <3>1, TrackSignedKeeps
    <3>3. OutcomesIn(History, sig)' = OutcomesIn(History, sig)
      BY <3>2 DEF OutcomesIn, SignedBy
    <3>4. CASE sig = new
      <4>1. OutcomesIn(History, sig) = {}
        BY <3>1, <3>4 DEF OutcomesIn
      <4>2. StageOf(sig) = None /\ StageOf(sig)' = Submitted
        BY <3>1, <3>2, <3>4 DEF StageOf, IsActive
      <4>3. SlotOf(sig) = None /\ SlotOf(sig)' = None
        BY <3>1, <3>2, <3>4 DEF SlotOf, IsActive
      <4> QED
        BY <3>3, <4>1, <4>2, <4>3
        DEF Bundle!Next, Bundle!Submit, Bundle!Followed, Bundle!Submitted
    <3>5. CASE sig # new
      <4>1. StageOf(sig)' = StageOf(sig) /\ SlotOf(sig)' = SlotOf(sig)
        BY <3>2, <3>5 DEF StageOf, SlotOf, IsActive
      <4> QED
        BY <3>3, <4>1 DEF Mapped
    <3> QED
      BY <3>4, <3>5
  <2>4. CASE Grows(tracker, tracker') /\ drained' = drained
    BY <2>4, GrowsImplements
  <2> QED
    BY <2>2, <2>3, <2>4, NextGrows
<1> QED
  BY <1>1, <1>2, IInvAlways, PTL DEF Spec, ImplementsLifecycle
===============================================================================
