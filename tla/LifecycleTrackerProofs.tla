------------------------ MODULE LifecycleTrackerProofs ------------------------
(***************************************************************************)
(* What the tracker keeps for every set of signatures, slots and heights.  *)
(***************************************************************************)
EXTENDS LifecycleTracker, TrackerOpsProofs

USE DEF Submitted, Processed, Confirmed, Finalized, Failed

LEMMA TypeInit == Init => TypeOK
BY DEF Init, TypeOK, EmptyTracker, IsTracker

LEMMA TypeStep == TypeOK /\ [Next]_vars => TypeOK'
<1> SUFFICES ASSUME TypeOK, [Next]_vars PROVE TypeOK'
  OBVIOUS
<1>1. CASE TrackSigned
  BY <1>1, TrackType, NewRecordType DEF TrackSigned, Opt, TypeOK
<1>2. CASE TrackUnsigned
  BY <1>2, TrackType, NewRecordType DEF TrackUnsigned, Opt, TypeOK
<1>3. CASE SeeTransaction
  BY <1>3, OnTransactionType DEF SeeTransaction, TypeOK
<1>4. CASE SlotCommitment
  <2>1. PICK slot \in Slots, level \in Levels : CommitSlot(slot, level)
    BY <1>4 DEF SlotCommitment
  <2>2. IsTracker(tracker')
    BY <2>1, OnSlotCommitmentType DEF CommitSlot, TypeOK
  <2>3. heard' \in [{Confirmed, Finalized} -> Slots \cup {-1}]
    BY <2>1 DEF CommitSlot, TypeOK
  <2> QED
    BY <2>1, <2>2, <2>3 DEF CommitSlot, TypeOK
<1>5. CASE Expire
  BY <1>5, ExpireUnlandedType DEF Expire, TypeOK
<1>6. CASE MarkFailed
  BY <1>6, FailType, ClassesAssumption DEF MarkFailed, TypeOK
<1>7. CASE Flush
  BY <1>7, FlushActiveType DEF Flush, TypeOK
<1>8. CASE Drain
  <2>1. IsTracker(tracker')
    BY <1>8, EmptySeq DEF Drain, DrainCompleted, IsTracker, TypeOK
  <2>2. drained' \in Seq(Record)
    BY <1>8, ConcatProperties DEF Drain, IsTracker, TypeOK
  <2> QED
    BY <1>8, <2>1, <2>2 DEF Drain, TypeOK
<1>9. CASE UNCHANGED vars
  BY <1>9 DEF vars, TypeOK
<1> QED
  BY <1>1, <1>2, <1>3, <1>4, <1>5, <1>6, <1>7, <1>8, <1>9 DEF Next

(* Type correctness, for every set of signatures, slots and heights.       *)
THEOREM TypeCorrect == Spec => []TypeOK
BY TypeInit, TypeStep, PTL DEF Spec

-------------------------------------------------------------------------------
(***************************************************************************)
(* The safety invariants hold together.  Open and Closed say of one entry  *)
(* and of one completed record what they say of all; Filed is what makes   *)
(* one record per bundle.                                                  *)
(***************************************************************************)
Open(t, sig, hd) ==
    /\ t.record.signature = sig
    /\ t.record.failure = None
    /\ (t.record.landed_slot = None) <=> (t.stage = Submitted)
    /\ TraceOf(t.record, t.stage)
    /\ Backed(t.record, hd)

Closed(rec, hd) ==
    /\ rec.failure = None => rec.landed_slot # None
    /\ rec.signature # None =>
         /\ \E stage \in Levels \cup {Failed} : TraceOf(rec, stage)
         /\ (\E k \in DOMAIN rec.events : rec.events[k].stage = Failed) <=> (rec.failure # None)
    /\ Backed(rec, hd)

Filed(active, hist) ==
    /\ \A i, j \in DOMAIN hist :
         hist[i].signature = hist[j].signature => i = j \/ hist[i].signature = None
    /\ \A i \in DOMAIN hist : hist[i].signature \notin DOMAIN active

Safe(active, hist, hd) ==
    /\ \A sig \in DOMAIN active : Open(active[sig], sig, hd)
    /\ \A i \in DOMAIN hist : Closed(hist[i], hd)
    /\ Filed(active, hist)

HeardType == [{Confirmed, Finalized} -> Slots \cup {-1}]

IInv == TypeOK /\ Safe(tracker.active, History, heard)

(* The inductive invariant is the conjunction of the checked ones.         *)
LEMMA IInvIsAll ==
    ASSUME TypeOK
    PROVE  Safe(tracker.active, History, heard)
             <=> /\ OneRecordPerBundle
                 /\ OpenRecords
                 /\ SuccessMeansLanded
                 /\ LifecycleTrace
                 /\ StageIsEvidenced
BY DEF Safe, Open, Closed, Filed, OneRecordPerBundle, OpenRecords, SuccessMeansLanded,
       LifecycleTrace, StageIsEvidenced, IsActive

(* Pushing a later event keeps a trace a trace.                            *)
LEMMA PushTrace ==
    ASSUME NEW rec \in Record, NEW from \in {Submitted} \cup Levels, TraceOf(rec, from),
           NEW stage \in Levels \cup {Failed}, from < stage
    PROVE  LET new == Push(rec, stage, rec.landed_slot)
           IN  /\ TraceOf(new, stage)
               /\ Len(new.events) = Len(rec.events) + 1
               /\ new.events[Len(rec.events) + 1].stage = stage
               /\ \A i \in 1 .. Len(rec.events) :
                    new.events[i] = rec.events[i] /\ rec.events[i].stage <= from
<1> DEFINE n  == Len(rec.events)
           e  == [stage |-> stage, slot |-> rec.landed_slot]
           ev == Append(rec.events, e)
           new == Push(rec, stage, rec.landed_slot)
<1>1. rec.events \in Seq(Event) /\ n \in Nat /\ n > 0
  BY LenProperties DEF Record, TraceOf
<1>2. e \in Event
  BY DEF Event, Record, Opt, Levels
<1>3. ev \in Seq(Event) /\ Len(ev) = n + 1 /\ ev[n + 1] = e /\ \A i \in 1 .. n : ev[i] = rec.events[i]
  BY <1>1, <1>2, AppendProperties
<1>4. new.events = ev /\ new.landed_slot = rec.landed_slot
  BY DEF Push, Record
<1>5. \A i \in 1 .. n : rec.events[i] \in Event /\ rec.events[i].stage \in Int
  <2>1. \A i \in 1 .. n : rec.events[i] \in Event
    BY <1>1, ElementOfSeq
  <2> QED
    BY <2>1 DEF Event, Levels
<1>6. \A i \in 1 .. n : rec.events[i].stage <= from
  <2> TAKE i \in 1 .. n
  <2>1. i = n \/ (i < n /\ n \in 1 .. n)
    BY <1>1
  <2> QED
    BY <2>1, <1>5 DEF TraceOf, Levels
<1>7. TraceOf(new, stage)
  <2>1. ev[1] = [stage |-> Submitted, slot |-> None]
    BY <1>1, <1>3 DEF TraceOf
  <2>2. \A i, j \in 1 .. n + 1 : i < j => ev[i].stage < ev[j].stage
    <3> TAKE i, j \in 1 .. n + 1
    <3> HAVE i < j
    <3>1. CASE j \in 1 .. n
      BY <3>1, <1>1, <1>3 DEF TraceOf
    <3>2. CASE j = n + 1
      <4>1. i \in 1 .. n
        BY <1>1, <3>2
      <4> QED
        BY <4>1, <3>2, <1>3, <1>5, <1>6 DEF Levels
    <3> QED
      BY <1>1, <3>1, <3>2
  <2>3. \A i \in 2 .. n + 1 : ev[i].slot = rec.landed_slot
    <3> TAKE i \in 2 .. n + 1
    <3>1. i \in 2 .. n \/ i = n + 1
      BY <1>1
    <3> QED
      BY <3>1, <1>1, <1>3 DEF TraceOf
  <2>4. ev[n + 1].stage = stage /\ n + 1 > 0
    BY <1>1, <1>3
  <2>5. Len(new.events) = n + 1 /\ new.events = ev /\ new.landed_slot = rec.landed_slot
    BY <1>3, <1>4
  <2> HIDE DEF ev, new, n
  <2> QED
    BY <2>1, <2>2, <2>3, <2>4, <2>5 DEF TraceOf
<1> HIDE DEF ev, new
<1> QED
  BY <1>3, <1>4, <1>6, <1>7 DEF new

(* A forward step of advance keeps an open entry open.                     *)
LEMMA AdvanceOpen ==
    ASSUME NEW t \in Entry, NEW sig, NEW hd, NEW level \in Levels, NEW slot,
           t.record.signature = sig, t.record.failure = None,
           TraceOf(t.record, t.stage), Backed(t.record, hd),
           t.record.landed_slot # None,
           slot = t.record.landed_slot,
           level \in {Confirmed, Finalized} => slot <= hd[level],
           t.stage < level
    PROVE  Open(Advance(t, level, slot), sig, hd)
<1> DEFINE new == Push(t.record, level, slot)
           n   == Len(t.record.events)
<1>1. t.record \in Record /\ t.stage \in {Submitted} \cup Levels
  BY DEF Entry
<1>2. Advance(t, level, slot) = [record |-> new, stage |-> level]
  BY <1>1 DEF Advance, Order, Levels
<1>3. /\ new.signature = sig
      /\ new.failure = None
      /\ new.landed_slot = slot
  BY <1>1 DEF Push, Record
<1>4. /\ TraceOf(new, level)
      /\ Len(new.events) = n + 1
      /\ new.events[n + 1].stage = level
      /\ \A i \in 1 .. n : new.events[i] = t.record.events[i]
  <2>1. level \in Levels \cup {Failed}
    OBVIOUS
  <2> QED
    BY <1>1, <2>1, PushTrace
<1>5. n \in Nat /\ DOMAIN t.record.events = 1 .. n /\ DOMAIN new.events = 1 .. n + 1
  <2>1. new \in Record
    BY <1>1, PushType DEF Record, Levels
  <2> QED
    BY <1>1, <1>4, <2>1, LenProperties DEF Record
<1>6. Backed(new, hd)
  <2> SUFFICES ASSUME NEW k \in 1 .. n + 1, new.events[k].stage \in {Confirmed, Finalized}
               PROVE  new.landed_slot # None /\ new.landed_slot <= hd[new.events[k].stage]
    BY <1>5 DEF Backed
  <2>1. CASE k \in 1 .. n
    BY <2>1, <1>3, <1>4, <1>5 DEF Backed
  <2>2. CASE k = n + 1
    BY <2>2, <1>3, <1>4
  <2> QED
    BY <1>5, <2>1, <2>2
<1> HIDE DEF new
<1> QED
  BY <1>2, <1>3, <1>4, <1>6 DEF Open, Levels

(* An open entry closed as a failure is a closed record.                   *)
LEMMA FailClosed ==
    ASSUME NEW rec \in Record, NEW stage \in {Submitted} \cup Levels, NEW hd,
           NEW class \in FailureClass,
           TraceOf(rec, stage), Backed(rec, hd)
    PROVE  /\ Closed(FailedRecord(rec, class), hd)
           /\ FailedRecord(rec, class).signature = rec.signature
<1> DEFINE base == [rec EXCEPT !.failure = class]
           new  == Push(base, Failed, base.landed_slot)
           n    == Len(rec.events)
<1>1. base \in Record /\ base.events = rec.events /\ base.landed_slot = rec.landed_slot
        /\ base.failure = class /\ base.signature = rec.signature
  BY DEF Record, Opt
<1>2. FailedRecord(rec, class) = new
  BY <1>1 DEF FailedRecord
<1>3. TraceOf(base, stage)
  BY <1>1 DEF TraceOf
<1>4. /\ TraceOf(new, Failed)
      /\ Len(new.events) = n + 1
      /\ new.events[n + 1].stage = Failed
      /\ \A i \in 1 .. n : new.events[i] = rec.events[i]
  <2>1. \A s \in {Submitted} \cup Levels : s < Failed
    BY DEF Levels
  <2> HIDE DEF base
  <2> QED
    BY <1>1, <1>3, <2>1, PushTrace
<1>5. new.failure = class /\ new.signature = rec.signature /\ new.landed_slot = rec.landed_slot
  <2> HIDE DEF base
  <2> QED
    BY <1>1 DEF Push, Record
<1>6. n \in Nat /\ DOMAIN rec.events = 1 .. n /\ DOMAIN new.events = 1 .. n + 1
  <2>1. new \in Record
    <3> HIDE DEF base
    <3> QED
      BY <1>1, PushType DEF Record
  <2> HIDE DEF base, new
  <2> QED
    BY <1>4, <2>1, LenProperties DEF Record
<1>7. Backed(new, hd)
  <2> SUFFICES ASSUME NEW k \in 1 .. n + 1, new.events[k].stage \in {Confirmed, Finalized}
               PROVE  new.landed_slot # None /\ new.landed_slot <= hd[new.events[k].stage]
    BY <1>6 DEF Backed
  <2>1. CASE k \in 1 .. n
    <3> HIDE DEF new
    <3> QED
      BY <2>1, <1>4, <1>5, <1>6 DEF Backed
  <2>2. CASE k = n + 1
    BY <2>2, <1>4
  <2> QED
    BY <1>6, <2>1, <2>2
<1>8. class # None
  BY NoneIsNoClass
<1>9. \E k \in DOMAIN new.events : new.events[k].stage = Failed
  <2>1. n + 1 \in DOMAIN new.events
    BY <1>6
  <2> QED
    BY <2>1, <1>4
<1> HIDE DEF new
<1> QED
  BY <1>2, <1>4, <1>5, <1>7, <1>8, <1>9 DEF Closed

(* A landed open entry is a closed record as it stands.                    *)
LEMMA LandedClosed ==
    ASSUME NEW t \in Entry, NEW sig, NEW hd, Open(t, sig, hd), t.record.landed_slot # None
    PROVE  Closed(t.record, hd)
<1> DEFINE ev == t.record.events
<1>1. t.stage \in Levels /\ ev \in Seq(Event)
  BY DEF Open, Entry, Levels, Record
<1>2. Len(ev) \in Nat /\ DOMAIN ev = 1 .. Len(ev)
  BY <1>1, LenProperties
<1>3. ASSUME NEW k \in 1 .. Len(ev) PROVE ev[k].stage # Failed
  <2>1. ev[k] \in Event
    BY <1>1, ElementOfSeq
  <2>2. k = Len(ev) \/ ev[k].stage < ev[Len(ev)].stage
    BY <1>2, k <= Len(ev), Len(ev) \in 1 .. Len(ev) DEF Open, TraceOf
  <2>3. ev[Len(ev)].stage = t.stage
    BY DEF Open, TraceOf
  <2> QED
    BY <1>1, <2>1, <2>2, <2>3 DEF Levels, Event
<1> QED
  BY <1>1, <1>2, <1>3 DEF Closed, Open

(* What was heard stays heard: the tracker stays safe as heard grows.      *)
LEMMA HeardGrows ==
    ASSUME NEW tr, IsTracker(tr), NEW hist \in Seq(Record),
           NEW hd \in HeardType, NEW hd2 \in HeardType,
           \A l \in {Confirmed, Finalized} : hd[l] <= hd2[l],
           Safe(tr.active, hist, hd)
    PROVE  Safe(tr.active, hist, hd2)
<1>1. ASSUME NEW rec \in Record, Backed(rec, hd) PROVE Backed(rec, hd2)
  <2> SUFFICES ASSUME NEW k \in DOMAIN rec.events, rec.events[k].stage \in {Confirmed, Finalized}
               PROVE  rec.landed_slot # None /\ rec.landed_slot <= hd2[rec.events[k].stage]
    BY DEF Backed
  <2> DEFINE lev == rec.events[k].stage
  <2>1. rec.landed_slot # None /\ rec.landed_slot <= hd[lev] /\ lev \in {Confirmed, Finalized}
    BY <1>1 DEF Backed
  <2>2. rec.landed_slot \in Nat
    BY <2>1, SlotsAssumption DEF Record, Opt
  <2>3. hd[lev] \in Slots \cup {-1} /\ hd2[lev] \in Slots \cup {-1} /\ hd[lev] <= hd2[lev]
    BY <2>1 DEF HeardType
  <2>4. hd[lev] \in Int /\ hd2[lev] \in Int
    BY <2>3, SlotsAssumption
  <2> HIDE DEF lev
  <2>5. rec.landed_slot <= hd2[lev]
    BY <2>1, <2>2, <2>3, <2>4
  <2> QED
    BY <2>1, <2>5 DEF lev
<1>2. \A sig \in DOMAIN tr.active : tr.active[sig].record \in Record
  BY DEF IsTracker, Entry
<1>3. \A i \in DOMAIN hist : hist[i] \in Record
  BY LenProperties, ElementOfSeq
<1> QED
  BY <1>1, <1>2, <1>3 DEF Safe, Open, Closed

(* Moving open entries to completed, each as a closed record of its own    *)
(* signature, keeps the tracker safe and extends the history.              *)
LEMMA SettleSafe ==
    ASSUME NEW tr, IsTracker(tr), NEW d \in Seq(Record), NEW hd,
           Safe(tr.active, d \o tr.completed, hd),
           NEW ord \in Seq(Sigs), Range(ord) \subseteq DOMAIN tr.active,
           \A i, j \in DOMAIN ord : ord[i] = ord[j] => i = j,
           NEW rec,
           \A s \in Range(ord) : rec[s] \in Record /\ rec[s].signature = s /\ Closed(rec[s], hd)
    PROVE  LET after == Settle(tr, ord, rec)
           IN  Safe(after.active, d \o after.completed, hd)
<1> DEFINE moved == [i \in DOMAIN ord |-> rec[ord[i]]]
           after == Settle(tr, ord, rec)
           h     == d \o tr.completed
           h2    == d \o after.completed
           rest  == DOMAIN tr.active \ Range(ord)
<1>1. DOMAIN ord = 1 .. Len(ord) /\ Len(ord) \in Nat
  BY LenProperties
<1>2. \A i \in DOMAIN ord : ord[i] \in Range(ord) /\ moved[i] = rec[ord[i]]
  BY DEF Range
<1>3. moved \in Seq(Record) /\ Len(moved) = Len(ord)
  BY <1>1, <1>2
<1>4. h \in Seq(Record) /\ h2 = h \o moved
  <2>1. after.completed = tr.completed \o moved
    BY DEF Settle
  <2>2. tr.completed \in Seq(Record)
    BY DEF IsTracker
  <2> HIDE DEF moved, after
  <2>3. d \o (tr.completed \o moved) = (d \o tr.completed) \o moved
    <3>1. d \in Seq(Record) /\ moved \in Seq(Record)
      BY <1>3
    <3> QED
      BY <3>1, <2>2, RecordsAssociate, Zenon
  <2> QED
    BY <2>1, <2>2, <2>3, ConcatProperties
<1>5. after.active = [s \in rest |-> tr.active[s]]
  BY DEF Settle, Restrict
<1>6. /\ Len(h) \in Nat
      /\ DOMAIN h = 1 .. Len(h)
      /\ DOMAIN h2 = 1 .. Len(h) + Len(ord)
      /\ \A i \in 1 .. Len(h) : h2[i] = h[i]
      /\ \A i \in Len(h) + 1 .. Len(h) + Len(ord) :
           i - Len(h) \in DOMAIN ord /\ h2[i] = moved[i - Len(h)]
  <2> HIDE DEF moved, h, h2
  <2>1. Len(h) \in Nat /\ DOMAIN h = 1 .. Len(h)
    BY <1>4, LenProperties
  <2>2. /\ h \o moved \in Seq(Record)
        /\ Len(h \o moved) = Len(h) + Len(moved)
        /\ \A i \in 1 .. Len(h) + Len(moved) :
             (h \o moved)[i] = IF i <= Len(h) THEN h[i] ELSE moved[i - Len(h)]
    BY <1>3, <1>4, RecordsConcat, Zenon
  <2>3. DOMAIN h2 = 1 .. Len(h) + Len(ord)
    BY <1>3, <1>4, <2>2, LenProperties
  <2>4. \A i \in 1 .. Len(h) : h2[i] = h[i]
    BY <1>1, <1>3, <1>4, <2>1, <2>2
  <2>5. ASSUME NEW i \in Len(h) + 1 .. Len(h) + Len(ord)
        PROVE  i - Len(h) \in DOMAIN ord /\ h2[i] = moved[i - Len(h)]
    BY <1>1, <1>3, <1>4, <2>1, <2>2
  <2> QED
    BY <2>1, <2>3, <2>4, <2>5
<1> HIDE DEF moved, after, h, h2
<1>7. \A i \in DOMAIN h2 :
        \/ i \in DOMAIN h /\ h2[i] = h[i]
        \/ /\ i \in Len(h) + 1 .. Len(h) + Len(ord)
           /\ i - Len(h) \in DOMAIN ord
           /\ h2[i] = rec[ord[i - Len(h)]]
           /\ h2[i].signature = ord[i - Len(h)]
           /\ h2[i].signature \in DOMAIN tr.active \ DOMAIN after.active
           /\ Closed(h2[i], hd)
  <2> TAKE i \in DOMAIN h2
  <2>1. i \in 1 .. Len(h) \/ i \in Len(h) + 1 .. Len(h) + Len(ord)
    BY <1>1, <1>6
  <2>2. CASE i \in Len(h) + 1 .. Len(h) + Len(ord)
    <3>1. i - Len(h) \in DOMAIN ord /\ h2[i] = rec[ord[i - Len(h)]]
      BY <1>2, <1>6, <2>2
    <3>2. ord[i - Len(h)] \in Range(ord)
      BY <1>2, <3>1
    <3> QED
      BY <2>2, <3>1, <3>2, <1>5
  <2> QED
    BY <1>6, <2>1, <2>2
<1>8. \A s \in DOMAIN after.active : Open(after.active[s], s, hd)
  BY <1>5 DEF Safe
<1>9. \A i \in DOMAIN h2 : Closed(h2[i], hd)
  BY <1>7 DEF Safe, h
<1>10. \A i \in DOMAIN h2 : h2[i].signature \notin DOMAIN after.active
  BY <1>5, <1>7 DEF Safe, Filed, h
<1>11. ASSUME NEW i \in DOMAIN h2, NEW j \in DOMAIN h2, h2[i].signature = h2[j].signature
       PROVE  i = j \/ h2[i].signature = None
  <2>1. \A k \in DOMAIN h : h[k].signature \notin DOMAIN tr.active
    BY DEF Safe, Filed, h
  <2>2. CASE i \in DOMAIN h /\ h2[i] = h[i] /\ j \in DOMAIN h /\ h2[j] = h[j]
    BY <1>11, <2>2 DEF Safe, Filed, h
  <2>3. CASE /\ i \in Len(h) + 1 .. Len(h) + Len(ord)
             /\ j \in Len(h) + 1 .. Len(h) + Len(ord)
             /\ i - Len(h) \in DOMAIN ord /\ j - Len(h) \in DOMAIN ord
             /\ h2[i].signature = ord[i - Len(h)] /\ h2[j].signature = ord[j - Len(h)]
    <3>1. i - Len(h) = j - Len(h)
      BY <1>11, <2>3
    <3> QED
      BY <1>1, <1>6, <2>3, <3>1
  <2> QED
    BY <1>7, <1>11, <2>1, <2>2, <2>3
<1> QED
  BY <1>8, <1>9, <1>10, <1>11 DEF Safe, Filed, after, h2

(* Changing open entries in place keeps the tracker safe.                  *)
LEMMA UpdateSafe ==
    ASSUME NEW active, NEW active2, NEW hist, NEW hd,
           Safe(active, hist, hd),
           DOMAIN active2 = DOMAIN active,
           \A s \in DOMAIN active : active2[s] = active[s] \/ Open(active2[s], s, hd)
    PROVE  Safe(active2, hist, hd)
BY DEF Safe, Filed

-------------------------------------------------------------------------------
LEMMA SafeInit == Init => Safe(tracker.active, History, heard)
BY DEF Init, EmptyTracker, History, Safe, Filed

(* track: a fresh signature is followed; a record without one is closed.   *)
LEMMA TrackSignedSafe == IInv /\ TrackSigned => Safe(tracker.active, History, heard)'
<1> SUFFICES ASSUME IInv, TrackSigned PROVE Safe(tracker.active, History, heard)'
  OBVIOUS
<1>1. PICK sig \in Sigs, lvbh \in Heights :
        /\ ~ IsActive(tracker, sig)
        /\ SignedBy(History, sig) = {}
        /\ tracker' = Track(tracker, NewRecord(sig, lvbh))
  BY DEF TrackSigned
<1> DEFINE rec == NewRecord(sig, lvbh)
           new == [record |-> Push(rec, Submitted, None), stage |-> Submitted]
<1>2. sig # None
  BY SigsFinite
<1>3. /\ tracker'.completed = tracker.completed
      /\ DOMAIN tracker'.active = DOMAIN tracker.active \cup {sig}
      /\ tracker'.active[sig] = new
      /\ \A s \in DOMAIN tracker.active : tracker'.active[s] = tracker.active[s]
  BY <1>1, <1>2 DEF Track, NewRecord, IInv, TypeOK, IsTracker, IsActive
<1>4. Open(new, sig, heard)
  <2>1. new.record = [rec EXCEPT !.events = <<[stage |-> Submitted, slot |-> None]>>]
    BY DEF Push, NewRecord
  <2> HIDE DEF new
  <2>2. new.stage = Submitted
    BY DEF new
  <2> QED
    BY <2>1, <2>2 DEF Open, TraceOf, Backed, NewRecord
<1>5. History' = History /\ heard' = heard
  BY <1>3 DEF TrackSigned, History
<1>6. \A i \in DOMAIN History : History[i].signature # sig
  BY <1>1 DEF SignedBy
<1> HIDE DEF new
<1> QED
  BY <1>3, <1>4, <1>5, <1>6 DEF IInv, Safe, Filed

LEMMA TrackUnsignedSafe == IInv /\ TrackUnsigned => Safe(tracker.active, History, heard)'
<1> SUFFICES ASSUME IInv, TrackUnsigned PROVE Safe(tracker.active, History, heard)'
  OBVIOUS
<1>1. PICK lvbh \in Heights : tracker' = Track(tracker, NewRecord(None, lvbh))
  BY DEF TrackUnsigned
<1> DEFINE rec == [NewRecord(None, lvbh) EXCEPT !.failure = "Unknown"]
<1>2. tracker'.active = tracker.active /\ tracker'.completed = Append(tracker.completed, rec)
  BY <1>1 DEF Track, NewRecord, IInv, TypeOK, IsTracker
<1>3. rec \in Record /\ Closed(rec, heard) /\ rec.signature = None
  <2>1. rec \in Record
    BY NewRecordType DEF Record, Opt, FailureClass
  <2>2. /\ rec.signature = None /\ rec.failure = "Unknown" /\ rec.events = <<>>
    BY DEF NewRecord
  <2>3. "Unknown" # None
    BY NoneIsNoClass DEF FailureClass
  <2> HIDE DEF rec
  <2> QED
    BY <2>1, <2>2, <2>3 DEF Closed, Backed
<1>4. tracker.completed \in Seq(Record) /\ drained \in Seq(Record)
  BY DEF IInv, TypeOK, IsTracker
<1> HIDE DEF rec
<1>5. History' = Append(History, rec) /\ History \in Seq(Record)
  <2>1. History' = drained \o Append(tracker.completed, rec)
    BY <1>2 DEF TrackUnsigned, History
  <2>2. drained \o (tracker.completed \o <<rec>>) = (drained \o tracker.completed) \o <<rec>>
    <3>1. <<rec>> \in Seq(Record)
      BY <1>3
    <3> QED
      BY <3>1, <1>4, RecordsAssociate, Zenon
  <2>3. /\ Append(tracker.completed, rec) = tracker.completed \o <<rec>>
        /\ drained \o tracker.completed \in Seq(Record)
    BY <1>3, <1>4, AppendIsConcat, ConcatProperties
  <2>4. Append(drained \o tracker.completed, rec) = (drained \o tracker.completed) \o <<rec>>
    BY <1>3, <2>3, AppendIsConcat
  <2> QED
    BY <2>1, <2>2, <2>3, <2>4 DEF History
<1>6. /\ Len(History) \in Nat
      /\ DOMAIN History = 1 .. Len(History)
      /\ DOMAIN History' = 1 .. Len(History) + 1
      /\ History'[Len(History) + 1] = rec
      /\ \A i \in 1 .. Len(History) : History'[i] = History[i]
  BY <1>3, <1>5, AppendProperties, LenProperties
<1>7. \A i \in DOMAIN History' : \/ i \in DOMAIN History /\ History'[i] = History[i]
                                 \/ i = Len(History) + 1 /\ History'[i] = rec
  BY <1>6
<1>8. None \notin DOMAIN tracker.active
  BY SigsFinite DEF IInv, TypeOK, IsTracker
<1>9. heard' = heard
  BY DEF TrackUnsigned
<1> QED
  BY <1>2, <1>3, <1>7, <1>8, <1>9 DEF IInv, Safe, Filed

(* Closing one followed bundle as a failure, whoever asks.                 *)
LEMMA FailSafe ==
    ASSUME NEW tr, IsTracker(tr), NEW d \in Seq(Record), NEW hd,
           Safe(tr.active, d \o tr.completed, hd),
           NEW sig \in Sigs, NEW class \in FailureClass
    PROVE  LET after == Fail(tr, sig, class)
           IN  Safe(after.active, d \o after.completed, hd)
<1>1. CASE sig \notin DOMAIN tr.active
  BY <1>1 DEF Fail
<1>2. CASE sig \in DOMAIN tr.active
  <2> DEFINE rec == [s \in {sig} |-> FailedRecord(tr.active[s].record, class)]
             ord == <<sig>>
  <2>1. ord \in Seq(Sigs) /\ Range(ord) = {sig} /\ DOMAIN ord = {1}
    BY DEF Range
  <2>2. tr.active[sig] \in Entry /\ Open(tr.active[sig], sig, hd)
    BY <1>2 DEF IsTracker, Safe
  <2>3. tr.active[sig].record \in Record /\ tr.active[sig].stage \in {Submitted} \cup Levels
    BY <2>2 DEF Entry
  <2>4. rec[sig] = FailedRecord(tr.active[sig].record, class)
    OBVIOUS
  <2>5. rec[sig] \in Record /\ rec[sig].signature = sig /\ Closed(rec[sig], hd)
    <3> HIDE DEF rec
    <3> QED
      BY <2>2, <2>3, <2>4, FailedRecordType, FailClosed DEF Open
  <2>6. Fail(tr, sig, class) = Settle(tr, ord, rec)
    BY <1>2 DEF Fail
  <2> HIDE DEF rec, ord
  <2> QED
    BY <1>2, <2>1, <2>5, <2>6, SettleSafe
<1> QED
  BY <1>1, <1>2

(* A landed slot goes only to a bundle still at Submitted, so the entry    *)
(* keeps its trace.                                                        *)
LEMMA SeenTrace ==
    ASSUME NEW t \in Entry, NEW sig, NEW hd, Open(t, sig, hd), NEW slot \in Slots
    PROVE  LET seen == [t EXCEPT !.record.landed_slot = IF @ = None THEN slot ELSE @]
           IN  /\ seen \in Entry
               /\ seen.stage = t.stage
               /\ seen.record.landed_slot # None
               /\ seen.record.signature = sig
               /\ seen.record.failure = None
               /\ TraceOf(seen.record, t.stage)
               /\ Backed(seen.record, hd)
<1> DEFINE seen == [t EXCEPT !.record.landed_slot = IF @ = None THEN slot ELSE @]
           ev   == t.record.events
<1>1. /\ seen \in Entry /\ seen.stage = t.stage
      /\ seen.record.landed_slot = IF t.record.landed_slot = None THEN slot ELSE t.record.landed_slot
      /\ seen.record.signature = t.record.signature
      /\ seen.record.failure = t.record.failure
      /\ seen.record.events = ev
  BY DEF Entry, Record, Opt
<1>2. seen.record.landed_slot # None
  BY <1>1, SlotsAssumption
<1>3. CASE t.record.landed_slot # None
  BY <1>1, <1>2, <1>3 DEF Open, TraceOf, Backed
<1>4. CASE t.record.landed_slot = None
  <2>1. ev \in Seq(Event) /\ Len(ev) \in Nat /\ DOMAIN ev = 1 .. Len(ev)
    BY LenProperties DEF Entry, Record
  <2>2. t.stage = Submitted
    BY <1>4 DEF Open
  <2>3. Len(ev) = 1
    <3>1. Len(ev) > 0 /\ ev[1].stage = Submitted /\ ev[Len(ev)].stage = Submitted
      BY <2>2 DEF Open, TraceOf
    <3>2. Len(ev) > 1 => ev[1].stage < ev[Len(ev)].stage
      BY <2>1 DEF Open, TraceOf
    <3> HIDE DEF ev
    <3>3. ~ (0 < 0)
      OBVIOUS
    <3>4. ~ (Len(ev) > 1)
      BY <3>1, <3>2, <3>3
    <3> QED
      BY <2>1, <3>1, <3>4
  <2>4. \A k \in DOMAIN ev : ev[k].stage = Submitted
    BY <2>1, <2>3, <2>2 DEF Open, TraceOf
  <2>5. Backed(seen.record, hd)
    <3> HIDE DEF seen
    <3> QED
      BY <1>1, <2>4 DEF Backed
  <2>6. TraceOf(seen.record, t.stage)
    <3>1. ev[1] = [stage |-> Submitted, slot |-> None] /\ ev[1].stage = t.stage
      BY <2>3 DEF Open, TraceOf
    <3> HIDE DEF seen, ev
    <3>2. \A i, j \in 1 .. 1 : ~ (i < j)
      OBVIOUS
    <3>3. 2 .. 1 = {}
      OBVIOUS
    <3> QED
      BY <1>1, <2>3, <3>1, <3>2, <3>3 DEF TraceOf
  <2> QED
    BY <1>1, <1>2, <2>5, <2>6 DEF Open
<1> QED
  BY <1>3, <1>4

LEMMA OnTransactionSafe ==
    ASSUME NEW tr, IsTracker(tr), NEW d \in Seq(Record), NEW hd,
           Safe(tr.active, d \o tr.completed, hd),
           NEW sig \in Sigs, NEW slot \in Slots, NEW failed \in BOOLEAN
    PROVE  LET after == OnTransaction(tr, sig, slot, failed)
           IN  Safe(after.active, d \o after.completed, hd)
<1>1. CASE sig \notin DOMAIN tr.active
  BY <1>1 DEF OnTransaction
<1>2. CASE sig \in DOMAIN tr.active
  <2> DEFINE t     == tr.active[sig]
             seenT == [t EXCEPT !.record.landed_slot = IF @ = None THEN slot ELSE @]
             seen  == [tr EXCEPT !.active[sig].record.landed_slot = IF @ = None THEN slot ELSE @]
  <2>1. t \in Entry /\ Open(t, sig, hd)
    BY <1>2 DEF IsTracker, Safe
  <2>2. /\ seen.completed = tr.completed
        /\ DOMAIN seen.active = DOMAIN tr.active
        /\ seen.active = [tr.active EXCEPT ![sig] = seenT]
        /\ seen = [active |-> seen.active, completed |-> seen.completed]
    BY <1>2 DEF IsTracker
  <2>3. /\ seenT \in Entry
        /\ seenT.stage = t.stage
        /\ seenT.record.landed_slot # None
        /\ seenT.record.signature = sig
        /\ seenT.record.failure = None
        /\ TraceOf(seenT.record, t.stage)
        /\ Backed(seenT.record, hd)
    <3> HIDE DEF t
    <3> QED
      BY <2>1, SeenTrace
  <2>4. seenT.record \in Record /\ t.stage \in {Submitted} \cup Levels
    <3> HIDE DEF seenT
    <3> QED
      BY <2>1, <2>3 DEF Entry
  <2>5. seen.active[sig] = seenT
    BY <1>2, <2>2 DEF IsTracker
  <2> HIDE DEF t, seenT, seen
  <2>6. CASE failed
    <3> DEFINE ord == <<sig>>
               rec == [s \in {sig} |-> FailedRecord(seen.active[s].record, "BundleFailure")]
               recT == [s \in {sig} |-> FailedRecord(seenT.record, "BundleFailure")]
    <3>1. ord \in Seq(Sigs) /\ Range(ord) = {sig} /\ DOMAIN ord = {1}
      BY DEF Range
    <3>2. /\ recT[sig] \in Record
          /\ recT[sig].signature = sig
          /\ Closed(recT[sig], hd)
      <4>1. recT[sig] = FailedRecord(seenT.record, "BundleFailure")
        OBVIOUS
      <4>2. "BundleFailure" \in FailureClass
        BY DEF FailureClass
      <4> HIDE DEF recT
      <4> QED
        BY <2>3, <2>4, <4>1, <4>2, FailedRecordType, FailClosed
    <3>3. OnTransaction(tr, sig, slot, failed) = Settle(seen, ord, rec)
      BY <1>2, <2>2, <2>6 DEF OnTransaction, Fail, seen
    <3>4. Settle(seen, ord, rec) = Settle(tr, ord, recT)
      <4>1. rec = recT
        BY <2>5
      <4>2. Restrict(seen.active, DOMAIN seen.active \ Range(ord))
              = Restrict(tr.active, DOMAIN tr.active \ Range(ord))
        BY <2>2, <3>1 DEF Restrict
      <4> HIDE DEF rec, recT, ord
      <4> QED
        BY <2>2, <4>1, <4>2 DEF Settle
    <3> HIDE DEF ord, rec, recT
    <3> QED
      BY <1>2, <3>1, <3>2, <3>3, <3>4, SettleSafe
  <2>7. CASE ~ failed
    <3> DEFINE e     == Advance(seenT, Processed, slot)
               after == [seen EXCEPT !.active[sig] = e]
    <3>1. OnTransaction(tr, sig, slot, failed) = after
      BY <1>2, <2>5, <2>7 DEF OnTransaction, seen
    <3>2. Open(e, sig, hd)
      <4>1. CASE t.stage = Submitted
        <5>1. t.record.landed_slot = None
          BY <2>1, <4>1 DEF Open
        <5>2. seenT.record.landed_slot = slot
          BY <2>1, <5>1 DEF seenT, Entry, Record
        <5>3. Processed \in Levels /\ seenT.stage < Processed
          BY <2>3, <4>1 DEF Levels
        <5>4. ~ (Processed \in {Confirmed, Finalized})
          OBVIOUS
        <5> QED
          BY <2>3, <5>2, <5>3, <5>4, AdvanceOpen
      <4>2. CASE t.stage # Submitted
        <5>1. e = seenT
          BY <2>3, <2>4, <4>2 DEF Advance, Order, Levels
        <5> QED
          BY <2>3, <4>2, <5>1 DEF Open
      <4> QED
        BY <4>1, <4>2
    <3>3. /\ DOMAIN after.active = DOMAIN tr.active
          /\ after.completed = tr.completed
          /\ after.active[sig] = e
          /\ \A s \in DOMAIN tr.active : s # sig => after.active[s] = tr.active[s]
      <4> HIDE DEF e
      <4> QED
        BY <1>2, <2>2
    <3> HIDE DEF e, after
    <3> QED
      BY <3>1, <3>2, <3>3, UpdateSafe
  <2> QED
    BY <2>6, <2>7
<1> QED
  BY <1>1, <1>2

(* A slot update that was heard advances, and at Finalized completes, only *)
(* bundles that landed at or before its slot.                              *)
LEMMA OnSlotCommitmentSafe ==
    ASSUME NEW tr, IsTracker(tr), NEW d \in Seq(Record), NEW hd,
           Safe(tr.active, d \o tr.completed, hd),
           NEW slot \in Slots, NEW level \in Levels,
           level \in {Confirmed, Finalized} => slot <= hd[level] /\ hd[level] \in Int,
           NEW after \in OnSlotCommitment(tr, slot, level)
    PROVE  Safe(after.active, d \o after.completed, hd)
<1> DEFINE mid == AdvanceAll(tr, slot, level)
           S   == ToAdvance(tr, slot, level)
<1>1. /\ IsTracker(mid)
      /\ DOMAIN mid.active = DOMAIN tr.active
      /\ mid.completed = tr.completed
      /\ \A s \in DOMAIN tr.active :
           mid.active[s] = IF s \in S
                           THEN Advance(tr.active[s], level, tr.active[s].record.landed_slot)
                           ELSE tr.active[s]
  <2>1. IsTracker(mid) /\ DOMAIN mid.active = DOMAIN tr.active
    BY AdvanceAllType
  <2>2. tr = [active |-> tr.active, completed |-> tr.completed]
    BY DEF IsTracker
  <2>3. mid.active = [s \in DOMAIN tr.active |->
                        IF s \in S
                        THEN Advance(tr.active[s], level, tr.active[s].record.landed_slot)
                        ELSE tr.active[s]]
        /\ mid.completed = tr.completed
    <3> HIDE DEF S
    <3> QED
      BY <2>2 DEF AdvanceAll, S
  <2> HIDE DEF mid, S
  <2> QED
    BY <2>1, <2>3
<1>2. S \in SUBSET DOMAIN tr.active /\ S \in SUBSET Sigs
  BY DEF ToAdvance, IsTracker
<1>3. ASSUME NEW s \in S
      PROVE  /\ Open(mid.active[s], s, hd)
             /\ tr.active[s].record.landed_slot # None
             /\ mid.active[s].record.landed_slot # None
  <2> DEFINE t == tr.active[s]
             l == t.record.landed_slot
  <2>1. t \in Entry /\ Open(t, s, hd)
    BY <1>2 DEF IsTracker, Safe
  <2>2. l # None /\ l <= slot /\ t.stage < level
    BY <2>1 DEF ToAdvance, Order, Entry, Levels
  <2>3. l \in Nat /\ slot \in Nat
    BY <2>1, <2>2, SlotsAssumption DEF Entry, Record, Opt
  <2>4. level \in {Confirmed, Finalized} => l <= hd[level]
    <3> HIDE DEF l
    <3> QED
      BY <2>2, <2>3
  <2>5. mid.active[s] = Advance(t, level, l)
    BY <1>1, <1>2
  <2>6. Advance(t, level, l).record.landed_slot = l
    BY <2>1 DEF Advance, Push, Entry, Record
  <2>7. Open(Advance(t, level, l), s, hd)
    <3> HIDE DEF t
    <3> QED
      BY <2>1, <2>2, <2>4, AdvanceOpen DEF Open
  <2> QED
    BY <2>2, <2>5, <2>6, <2>7
<1> HIDE DEF mid
<1>4. Safe(mid.active, d \o mid.completed, hd)
  <2> HIDE DEF S
  <2> QED
    BY <1>1, <1>3, UpdateSafe
<1>5. CASE level # Finalized
  BY <1>4, <1>5 DEF OnSlotCommitment, mid
<1>6. CASE level = Finalized
  <2>1. PICK ord \in Orders(S) : after = Settle(mid, ord, Records(mid))
    BY <1>6 DEF OnSlotCommitment, mid
  <2>2. /\ ord \in Seq(Sigs) /\ Range(ord) = S
        /\ \A i, j \in DOMAIN ord : ord[i] = ord[j] => i = j
    <3> HIDE DEF S
    <3> QED
      BY <1>2, OrdersType, SeqMonotonic
  <2>3. \A s \in S : /\ Records(mid)[s] \in Record
                    /\ Records(mid)[s].signature = s
                    /\ Closed(Records(mid)[s], hd)
    <3> TAKE s \in S
    <3>1. s \in DOMAIN mid.active /\ Records(mid)[s] = mid.active[s].record
      BY <1>1, <1>2 DEF Records
    <3>2. mid.active[s] \in Entry
      BY <1>1, <3>1 DEF IsTracker
    <3> HIDE DEF S
    <3> QED
      BY <1>3, <3>1, <3>2, LandedClosed DEF Open, Entry
  <2> HIDE DEF S
  <2> QED
    BY <1>1, <1>2, <1>4, <2>1, <2>2, <2>3, SettleSafe
<1> QED
  BY <1>5, <1>6

LEMMA ExpireUnlandedSafe ==
    ASSUME NEW tr, IsTracker(tr), NEW d \in Seq(Record), NEW hd,
           Safe(tr.active, d \o tr.completed, hd),
           NEW height \in Heights, NEW after \in ExpireUnlanded(tr, height)
    PROVE  Safe(after.active, d \o after.completed, hd)
<1> DEFINE rec == [s \in DOMAIN tr.active |-> FailedRecord(tr.active[s].record, "ExpiredBlockhash")]
           S   == Expired(tr, height)
<1>1. PICK ord \in Orders(S) : after = Settle(tr, ord, rec)
  BY DEF ExpireUnlanded
<1>2. S \in SUBSET DOMAIN tr.active /\ S \in SUBSET Sigs
  BY DEF Expired, IsTracker
<1> HIDE DEF S
<1>3. /\ ord \in Seq(Sigs) /\ Range(ord) = S
      /\ \A i, j \in DOMAIN ord : ord[i] = ord[j] => i = j
  BY <1>2, OrdersType, SeqMonotonic
<1>4. \A s \in S : rec[s] \in Record /\ rec[s].signature = s /\ Closed(rec[s], hd)
  <2> TAKE s \in S
  <2>1. rec[s] = FailedRecord(tr.active[s].record, "ExpiredBlockhash")
    BY <1>2
  <2>2. tr.active[s] \in Entry /\ Open(tr.active[s], s, hd)
    BY <1>2 DEF IsTracker, Safe
  <2>3. "ExpiredBlockhash" \in FailureClass
    BY DEF FailureClass
  <2> HIDE DEF rec
  <2> QED
    BY <2>1, <2>2, <2>3, FailedRecordType, FailClosed DEF Open, Entry
<1> HIDE DEF rec
<1> QED
  BY <1>1, <1>2, <1>3, <1>4, SettleSafe

LEMMA FlushActiveSafe ==
    ASSUME NEW tr, IsTracker(tr), NEW d \in Seq(Record), NEW hd,
           Safe(tr.active, d \o tr.completed, hd),
           NEW after \in FlushActive(tr)
    PROVE  Safe(after.active, d \o after.completed, hd)
<1> DEFINE S   == DOMAIN tr.active
           rec == [s \in S |->
                     LET r == tr.active[s].record
                     IN  IF r.landed_slot = None THEN FailedRecord(r, "Unknown") ELSE r]
<1>1. PICK ord \in Orders(S) : after = Settle(tr, ord, rec)
  BY DEF FlushActive
<1>2. S \in SUBSET Sigs
  BY DEF IsTracker
<1>3. /\ ord \in Seq(Sigs) /\ Range(ord) = S
      /\ \A i, j \in DOMAIN ord : ord[i] = ord[j] => i = j
  BY <1>2, OrdersType, SeqMonotonic
<1>4. \A s \in S : rec[s] \in Record /\ rec[s].signature = s /\ Closed(rec[s], hd)
  <2> TAKE s \in S
  <2> DEFINE t == tr.active[s]
  <2>1. rec[s] = IF t.record.landed_slot = None THEN FailedRecord(t.record, "Unknown") ELSE t.record
    OBVIOUS
  <2>2. t \in Entry /\ Open(t, s, hd)
    BY DEF IsTracker, Safe
  <2>3. "Unknown" \in FailureClass
    BY DEF FailureClass
  <2> HIDE DEF rec, t
  <2>4. CASE t.record.landed_slot = None
    BY <2>1, <2>2, <2>3, <2>4, FailedRecordType, FailClosed DEF Open, Entry
  <2>5. CASE t.record.landed_slot # None
    BY <2>1, <2>2, <2>5, LandedClosed DEF Open, Entry
  <2> QED
    BY <2>4, <2>5
<1> HIDE DEF rec
<1> QED
  BY <1>1, <1>2, <1>3, <1>4, SettleSafe

LEMMA CommitSlotSafe ==
    ASSUME IInv, NEW slot \in Slots, NEW level \in Levels, CommitSlot(slot, level), TypeOK'
    PROVE  Safe(tracker.active, History, heard)'
<1>1. /\ IsTracker(tracker) /\ drained \in Seq(Record)
      /\ heard \in HeardType /\ heard' \in HeardType
  BY DEF IInv, TypeOK, HeardType
<1>2. \A l \in {Confirmed, Finalized} :
        /\ heard[l] \in Int /\ heard'[l] \in Int /\ slot \in Int
        /\ heard'[l] = IF l = level /\ slot > heard[l] THEN slot ELSE heard[l]
  <2>1. \A l \in {Confirmed, Finalized} :
          heard[l] \in Slots \cup {-1} /\ heard'[l] \in Slots \cup {-1}
    BY <1>1 DEF HeardType
  <2>2. \A l \in {Confirmed, Finalized} :
          heard'[l] = IF l = level /\ slot > heard[l] THEN slot ELSE heard[l]
    BY <1>1 DEF CommitSlot, HeardType
  <2>3. \A x \in Slots \cup {-1} : x \in Int
    BY SlotsAssumption
  <2>4. slot \in Int
    BY <2>3
  <2>5. \A l \in {Confirmed, Finalized} : heard[l] \in Int /\ heard'[l] \in Int
    BY <2>1, <2>3
  <2> QED
    BY <2>2, <2>4, <2>5
<1>3. /\ \A l \in {Confirmed, Finalized} : heard[l] <= heard'[l]
      /\ level \in {Confirmed, Finalized} => slot <= heard'[level] /\ heard'[level] \in Int
  BY <1>2
<1>4. History \in Seq(Record)
  BY <1>1, ConcatProperties DEF IsTracker, History
<1>5. Safe(tracker.active, drained \o tracker.completed, heard')
  BY <1>1, <1>3, <1>4, HeardGrows DEF IInv, History
<1>6. Safe(tracker'.active, drained \o tracker'.completed, heard')
  BY <1>1, <1>3, <1>5, OnSlotCommitmentSafe DEF CommitSlot
<1> QED
  BY <1>6 DEF CommitSlot, History

LEMMA SafeStep == IInv /\ [Next]_vars => IInv'
<1> SUFFICES ASSUME IInv, [Next]_vars PROVE IInv'
  OBVIOUS
<1>1. TypeOK'
  BY TypeStep DEF IInv
<1>2. /\ IsTracker(tracker) /\ drained \in Seq(Record)
      /\ Safe(tracker.active, drained \o tracker.completed, heard)
  BY DEF IInv, TypeOK, History
<1> SUFFICES Safe(tracker.active, History, heard)'
  BY <1>1 DEF IInv
<1>3. CASE TrackSigned
  BY <1>3, TrackSignedSafe
<1>4. CASE TrackUnsigned
  BY <1>4, TrackUnsignedSafe
<1>5. CASE SeeTransaction
  BY <1>2, <1>5, OnTransactionSafe DEF SeeTransaction, History
<1>6. CASE SlotCommitment
  BY <1>1, <1>6, CommitSlotSafe DEF SlotCommitment
<1>7. CASE Expire
  BY <1>2, <1>7, ExpireUnlandedSafe DEF Expire, History
<1>8. CASE MarkFailed
  BY <1>2, <1>8, FailSafe, ClassesAssumption DEF MarkFailed, History
<1>9. CASE Flush
  BY <1>2, <1>9, FlushActiveSafe DEF Flush, History
<1>10. CASE Drain
  <2>1. tracker.completed \in Seq(Record)
    BY <1>2 DEF IsTracker
  <2>2. tracker'.completed = <<>> /\ tracker'.active = tracker.active /\ heard' = heard
    BY <1>2, <1>10 DEF Drain, DrainCompleted, IsTracker
  <2>3. History' = History
    <3>1. drained \o tracker.completed \in Seq(Record)
      BY <1>2, <2>1, ConcatProperties
    <3>2. (drained \o tracker.completed) \o <<>> = drained \o tracker.completed
      BY <3>1, ConcatEmptySeq
    <3> QED
      BY <1>10, <2>2, <3>2 DEF Drain, History
  <2> QED
    BY <1>2, <2>2, <2>3 DEF History
<1>11. CASE UNCHANGED vars
  BY <1>2, <1>11 DEF vars, History
<1> QED
  BY <1>3, <1>4, <1>5, <1>6, <1>7, <1>8, <1>9, <1>10, <1>11 DEF Next

LEMMA IInvAlways == Spec => []IInv
<1>1. Init => IInv
  BY TypeInit, SafeInit DEF IInv
<1> QED
  BY <1>1, SafeStep, PTL DEF Spec

(* A bundle has one record, whichever of the stream, the executor, expiry  *)
(* and the end of the run closes it.                                       *)
THEOREM OneRecord == Spec => []OneRecordPerBundle
<1>1. IInv => OneRecordPerBundle
  BY IInvIsAll DEF IInv
<1> QED
  BY <1>1, IInvAlways, PTL

(* A record without a failure landed.                                      *)
THEOREM SuccessLanded == Spec => []SuccessMeansLanded
<1>1. IInv => SuccessMeansLanded
  BY IInvIsAll DEF IInv
<1> QED
  BY <1>1, IInvAlways, PTL

(* Every record's events retrace one lifecycle.                            *)
THEOREM Traced == Spec => []LifecycleTrace
<1>1. IInv => LifecycleTrace
  BY IInvIsAll DEF IInv
<1> QED
  BY <1>1, IInvAlways, PTL

(* No record shows a commitment level the stream did not report.           *)
THEOREM Evidenced == Spec => []StageIsEvidenced
<1>1. IInv => StageIsEvidenced
  BY IInvIsAll DEF IInv
<1> QED
  BY <1>1, IInvAlways, PTL

(* Followed records are open, filed under their own signature, and landed  *)
(* exactly when they are past Submitted: what active_progress relies on.   *)
THEOREM Opened == Spec => []OpenRecords
<1>1. IInv => OpenRecords
  BY IInvIsAll DEF IInv
<1> QED
  BY <1>1, IInvAlways, PTL
===============================================================================
