--------------------------- MODULE TrackerOpsProofs ---------------------------
(***************************************************************************)
(* Lemmas about the methods of the tracker, for every set of signatures,   *)
(* slots and heights: each keeps a tracker a tracker, moves each followed  *)
(* bundle by one step of its lifecycle or none, and leaves every record    *)
(* with the stage it was last seen at as its last event.                   *)
(***************************************************************************)
EXTENDS TrackerOps, SequenceTheorems, FiniteSetTheorems, TLAPS

USE DEF Submitted, Processed, Confirmed, Finalized, Failed

(* Pushing an event onto a record gives a record.                          *)
LEMMA PushType ==
    ASSUME NEW rec \in Record, NEW stage \in {Submitted, Failed} \cup Levels, NEW slot \in Opt(Slots)
    PROVE  Push(rec, stage, slot) \in Record
<1>1. Append(rec.events, [stage |-> stage, slot |-> slot]) \in Seq(Event)
  BY AppendProperties DEF Record, Event
<1> QED
  BY <1>1 DEF Record, Push

(* Closing a record as a failure gives a record.                           *)
LEMMA FailedRecordType ==
    ASSUME NEW rec \in Record, NEW class \in FailureClass
    PROVE  FailedRecord(rec, class) \in Record
<1>1. [rec EXCEPT !.failure = class] \in Record
  BY DEF Record, Opt
<1> QED
  BY <1>1, PushType DEF FailedRecord, Record

(* advance keeps an entry an entry.                                        *)
LEMMA AdvanceType ==
    ASSUME NEW t \in Entry, NEW stage \in Levels, NEW slot \in Opt(Slots)
    PROVE  Advance(t, stage, slot) \in Entry
BY PushType DEF Entry, Advance

(* A sequence of signatures in some order of a set of followed bundles.    *)
LEMMA OrdersType ==
    ASSUME NEW S \in SUBSET Sigs, NEW ord \in Orders(S)
    PROVE  /\ Cardinality(S) \in Nat
           /\ ord \in Seq(S)
           /\ Len(ord) = Cardinality(S)
           /\ DOMAIN ord = 1 .. Cardinality(S)
           /\ Range(ord) = S
           /\ \A i, j \in DOMAIN ord : ord[i] = ord[j] => i = j
<1>1. Cardinality(S) \in Nat
  BY SigsFinite, FS_Subset, FS_CardinalityType
<1>2. ord \in [1 .. Cardinality(S) -> S]
  BY DEF Orders, Bijection, Injection
<1>3. Range(ord) = S
  BY <1>2 DEF Orders, Bijection, Surjection, Range
<1>4. \A i, j \in DOMAIN ord : ord[i] = ord[j] => i = j
  BY <1>2 DEF Orders, Bijection, Injection, IsInjective
<1>5. ord \in Seq(S)
  BY <1>1, <1>2
<1> QED
  BY <1>1, <1>2, <1>3, <1>4, <1>5

(* Moving followed bundles to completed keeps a tracker a tracker.         *)
LEMMA SettleType ==
    ASSUME NEW tr, IsTracker(tr),
           NEW ord \in Seq(Sigs), Range(ord) \subseteq DOMAIN tr.active,
           NEW rec, \A s \in Range(ord) : rec[s] \in Record
    PROVE  IsTracker(Settle(tr, ord, rec))
<1> DEFINE moved == [i \in DOMAIN ord |-> rec[ord[i]]]
<1>1. moved \in Seq(Record)
  <2>1. \A i \in 1 .. Len(ord) : rec[ord[i]] \in Record
    BY DEF Range
  <2> QED
    BY <2>1, LenProperties
<1>2. tr.completed \o moved \in Seq(Record)
  BY <1>1, ConcatProperties DEF IsTracker
<1>3. Restrict(tr.active, DOMAIN tr.active \ Range(ord)) \in
        [DOMAIN tr.active \ Range(ord) -> Entry]
  BY DEF Restrict, IsTracker
<1> QED
  BY <1>2, <1>3 DEF Settle, IsTracker

(* Each method of the tracker keeps a tracker a tracker.                   *)
LEMMA TrackType ==
    ASSUME NEW tr, IsTracker(tr), NEW rec \in Record
    PROVE  IsTracker(Track(tr, rec))
<1>1. CASE rec.signature = None
  <2>1. [rec EXCEPT !.failure = "Unknown"] \in Record
    BY DEF Record, Opt, FailureClass
  <2> QED
    BY <1>1, <2>1, AppendProperties DEF Track, IsTracker
<1>2. CASE rec.signature # None
  <2>1. rec.signature \in Sigs
    BY <1>2 DEF Record, Opt
  <2>2. [record |-> Push(rec, Submitted, None), stage |-> Submitted] \in Entry
    BY PushType DEF Entry, Opt
  <2> QED
    BY <1>2, <2>1, <2>2 DEF Track, IsTracker
<1> QED
  BY <1>1, <1>2

LEMMA FailType ==
    ASSUME NEW tr, IsTracker(tr), NEW sig \in Sigs, NEW class \in FailureClass
    PROVE  IsTracker(Fail(tr, sig, class))
<1>1. CASE sig \notin DOMAIN tr.active
  BY <1>1 DEF Fail
<1>2. CASE sig \in DOMAIN tr.active
  <2> DEFINE rec == [s \in {sig} |-> FailedRecord(tr.active[s].record, class)]
  <2>1. <<sig>> \in Seq(Sigs) /\ Range(<<sig>>) = {sig}
    BY DEF Range
  <2>2. rec[sig] \in Record
    BY <1>2, FailedRecordType DEF IsTracker, Entry
  <2> QED
    BY <1>2, <2>1, <2>2, SettleType DEF Fail
<1> QED
  BY <1>1, <1>2

LEMMA OnTransactionType ==
    ASSUME NEW tr, IsTracker(tr), NEW sig \in Sigs, NEW slot \in Slots, NEW failed \in BOOLEAN
    PROVE  IsTracker(OnTransaction(tr, sig, slot, failed))
<1>1. CASE sig \notin DOMAIN tr.active
  BY <1>1 DEF OnTransaction
<1>2. CASE sig \in DOMAIN tr.active
  <2> DEFINE seen == [tr EXCEPT !.active[sig].record.landed_slot = IF @ = None THEN slot ELSE @]
  <2>1. tr.active[sig] \in Entry
    BY <1>2 DEF IsTracker
  <2>2. seen.active[sig] \in Entry
    BY <1>2, <2>1 DEF IsTracker, Entry, Record, Opt
  <2>3. IsTracker(seen)
    BY <1>2, <2>2 DEF IsTracker
  <2>4. IsTracker(Fail(seen, sig, "BundleFailure"))
    BY <2>3, FailType DEF FailureClass
  <2>5. Advance(seen.active[sig], Processed, slot) \in Entry
    BY <2>2, AdvanceType DEF Levels, Opt
  <2>6. IsTracker([seen EXCEPT !.active[sig] = Advance(@, Processed, slot)])
    <3> DEFINE e == Advance(seen.active[sig], Processed, slot)
    <3> HIDE DEF seen, e
    <3>1. [seen.active EXCEPT ![sig] = e] \in [DOMAIN seen.active -> Entry]
      BY <2>3, <2>5 DEF IsTracker, e
    <3>2. [seen EXCEPT !.active[sig] = e] =
            [active |-> [seen.active EXCEPT ![sig] = e], completed |-> seen.completed]
      BY <2>3 DEF IsTracker
    <3> QED
      BY <2>3, <3>1, <3>2 DEF IsTracker, e
  <2> QED
    BY <1>2, <2>4, <2>6 DEF OnTransaction
<1> QED
  BY <1>1, <1>2

LEMMA AdvanceAllType ==
    ASSUME NEW tr, IsTracker(tr), NEW slot \in Slots, NEW level \in Levels
    PROVE  /\ IsTracker(AdvanceAll(tr, slot, level))
           /\ DOMAIN AdvanceAll(tr, slot, level).active = DOMAIN tr.active
<1>1. \A s \in DOMAIN tr.active :
        Advance(tr.active[s], level, tr.active[s].record.landed_slot) \in Entry
  BY AdvanceType DEF IsTracker, Entry, Record
<1> QED
  BY <1>1 DEF AdvanceAll, IsTracker

LEMMA OnSlotCommitmentType ==
    ASSUME NEW tr, IsTracker(tr), NEW slot \in Slots, NEW level \in Levels,
           NEW after \in OnSlotCommitment(tr, slot, level)
    PROVE  IsTracker(after)
<1> DEFINE mid == AdvanceAll(tr, slot, level)
           S   == ToAdvance(tr, slot, level)
<1>1. IsTracker(mid) /\ DOMAIN mid.active = DOMAIN tr.active
  BY AdvanceAllType
<1>2. CASE level # Finalized
  BY <1>1, <1>2 DEF OnSlotCommitment
<1>3. CASE level = Finalized
  <2>1. PICK ord \in Orders(S) : after = Settle(mid, ord, Records(mid))
    BY <1>3 DEF OnSlotCommitment
  <2>2. S \in SUBSET DOMAIN tr.active /\ S \in SUBSET Sigs
    BY DEF ToAdvance, IsTracker
  <2>3. ord \in Seq(Sigs) /\ Range(ord) = S
    BY <2>2, OrdersType, SeqMonotonic
  <2>4. \A s \in S : Records(mid)[s] \in Record
    <3> HIDE DEF mid, S
    <3> QED
      BY <1>1, <2>2 DEF Records, IsTracker, Entry
  <2> QED
    <3> HIDE DEF mid, S
    <3> QED
      BY <1>1, <2>1, <2>2, <2>3, <2>4, SettleType
<1> QED
  BY <1>2, <1>3

LEMMA ExpireUnlandedType ==
    ASSUME NEW tr, IsTracker(tr), NEW height \in Heights, NEW after \in ExpireUnlanded(tr, height)
    PROVE  IsTracker(after)
<1> DEFINE rec == [s \in DOMAIN tr.active |-> FailedRecord(tr.active[s].record, "ExpiredBlockhash")]
           S   == Expired(tr, height)
<1>1. PICK ord \in Orders(S) : after = Settle(tr, ord, rec)
  BY DEF ExpireUnlanded
<1>2. S \in SUBSET DOMAIN tr.active /\ S \in SUBSET Sigs
  BY DEF Expired, IsTracker
<1>3. ord \in Seq(Sigs) /\ Range(ord) = S
  BY <1>2, OrdersType, SeqMonotonic
<1>4. \A s \in S : rec[s] \in Record
  BY <1>2, FailedRecordType DEF IsTracker, Entry, FailureClass
<1> HIDE DEF rec, S
<1> QED
  BY <1>1, <1>2, <1>3, <1>4, SettleType

LEMMA FlushActiveType ==
    ASSUME NEW tr, IsTracker(tr), NEW after \in FlushActive(tr)
    PROVE  IsTracker(after)
<1> DEFINE S   == DOMAIN tr.active
           rec == [s \in S |->
                     LET r == tr.active[s].record
                     IN  IF r.landed_slot = None THEN FailedRecord(r, "Unknown") ELSE r]
<1>1. PICK ord \in Orders(S) : after = Settle(tr, ord, rec)
  BY DEF FlushActive
<1>2. S \in SUBSET Sigs
  BY DEF IsTracker
<1>3. ord \in Seq(Sigs) /\ Range(ord) = S
  BY <1>2, OrdersType, SeqMonotonic
<1>4. \A s \in S : rec[s] \in Record
  BY FailedRecordType DEF IsTracker, Entry, FailureClass
<1> HIDE DEF rec
<1> QED
  BY <1>1, <1>3, <1>4, SettleType

LEMMA NewRecordType ==
    ASSUME NEW sig \in Opt(Sigs), NEW lvbh \in Heights
    PROVE  NewRecord(sig, lvbh) \in Record
<1>1. <<>> \in Seq(Event)
  BY EmptySeq
<1> QED
  BY <1>1 DEF NewRecord, Record, Opt

(* Concatenation of record sequences is associative.                       *)
LEMMA RecordsAssociate ==
    \A a, b, c \in Seq(Record) : a \o (b \o c) = (a \o b) \o c
BY ConcatAssociative

LEMMA RecordsConcat ==
    \A a, b \in Seq(Record) :
        /\ a \o b \in Seq(Record)
        /\ Len(a \o b) = Len(a) + Len(b)
        /\ \A i \in 1 .. Len(a) + Len(b) :
             (a \o b)[i] = IF i <= Len(a) THEN a[i] ELSE b[i - Len(a)]
BY ConcatProperties, Zenon

-------------------------------------------------------------------------------
\* A followed bundle is filed under its signature, open, and landed iff past Submitted.
Follows(t, s) ==
    /\ t.record.signature = s
    /\ t.record.failure = None
    /\ (t.record.landed_slot = None) <=> (t.stage = Submitted)

Sound(tr) == \A s \in DOMAIN tr.active : Follows(tr.active[s], s)

LandedIn(tr) == {s \in DOMAIN tr.active : tr.active[s].record.landed_slot # None}

\* What the stream may have said: the transactions it saw, news, and the slots
\* it vouched for, at Confirmed or beyond.
News == [sig : Sigs, slot : Slots, failed : BOOLEAN]

Saw(sig, slot, failed) == [sig |-> sig, slot |-> slot, failed |-> failed]

\* The slots a slot update vouches for.
Vouched(slot, level) == {n \in Slots : level # Processed /\ n <= slot}

\* A bundle that stays followed: nothing, Land or Confirm.
Stays(t, t2, news, vouched) ==
    /\ t2.record.signature = t.record.signature
    /\ t2.record.failure = t.record.failure
    /\ \/ t2.stage = t.stage /\ t2.record.landed_slot = t.record.landed_slot
       \/ /\ t.stage = Submitted /\ t2.stage = Processed
          /\ t.record.landed_slot = None
          /\ Saw(t.record.signature, t2.record.landed_slot, FALSE) \in news
       \/ /\ t.stage = Processed /\ t2.stage = Confirmed
          /\ t2.record.landed_slot = t.record.landed_slot
          /\ t.record.landed_slot \in vouched

\* A bundle that is completed: Succeed or Fail, or Revert.
EndsAs(t, rec, news, vouched) ==
    \/ /\ rec.landed_slot = t.record.landed_slot
       /\ rec.failure = None => rec.landed_slot \in vouched
    \/ /\ t.record.landed_slot = None /\ rec.failure # None
       /\ Saw(t.record.signature, rec.landed_slot, TRUE) \in news

\* The records a step appends to completed, and what becomes of the bundles;
\* those of kept, if they are completed, succeed.
Appends(tr, after, m, kept, news, vouched) ==
    /\ after.completed = tr.completed \o m
    /\ \A i \in DOMAIN m :
          /\ m[i].signature \in DOMAIN tr.active \ DOMAIN after.active
          /\ EndsAs(tr.active[m[i].signature], m[i], news, vouched)
          /\ m[i].signature \in kept => m[i].failure = None
    /\ \A i, j \in DOMAIN m : m[i].signature = m[j].signature => i = j
    /\ DOMAIN after.active \subseteq DOMAIN tr.active
    /\ \A s \in DOMAIN after.active : Stays(tr.active[s], after.active[s], news, vouched)
    /\ \A s \in DOMAIN tr.active \ DOMAIN after.active : \E i \in DOMAIN m : m[i].signature = s

Moves(tr, after, kept, news, vouched) ==
    \E m \in Seq(Record) : Appends(tr, after, m, kept, news, vouched)

(* Bundles changed in place.                                               *)
LEMMA UpdateMoves ==
    ASSUME NEW tr, IsTracker(tr), NEW after, NEW kept, NEW news, NEW vouched,
           after.completed = tr.completed,
           DOMAIN after.active = DOMAIN tr.active,
           \A s \in DOMAIN tr.active : Stays(tr.active[s], after.active[s], news, vouched)
    PROVE  Moves(tr, after, kept, news, vouched)
<1>1. <<>> \in Seq(Record) /\ DOMAIN (<<>>) = {}
  BY EmptySeq
<1>2. tr.completed \o <<>> = tr.completed
  BY ConcatEmptySeq DEF IsTracker
<1>3. Appends(tr, after, <<>>, kept, news, vouched)
  BY <1>1, <1>2 DEF Appends
<1> QED
  BY <1>1, <1>3 DEF Moves

(* Bundles moved to completed, each with a record of its own.              *)
LEMMA SettleMoves ==
    ASSUME NEW tr, IsTracker(tr), NEW kept, NEW news, NEW vouched,
           NEW ord \in Seq(Sigs), Range(ord) \subseteq DOMAIN tr.active,
           \A i, j \in DOMAIN ord : ord[i] = ord[j] => i = j,
           NEW rec,
           \A s \in Range(ord) :
               /\ rec[s] \in Record /\ rec[s].signature = s
               /\ EndsAs(tr.active[s], rec[s], news, vouched)
               /\ s \in kept => rec[s].failure = None
    PROVE  Moves(tr, Settle(tr, ord, rec), kept, news, vouched)
<1> DEFINE m     == [i \in DOMAIN ord |-> rec[ord[i]]]
           after == Settle(tr, ord, rec)
<1>1. DOMAIN ord = 1 .. Len(ord) /\ Len(ord) \in Nat
  BY LenProperties
<1>2. DOMAIN m = DOMAIN ord /\ \A i \in DOMAIN ord : ord[i] \in Range(ord) /\ m[i] = rec[ord[i]]
  BY DEF Range
<1>3. m \in Seq(Record)
  BY <1>1, <1>2
<1>4. /\ after.completed = tr.completed \o m
      /\ DOMAIN after.active = DOMAIN tr.active \ Range(ord)
      /\ \A s \in DOMAIN after.active : after.active[s] = tr.active[s]
  BY DEF Settle, Restrict
<1> HIDE DEF m, after
<1>5. \A i \in DOMAIN m : m[i] = rec[ord[i]] /\ m[i].signature = ord[i] /\ ord[i] \in Range(ord)
  BY <1>2
<1>6. \A i \in DOMAIN m :
        /\ m[i].signature \in DOMAIN tr.active \ DOMAIN after.active
        /\ EndsAs(tr.active[m[i].signature], m[i], news, vouched)
        /\ m[i].signature \in kept => m[i].failure = None
  BY <1>4, <1>5
<1>7. \A i, j \in DOMAIN m : m[i].signature = m[j].signature => i = j
  BY <1>2, <1>5
<1>8. \A s \in DOMAIN tr.active \ DOMAIN after.active : \E i \in DOMAIN m : m[i].signature = s
  <2> TAKE s \in DOMAIN tr.active \ DOMAIN after.active
  <2>1. s \in Range(ord)
    BY <1>4
  <2>2. PICK i \in DOMAIN ord : ord[i] = s
    BY <2>1 DEF Range
  <2> QED
    BY <1>2, <1>5, <2>2
<1>9. Appends(tr, after, m, kept, news, vouched)
  BY <1>4, <1>6, <1>7, <1>8 DEF Appends, Stays
<1> QED
  BY <1>3, <1>9 DEF Moves, after

(* A bundle closed as a failure keeps its slot.                            *)
LEMMA FailedEndsAs ==
    ASSUME NEW t, t.record \in Record, NEW class \in FailureClass, NEW news, NEW vouched
    PROVE  /\ FailedRecord(t.record, class).signature = t.record.signature
           /\ FailedRecord(t.record, class).landed_slot = t.record.landed_slot
           /\ FailedRecord(t.record, class).failure # None
           /\ EndsAs(t, FailedRecord(t.record, class), news, vouched)
BY NoneIsNoClass DEF FailedRecord, Push, Record, EndsAs

LEMMA FailMoves ==
    ASSUME NEW tr, IsTracker(tr), Sound(tr),
           NEW sig \in Sigs, NEW class \in FailureClass
    PROVE  Moves(tr, Fail(tr, sig, class), {}, {}, {})
<1>1. CASE sig \notin DOMAIN tr.active
  BY <1>1, UpdateMoves DEF Fail, Stays
<1>2. CASE sig \in DOMAIN tr.active
  <2> DEFINE rec == [s \in {sig} |-> FailedRecord(tr.active[s].record, class)]
             ord == <<sig>>
  <2>1. ord \in Seq(Sigs) /\ Range(ord) = {sig} /\ DOMAIN ord = {1}
    BY DEF Range
  <2>2. tr.active[sig].record \in Record /\ tr.active[sig].record.signature = sig
    BY <1>2 DEF Sound, Follows, IsTracker, Entry
  <2>3. rec[sig] = FailedRecord(tr.active[sig].record, class)
    OBVIOUS
  <2>4. Fail(tr, sig, class) = Settle(tr, ord, rec)
    BY <1>2 DEF Fail
  <2> HIDE DEF rec, ord
  <2>5. rec[sig] \in Record /\ rec[sig].signature = sig /\ EndsAs(tr.active[sig], rec[sig], {}, {})
    BY <2>2, <2>3, FailedRecordType, FailedEndsAs
  <2> QED
    BY <1>2, <2>1, <2>4, <2>5, SettleMoves, Zenon
<1> QED
  BY <1>1, <1>2

(* A transaction is seen: Land, Revert or Fail, or nothing new.            *)
LEMMA OnTransactionMoves ==
    ASSUME NEW tr, IsTracker(tr), Sound(tr),
           NEW sig \in Sigs, NEW slot \in Slots, NEW failed \in BOOLEAN,
           NEW kept, failed => sig \notin kept
    PROVE  Moves(tr, OnTransaction(tr, sig, slot, failed), kept, {Saw(sig, slot, failed)}, {})
<1>1. CASE sig \notin DOMAIN tr.active
  BY <1>1, UpdateMoves DEF OnTransaction, Stays
<1>2. CASE sig \in DOMAIN tr.active
  <2> DEFINE t     == tr.active[sig]
             l     == IF t.record.landed_slot = None THEN slot ELSE t.record.landed_slot
             seenT == [t EXCEPT !.record.landed_slot = IF @ = None THEN slot ELSE @]
             seen  == [tr EXCEPT !.active[sig].record.landed_slot = IF @ = None THEN slot ELSE @]
  <2>1. t \in Entry /\ Follows(t, sig)
    BY <1>2 DEF IsTracker, Sound
  <2>2. /\ seen.completed = tr.completed
        /\ DOMAIN seen.active = DOMAIN tr.active
        /\ seen.active = [tr.active EXCEPT ![sig] = seenT]
        /\ seen.active[sig] = seenT
        /\ \A s \in DOMAIN tr.active : s # sig => seen.active[s] = tr.active[s]
    BY <1>2 DEF IsTracker
  <2>3. /\ seenT \in Entry /\ seenT.record \in Record
        /\ seenT.stage = t.stage
        /\ seenT.record.landed_slot = l
        /\ seenT.record.signature = sig
        /\ seenT.record.failure = None
    <3> HIDE DEF t
    <3> QED
      BY <2>1 DEF Entry, Record, Opt, Follows
  <2>4. seen = [active |-> seen.active, completed |-> seen.completed]
    <3> DEFINE at(n) == [tr EXCEPT !.active[sig].record.landed_slot = n]
    <3>1. tr = [active |-> tr.active, completed |-> tr.completed]
      BY DEF IsTracker
    <3>2. \A n : at(n) = [active |-> at(n).active, completed |-> at(n).completed]
      BY <3>1
    <3> HIDE DEF at
    <3>3. seen = at(IF t.record.landed_slot = None THEN slot ELSE t.record.landed_slot)
      BY DEF at
    <3> QED
      BY <3>2, <3>3
  <2> HIDE DEF seenT, seen
  <2>5. CASE failed
    <3> DEFINE ord  == <<sig>>
               rec  == [s \in {sig} |-> FailedRecord(seen.active[s].record, "BundleFailure")]
               recT == [s \in {sig} |-> FailedRecord(seenT.record, "BundleFailure")]
    <3>1. ord \in Seq(Sigs) /\ Range(ord) = {sig} /\ DOMAIN ord = {1}
      BY DEF Range
    <3>2. "BundleFailure" \in FailureClass
      BY DEF FailureClass
    <3>3. recT[sig] = FailedRecord(seenT.record, "BundleFailure")
      OBVIOUS
    <3>4. rec = recT
      BY <2>2
    <3>5. OnTransaction(tr, sig, slot, failed) = Settle(seen, ord, rec)
      BY <1>2, <2>2, <2>5 DEF OnTransaction, Fail, seen
    <3> HIDE DEF rec, recT, ord
    <3>6. /\ recT[sig] \in Record
          /\ recT[sig].signature = sig
          /\ recT[sig].landed_slot = l
          /\ recT[sig].failure # None
      BY <2>3, <3>2, <3>3, FailedRecordType, FailedEndsAs
    <3>7. EndsAs(t, recT[sig], {Saw(sig, slot, failed)}, {})
      <4>1. CASE t.record.landed_slot = None
        BY <2>5, <3>6, <4>1, <2>1 DEF EndsAs, Follows, Saw
      <4>2. CASE t.record.landed_slot # None
        BY <3>6, <4>2 DEF EndsAs
      <4> QED
        BY <4>1, <4>2
    <3>8. Settle(seen, ord, rec) = Settle(tr, ord, recT)
      <4>1. Restrict(seen.active, DOMAIN seen.active \ Range(ord))
              = Restrict(tr.active, DOMAIN tr.active \ Range(ord))
        BY <2>2, <3>1 DEF Restrict
      <4> QED
        BY <2>2, <3>4, <4>1 DEF Settle
    <3>9. Moves(tr, Settle(tr, ord, recT), kept, {Saw(sig, slot, failed)}, {})
      <4>1. \A s \in Range(ord) :
              /\ recT[s] \in Record /\ recT[s].signature = s
              /\ EndsAs(tr.active[s], recT[s], {Saw(sig, slot, failed)}, {})
              /\ s \in kept => recT[s].failure = None
        BY <2>5, <3>1, <3>6, <3>7 DEF t
      <4>2. Range(ord) \subseteq DOMAIN tr.active
        BY <1>2, <3>1
      <4>3. \A i, j \in DOMAIN ord : ord[i] = ord[j] => i = j
        BY <3>1
      <4> QED
        BY <3>1, <4>1, <4>2, <4>3, SettleMoves, Zenon
    <3> QED
      BY <3>5, <3>8, <3>9
  <2>6. CASE ~ failed
    <3> DEFINE e     == Advance(seenT, Processed, slot)
               after == [seen EXCEPT !.active[sig] = e]
    <3>1. OnTransaction(tr, sig, slot, failed) = after
      BY <1>2, <2>2, <2>6 DEF OnTransaction, seen
    <3>2. Stays(t, e, {Saw(sig, slot, failed)}, {})
      <4>1. CASE t.stage = Submitted
        <5>1. t.record.landed_slot = None
          BY <2>1, <4>1 DEF Follows
        <5>2. /\ e.stage = Processed /\ e.record.landed_slot = slot
              /\ e.record.signature = sig /\ e.record.failure = None
          <6>1. e = [record |-> Push(seenT.record, Processed, slot), stage |-> Processed]
            BY <2>3, <4>1 DEF Advance, Order, Levels
          <6>2. /\ Push(seenT.record, Processed, slot).landed_slot = slot
                /\ Push(seenT.record, Processed, slot).signature = sig
                /\ Push(seenT.record, Processed, slot).failure = None
            BY <2>3, <5>1 DEF Push, Record
          <6> QED
            BY <6>1, <6>2
        <5> QED
          BY <2>1, <2>6, <4>1, <5>1, <5>2 DEF Stays, Follows, Saw
      <4>2. CASE t.stage # Submitted
        <5>1. e = seenT
          BY <2>1, <2>3, <4>2 DEF Advance, Order, Levels, Entry
        <5>2. l = t.record.landed_slot
          BY <2>1, <4>2 DEF Follows
        <5> QED
          BY <2>1, <2>3, <5>1, <5>2 DEF Stays, Follows
      <4> QED
        BY <4>1, <4>2
    <3>3. /\ DOMAIN after.active = DOMAIN tr.active
          /\ after.completed = tr.completed
          /\ after.active[sig] = e
          /\ \A s \in DOMAIN tr.active : s # sig => after.active[s] = tr.active[s]
      <4> HIDE DEF e
      <4> QED
        BY <1>2, <2>2
    <3> HIDE DEF e, after
    <3>4. \A s \in DOMAIN tr.active : Stays(tr.active[s], after.active[s], {Saw(sig, slot, failed)}, {})
      BY <3>2, <3>3 DEF Stays
    <3> QED
      BY <3>1, <3>3, <3>4, UpdateMoves
  <2> QED
    BY <2>5, <2>6
<1> QED
  BY <1>1, <1>2

(* A slot update confirms bundles in place, or completes them.             *)
LEMMA OnSlotCommitmentMoves ==
    ASSUME NEW tr, IsTracker(tr), Sound(tr),
           NEW slot \in Slots, NEW level \in Levels,
           NEW after \in OnSlotCommitment(tr, slot, level), NEW kept
    PROVE  Moves(tr, after, kept, {}, Vouched(slot, level))
<1> DEFINE mid == AdvanceAll(tr, slot, level)
           S   == ToAdvance(tr, slot, level)
<1>1. /\ IsTracker(mid)
      /\ DOMAIN mid.active = DOMAIN tr.active
      /\ mid.completed = tr.completed
      /\ \A s \in DOMAIN tr.active :
           mid.active[s] = IF s \in S
                           THEN Advance(tr.active[s], level, tr.active[s].record.landed_slot)
                           ELSE tr.active[s]
  <2>1. IsTracker(mid) /\ DOMAIN mid.active = DOMAIN tr.active
    BY AdvanceAllType
  <2>2. tr = [active |-> tr.active, completed |-> tr.completed]
    BY DEF IsTracker
  <2>3. mid.active = [s \in DOMAIN tr.active |->
                        IF s \in S
                        THEN Advance(tr.active[s], level, tr.active[s].record.landed_slot)
                        ELSE tr.active[s]]
        /\ mid.completed = tr.completed
    <3> HIDE DEF S
    <3> QED
      BY <2>2 DEF AdvanceAll, S
  <2> HIDE DEF mid, S
  <2> QED
    BY <2>1, <2>3
<1>2. S \in SUBSET DOMAIN tr.active /\ S \in SUBSET Sigs
  BY DEF ToAdvance, IsTracker
<1>3. \A s \in S :
        /\ tr.active[s].record \in Record
        /\ tr.active[s].record.signature = s
        /\ tr.active[s].record.failure = None
        /\ tr.active[s].record.landed_slot # None
        /\ tr.active[s].record.landed_slot \in Slots /\ tr.active[s].record.landed_slot <= slot
        /\ tr.active[s].stage \in {Processed, Confirmed} /\ tr.active[s].stage < level
        /\ mid.active[s].record = Push(tr.active[s].record, level, tr.active[s].record.landed_slot)
        /\ mid.active[s].stage = level
  <2> TAKE s \in S
  <2> DEFINE t == tr.active[s]
  <2>1. t \in Entry /\ Follows(t, s)
    BY <1>2 DEF IsTracker, Sound
  <2>2. /\ t.record.landed_slot # None /\ t.stage < level
        /\ t.record.landed_slot <= slot /\ t.record.landed_slot \in Slots
    BY <2>1 DEF ToAdvance, Order, Entry, Levels, Record, Opt
  <2>3. mid.active[s] = Advance(t, level, t.record.landed_slot)
    BY <1>1, <1>2
  <2> HIDE DEF t, mid
  <2> QED
    BY <2>1, <2>2, <2>3 DEF Follows, Entry, Advance, Order, Levels, t
<1> HIDE DEF mid, S
<1>4. CASE level # Finalized
  <2>1. after = mid
    BY <1>4 DEF OnSlotCommitment, mid
  <2>2. ASSUME NEW s \in DOMAIN tr.active PROVE Stays(tr.active[s], mid.active[s], {}, Vouched(slot, level))
    <3>1. CASE s \in S
      <4>1. tr.active[s].stage = Processed /\ level = Confirmed
        BY <1>3, <1>4, <3>1 DEF Levels
      <4> DEFINE pushed == Push(tr.active[s].record, level, tr.active[s].record.landed_slot)
      <4>2. /\ pushed.landed_slot = tr.active[s].record.landed_slot
            /\ pushed.signature = tr.active[s].record.signature
            /\ pushed.failure = tr.active[s].record.failure
        BY <1>3, <3>1 DEF Push, Record
      <4>3. /\ mid.active[s].stage = Confirmed
            /\ mid.active[s].record.landed_slot = tr.active[s].record.landed_slot
            /\ mid.active[s].record.signature = tr.active[s].record.signature
            /\ mid.active[s].record.failure = tr.active[s].record.failure
        BY <1>3, <3>1, <4>1, <4>2
      <4> QED
        BY <1>3, <3>1, <4>1, <4>3 DEF Stays, Vouched
    <3>2. CASE s \notin S
      BY <1>1, <3>2 DEF Stays
    <3> QED
      BY <3>1, <3>2
  <2> QED
    BY <1>1, <2>1, <2>2, UpdateMoves
<1>5. CASE level = Finalized
  <2>1. PICK ord \in Orders(S) : after = Settle(mid, ord, Records(mid))
    BY <1>5 DEF OnSlotCommitment, mid, S
  <2>2. /\ ord \in Seq(Sigs) /\ Range(ord) = S
        /\ \A i, j \in DOMAIN ord : ord[i] = ord[j] => i = j
    BY <1>2, OrdersType, SeqMonotonic
  <2>3. ASSUME NEW s \in S
        PROVE  /\ Records(mid)[s] \in Record
               /\ Records(mid)[s].signature = s
               /\ EndsAs(tr.active[s], Records(mid)[s], {}, Vouched(slot, level))
               /\ Records(mid)[s].failure = None
    <3>1. Records(mid)[s] = Push(tr.active[s].record, level, tr.active[s].record.landed_slot)
      <4>1. s \in DOMAIN mid.active
        BY <1>1, <1>2
      <4>2. Records(mid)[s] = mid.active[s].record
        BY <4>1 DEF Records
      <4> QED
        BY <1>3, <4>2
    <3>2. Push(tr.active[s].record, level, tr.active[s].record.landed_slot) \in Record
      BY <1>3, PushType DEF Record
    <3>3. /\ Records(mid)[s].signature = s
          /\ Records(mid)[s].landed_slot = tr.active[s].record.landed_slot
          /\ Records(mid)[s].failure = None
          /\ tr.active[s].record.landed_slot # None
      BY <1>3, <3>1 DEF Push, Record
    <3> QED
      BY <1>3, <1>5, <3>1, <3>2, <3>3 DEF EndsAs, Vouched
  <2>4. Settle(mid, ord, Records(mid)) = Settle(tr, ord, Records(mid))
    <3>1. Restrict(mid.active, DOMAIN mid.active \ Range(ord))
            = Restrict(tr.active, DOMAIN tr.active \ Range(ord))
      BY <1>1, <2>2 DEF Restrict
    <3> QED
      BY <1>1, <3>1 DEF Settle
  <2> QED
    BY <1>2, <2>1, <2>2, <2>3, <2>4, SettleMoves
<1> QED
  BY <1>4, <1>5

(* Expiry fails bundles that have not landed.                              *)
LEMMA ExpireMoves ==
    ASSUME NEW tr, IsTracker(tr), Sound(tr),
           NEW height \in Heights, NEW after \in ExpireUnlanded(tr, height)
    PROVE  Moves(tr, after, {}, {}, {})
<1> DEFINE rec == [s \in DOMAIN tr.active |-> FailedRecord(tr.active[s].record, "ExpiredBlockhash")]
           S   == Expired(tr, height)
<1>1. PICK ord \in Orders(S) : after = Settle(tr, ord, rec)
  BY DEF ExpireUnlanded
<1>2. S \in SUBSET DOMAIN tr.active /\ S \in SUBSET Sigs
  BY DEF Expired, IsTracker
<1> HIDE DEF S
<1>3. /\ ord \in Seq(Sigs) /\ Range(ord) = S
      /\ \A i, j \in DOMAIN ord : ord[i] = ord[j] => i = j
  BY <1>2, OrdersType, SeqMonotonic
<1>4. \A s \in S : rec[s] \in Record /\ rec[s].signature = s /\ EndsAs(tr.active[s], rec[s], {}, {})
  <2> TAKE s \in S
  <2>1. rec[s] = FailedRecord(tr.active[s].record, "ExpiredBlockhash")
    BY <1>2
  <2>2. tr.active[s].record \in Record /\ tr.active[s].record.signature = s
    BY <1>2 DEF Sound, Follows, IsTracker, Entry
  <2>3. "ExpiredBlockhash" \in FailureClass
    BY DEF FailureClass
  <2> HIDE DEF rec
  <2> QED
    BY <2>1, <2>2, <2>3, FailedRecordType, FailedEndsAs
<1> HIDE DEF rec
<1> QED
  BY <1>1, <1>2, <1>3, <1>4, SettleMoves

(* The end of the run succeeds what landed and fails what did not.         *)
LEMMA FlushMoves ==
    ASSUME NEW tr, IsTracker(tr), Sound(tr),
           NEW after \in FlushActive(tr)
    PROVE  Moves(tr, after, LandedIn(tr), {}, Slots)
<1> DEFINE S   == DOMAIN tr.active
           rec == [s \in S |->
                     LET r == tr.active[s].record
                     IN  IF r.landed_slot = None THEN FailedRecord(r, "Unknown") ELSE r]
<1>1. PICK ord \in Orders(S) : after = Settle(tr, ord, rec)
  BY DEF FlushActive
<1>2. S \in SUBSET Sigs
  BY DEF IsTracker
<1>3. /\ ord \in Seq(Sigs) /\ Range(ord) = S
      /\ \A i, j \in DOMAIN ord : ord[i] = ord[j] => i = j
  BY <1>2, OrdersType, SeqMonotonic
<1>4. \A s \in S :
        /\ rec[s] \in Record /\ rec[s].signature = s
        /\ EndsAs(tr.active[s], rec[s], {}, Slots)
        /\ s \in LandedIn(tr) => rec[s].failure = None
  <2> TAKE s \in S
  <2> DEFINE r == tr.active[s].record
  <2>1. rec[s] = IF r.landed_slot = None THEN FailedRecord(r, "Unknown") ELSE r
    OBVIOUS
  <2>2. r \in Record /\ r.signature = s /\ r.failure = None /\ (s \in LandedIn(tr) <=> r.landed_slot # None)
    BY DEF Sound, Follows, IsTracker, Entry, LandedIn
  <2>3. "Unknown" \in FailureClass
    BY DEF FailureClass
  <2> HIDE DEF rec
  <2>4. CASE r.landed_slot = None
    BY <2>1, <2>2, <2>3, <2>4, FailedRecordType, FailedEndsAs
  <2>5. CASE r.landed_slot # None
    BY <2>1, <2>2, <2>5 DEF EndsAs, Record, Opt
  <2> QED
    BY <2>4, <2>5
<1> HIDE DEF rec, S
<1>5. Range(ord) \subseteq DOMAIN tr.active
  BY <1>3 DEF S
<1>6. \A s \in Range(ord) :
        /\ rec[s] \in Record /\ rec[s].signature = s
        /\ EndsAs(tr.active[s], rec[s], {}, Slots)
        /\ s \in LandedIn(tr) => rec[s].failure = None
  BY <1>3, <1>4
<1>7. Moves(tr, Settle(tr, ord, rec), LandedIn(tr), {}, Slots)
  BY <1>3, <1>5, <1>6, SettleMoves
<1> QED
  BY <1>1, <1>7

(* Bundles that stay followed stay sound.                                  *)
LEMMA MovesSound ==
    ASSUME NEW tr, IsTracker(tr), Sound(tr), NEW after, NEW kept,
           NEW news \in SUBSET News, NEW vouched,
           Moves(tr, after, kept, news, vouched)
    PROVE  Sound(after)
<1>1. PICK m \in Seq(Record) : Appends(tr, after, m, kept, news, vouched)
  BY DEF Moves
<1>2. ASSUME NEW s \in DOMAIN after.active PROVE Follows(after.active[s], s)
  <2>1. s \in DOMAIN tr.active /\ Stays(tr.active[s], after.active[s], news, vouched)
    BY <1>1 DEF Appends
  <2>2. Follows(tr.active[s], s)
    BY <2>1 DEF Sound
  <2> QED
    BY <2>1, <2>2, SlotsAssumption DEF Follows, Stays, News, Saw
<1> QED
  BY <1>2 DEF Sound

-------------------------------------------------------------------------------
(* The records of a sequence, and of one after the other.                  *)
LEMMA ConcatIndex ==
    ASSUME NEW a \in Seq(Record), NEW b \in Seq(Record)
    PROVE  /\ a \o b \in Seq(Record)
           /\ Len(a) \in Nat /\ DOMAIN a = 1 .. Len(a)
           /\ Len(b) \in Nat /\ DOMAIN b = 1 .. Len(b)
           /\ Len(a \o b) = Len(a) + Len(b)
           /\ DOMAIN (a \o b) = 1 .. Len(a) + Len(b)
           /\ \A i \in DOMAIN a : (a \o b)[i] = a[i]
           /\ \A i \in DOMAIN b : (a \o b)[Len(a) + i] = b[i]
           /\ \A k \in 1 .. Len(a) + Len(b) :
                k \in DOMAIN a \/ (k - Len(a) \in DOMAIN b /\ (a \o b)[k] = b[k - Len(a)])
<1> DEFINE ab == a \o b
<1>1. /\ Len(a) \in Nat /\ DOMAIN a = 1 .. Len(a)
      /\ Len(b) \in Nat /\ DOMAIN b = 1 .. Len(b)
  BY LenProperties
<1>2. /\ ab \in Seq(Record) /\ Len(ab) = Len(a) + Len(b)
      /\ \A k \in 1 .. Len(a) + Len(b) : ab[k] = IF k <= Len(a) THEN a[k] ELSE b[k - Len(a)]
  BY ConcatProperties
<1>3. DOMAIN ab = 1 .. Len(a) + Len(b)
  BY <1>2, LenProperties
<1> HIDE DEF ab
<1>4. \A i \in DOMAIN b : ab[Len(a) + i] = b[i]
  <2> TAKE i \in DOMAIN b
  <2>1. /\ Len(a) + i \in 1 .. Len(a) + Len(b) /\ ~ (Len(a) + i <= Len(a))
        /\ (Len(a) + i) - Len(a) = i
    BY <1>1
  <2> QED
    BY <1>2, <2>1
<1>5. \A i \in DOMAIN a : ab[i] = a[i]
  BY <1>1, <1>2
<1>6. \A k \in 1 .. Len(a) + Len(b) : k \in DOMAIN a \/ (k - Len(a) \in DOMAIN b /\ ab[k] = b[k - Len(a)])
  BY <1>1, <1>2
<1> QED
  BY <1>1, <1>2, <1>3, <1>4, <1>5, <1>6 DEF ab

\* Records in the order of their attempts, one of each.
Numbered(s) == \A i \in DOMAIN s : s[i].signature = i

\* Of the first n attempts each has its record in pre or completed, in order;
\* the last may still be followed instead.
OneOpen(tr, pre, n) ==
    /\ Numbered(pre \o tr.completed)
    /\ \/ DOMAIN tr.active = {} /\ Len(pre \o tr.completed) = n
       \/ DOMAIN tr.active = {n} /\ Len(pre \o tr.completed) = n - 1

(* With one bundle followed at most, every step keeps the records in order. *)
LEMMA MovesOneOpen ==
    ASSUME NEW tr, IsTracker(tr), NEW after, NEW kept, NEW news, NEW vouched,
           Moves(tr, after, kept, news, vouched),
           NEW pre \in Seq(Record), NEW n \in Nat, OneOpen(tr, pre, n)
    PROVE  OneOpen(after, pre, n)
<1> DEFINE all == pre \o tr.completed
<1>1. PICK m \in Seq(Record) : Appends(tr, after, m, kept, news, vouched)
  BY DEF Moves
<1>2. all \in Seq(Record) /\ tr.completed \in Seq(Record)
  BY ConcatProperties DEF IsTracker
<1>3. pre \o after.completed = all \o m
  <2>1. after.completed = tr.completed \o m
    BY <1>1 DEF Appends
  <2>2. pre \o (tr.completed \o m) = (pre \o tr.completed) \o m
    BY <1>2, RecordsAssociate, Zenon
  <2> QED
    BY <2>1, <2>2
<1>4. Numbered(all) /\ (\/ DOMAIN tr.active = {} /\ Len(all) = n
                        \/ DOMAIN tr.active = {n} /\ Len(all) = n - 1)
  BY DEF OneOpen
<1> HIDE DEF all
<1>5. Len(m) \in Nat /\ DOMAIN m = 1 .. Len(m) /\ Len(all) \in Nat /\ DOMAIN all = 1 .. Len(all)
  BY <1>2, LenProperties
<1>6. CASE DOMAIN after.active = DOMAIN tr.active
  <2>1. DOMAIN m = {}
    BY <1>1, <1>6 DEF Appends
  <2>2. m = <<>>
    BY <1>5, <2>1, EmptySeq
  <2>3. all \o m = all
    BY <1>2, <2>2, ConcatEmptySeq
  <2> QED
    BY <1>3, <1>4, <1>6, <2>3 DEF OneOpen
<1>7. CASE DOMAIN after.active # DOMAIN tr.active
  <2>1. DOMAIN tr.active = {n} /\ Len(all) = n - 1 /\ DOMAIN after.active = {}
    <3>1. DOMAIN after.active \subseteq DOMAIN tr.active
      BY <1>1 DEF Appends
    <3> QED
      BY <1>4, <1>7, <3>1
  <2>2. PICK i \in DOMAIN m : m[i].signature = n
    BY <1>1, <2>1 DEF Appends
  <2>3. \A j \in DOMAIN m : m[j].signature = n
    BY <1>1, <2>1 DEF Appends
  <2>4. \A j \in DOMAIN m : i = j
    BY <1>1, <2>2, <2>3 DEF Appends
  <2>5. 1 \in DOMAIN m /\ Len(m) \in DOMAIN m
    BY <1>5, <2>2
  <2>6. Len(m) = 1 /\ m[1].signature = n
    BY <1>5, <2>2, <2>4, <2>5
  <2>7. Len(all \o m) = n
    <3>1. Len(all \o m) = Len(all) + Len(m)
      BY <1>2, ConcatProperties
    <3> QED
      BY <1>5, <2>1, <2>6, <3>1
  <2>8. ASSUME NEW k \in DOMAIN (all \o m) PROVE (all \o m)[k].signature = k
    <3>1. k \in 1 .. Len(all) + Len(m)
      BY <1>2, ConcatIndex
    <3>2. CASE k \in DOMAIN all
      BY <1>2, <1>4, <3>2, ConcatIndex DEF Numbered
    <3>3. CASE k - Len(all) \in DOMAIN m /\ (all \o m)[k] = m[k - Len(all)]
      BY <1>5, <2>1, <2>3, <2>6, <3>1, <3>3
    <3> QED
      BY <1>2, <3>1, <3>2, <3>3, ConcatIndex
  <2> QED
    BY <1>3, <2>1, <2>7, <2>8 DEF OneOpen, Numbered
<1> QED
  BY <1>6, <1>7

(* A record with a signature is followed, as submitted, and nothing else   *)
(* changes.                                                                *)
LEMMA TrackFollows ==
    ASSUME NEW tr, IsTracker(tr), Sound(tr), NEW sig \in Sigs, NEW lvbh \in Heights
    PROVE  LET after == Track(tr, NewRecord(sig, lvbh))
           IN  /\ IsTracker(after) /\ Sound(after)
               /\ after.completed = tr.completed
               /\ DOMAIN after.active = DOMAIN tr.active \cup {sig}
               /\ after.active[sig].stage = Submitted
               /\ after.active[sig].record.landed_slot = None
               /\ \A s \in DOMAIN tr.active \ {sig} : after.active[s] = tr.active[s]
<1> DEFINE after == Track(tr, NewRecord(sig, lvbh))
<1>1. NewRecord(sig, lvbh) \in Record /\ NewRecord(sig, lvbh).signature = sig /\ sig # None
  BY NewRecordType, SigsFinite DEF Opt, NewRecord
<1>2. IsTracker(after)
  BY <1>1, TrackType
<1>3. /\ after.completed = tr.completed
      /\ DOMAIN after.active = DOMAIN tr.active \cup {sig}
      /\ after.active[sig] = [record |-> Push(NewRecord(sig, lvbh), Submitted, None), stage |-> Submitted]
      /\ \A s \in DOMAIN tr.active \ {sig} : after.active[s] = tr.active[s]
  BY <1>1 DEF Track, IsTracker
<1>4. /\ Push(NewRecord(sig, lvbh), Submitted, None).signature = sig
      /\ Push(NewRecord(sig, lvbh), Submitted, None).landed_slot = None
      /\ Push(NewRecord(sig, lvbh), Submitted, None).failure = None
  BY DEF Push, NewRecord
<1> HIDE DEF after
<1>5. ASSUME NEW s \in DOMAIN after.active PROVE Follows(after.active[s], s)
  <2>1. CASE s = sig
    BY <1>3, <1>4, <2>1 DEF Follows
  <2>2. CASE s # sig
    BY <1>3, <2>2 DEF Sound
  <2> QED
    BY <2>1, <2>2
<1>6. Sound(after)
  BY <1>5 DEF Sound
<1>7. after.active[sig].stage = Submitted /\ after.active[sig].record.landed_slot = None
  BY <1>3, <1>4
<1> QED
  BY <1>2, <1>3, <1>6, <1>7 DEF after

(* The next attempt is the one that is open.                               *)
LEMMA TrackOneOpen ==
    ASSUME NEW tr, IsTracker(tr), Sound(tr), NEW pre \in Seq(Record), NEW n \in Nat,
           OneOpen(tr, pre, n), DOMAIN tr.active = {},
           n + 1 \in Sigs, NEW lvbh \in Heights
    PROVE  OneOpen(Track(tr, NewRecord(n + 1, lvbh)), pre, n + 1)
<1> DEFINE after == Track(tr, NewRecord(n + 1, lvbh))
<1>1. after.completed = tr.completed /\ DOMAIN after.active = {n + 1}
  BY TrackFollows
<1>2. Numbered(pre \o tr.completed) /\ Len(pre \o tr.completed) = n
  BY DEF OneOpen
<1> HIDE DEF after
<1>3. OneOpen(after, pre, n + 1)
  BY <1>1, <1>2 DEF OneOpen
<1> QED
  BY <1>3 DEF after

(* A bundle marked failed is followed no longer; a flush leaves none.      *)
LEMMA FailEnds ==
    ASSUME NEW tr, IsTracker(tr), NEW sig \in Sigs, NEW class \in FailureClass
    PROVE  DOMAIN Fail(tr, sig, class).active = DOMAIN tr.active \ {sig}
BY DEF Fail, Settle, Restrict, Range

LEMMA FlushEnds ==
    ASSUME NEW tr, IsTracker(tr), NEW after \in FlushActive(tr)
    PROVE  DOMAIN after.active = {}
<1>1. DOMAIN tr.active \in SUBSET Sigs
  BY DEF IsTracker
<1>2. PICK ord \in Orders(DOMAIN tr.active) : \E rec : after = Settle(tr, ord, rec)
  BY DEF FlushActive
<1>3. Range(ord) = DOMAIN tr.active
  BY <1>1, OrdersType
<1> QED
  BY <1>2, <1>3 DEF Settle, Restrict

(* What the executor is told of a bundle, when no signature recurs.        *)
LEMMA OutcomeOf ==
    ASSUME NEW tr, IsTracker(tr), NEW sig,
           \A i, j \in DOMAIN tr.completed :
               tr.completed[i].signature = tr.completed[j].signature => i = j,
           CompletedOutcome(tr, sig) # None
    PROVE  \E i \in DOMAIN tr.completed :
             LET rec == tr.completed[i]
             IN  /\ rec.signature = sig
                 /\ \/ /\ rec.failure = None /\ rec.landed_slot # None
                       /\ CompletedOutcome(tr, sig) = [failed |-> FALSE, slot |-> rec.landed_slot]
                    \/ \E class \in FailureClass :
                         CompletedOutcome(tr, sig) = [failed |-> TRUE, class |-> class]
<1> DEFINE hits == {i \in DOMAIN tr.completed : tr.completed[i].signature = sig}
           c    == CHOOSE i \in hits : \A j \in hits : i <= j
<1>1. hits # {}
  BY DEF CompletedOutcome
<1>2. PICK i \in hits : TRUE
  BY <1>1
<1>3. \A j \in hits : j = i
  OBVIOUS
<1>4. DOMAIN tr.completed \subseteq Nat
  BY LenProperties DEF IsTracker
<1>5. c = i
  BY <1>2, <1>3, <1>4
<1> DEFINE rec == tr.completed[i]
<1>6. rec \in Record /\ rec.signature = sig
  BY <1>2, ElementOfSeq, LenProperties DEF IsTracker
<1>7. CompletedOutcome(tr, sig) =
        CASE rec.failure # None -> [failed |-> TRUE, class |-> rec.failure]
          [] rec.failure = None /\ rec.landed_slot # None -> [failed |-> FALSE, slot |-> rec.landed_slot]
          [] OTHER -> [failed |-> TRUE, class |-> "Unknown"]
  BY <1>1, <1>5 DEF CompletedOutcome
<1> HIDE DEF hits, c
<1>8. rec.failure # None => rec.failure \in FailureClass
  BY <1>6 DEF Record, Opt
<1>9. "Unknown" \in FailureClass
  BY DEF FailureClass
<1> QED
  BY <1>2, <1>6, <1>7, <1>8, <1>9 DEF hits
-------------------------------------------------------------------------------
\* The last stage of a record's events.
LastStage(rec) == rec.events[Len(rec.events)].stage

\* A followed bundle is at the stage of its last event.
MarkedEntry(t) == t.record.events # <<>> /\ LastStage(t.record) = t.stage

\* A record closed without a failure ends with one of the stages.
EndsIn(rec, stages) == rec.failure = None => rec.events # <<>> /\ LastStage(rec) \in stages

\* The records from the n-th on are closed so.
EndIn(tr, n, stages) == \A i \in DOMAIN tr.completed : i > n => EndsIn(tr.completed[i], stages)

\* The records of c are those c2 begins with.
GrowsTo(c, c2) == \A i \in DOMAIN c : i \in DOMAIN c2 /\ c2[i] = c[i]

Marked(tr) ==
    /\ \A s \in DOMAIN tr.active : MarkedEntry(tr.active[s])
    /\ EndIn(tr, 0, Levels)

(* The pushed event is the last one.                                       *)
LEMMA PushLast ==
    ASSUME NEW rec \in Record, NEW stage \in {Submitted, Failed} \cup Levels, NEW slot \in Opt(Slots)
    PROVE  Push(rec, stage, slot).events # <<>> /\ LastStage(Push(rec, stage, slot)) = stage
<1> DEFINE e == [stage |-> stage, slot |-> slot]
           r == Push(rec, stage, slot)
<1>1. rec.events \in Seq(Event) /\ e \in Event
  BY DEF Record, Event
<1>2. r.events = Append(rec.events, e)
  BY DEF Push, Record
<1> HIDE DEF e, r
<1>3. /\ Len(Append(rec.events, e)) = Len(rec.events) + 1 /\ Len(rec.events) \in Nat
      /\ Append(rec.events, e)[Len(rec.events) + 1] = e
      /\ Append(rec.events, e) # <<>>
  BY <1>1, AppendProperties, LenProperties
<1>4. e.stage = stage
  BY DEF e
<1> QED
  BY <1>2, <1>3, <1>4 DEF LastStage, r

LEMMA AdvanceMarked ==
    ASSUME NEW t \in Entry, MarkedEntry(t), NEW stage \in Levels, NEW slot \in Opt(Slots)
    PROVE  MarkedEntry(Advance(t, stage, slot))
<1>1. t.record \in Record
  BY DEF Entry
<1>2. /\ Push(t.record, stage, slot).events # <<>>
      /\ LastStage(Push(t.record, stage, slot)) = stage
  BY <1>1, PushLast
<1> QED
  BY <1>2 DEF Advance, MarkedEntry

(* Bundles moved to completed with such records.                           *)
LEMMA SettleMarked ==
    ASSUME NEW tr, IsTracker(tr), NEW ord \in Seq(Sigs), NEW rec, NEW stages,
           \A s \in Range(ord) : rec[s] \in Record /\ EndsIn(rec[s], stages),
           \A s \in DOMAIN tr.active \ Range(ord) : MarkedEntry(tr.active[s])
    PROVE  LET after == Settle(tr, ord, rec)
           IN  /\ \A s \in DOMAIN after.active : MarkedEntry(after.active[s])
               /\ EndIn(after, Len(tr.completed), stages)
               /\ Len(after.completed) = Len(tr.completed) + Len(ord)
               /\ GrowsTo(tr.completed, after.completed)
<1> DEFINE m     == [i \in DOMAIN ord |-> rec[ord[i]]]
           after == Settle(tr, ord, rec)
<1>1. DOMAIN ord = 1 .. Len(ord) /\ Len(ord) \in Nat
  BY LenProperties
<1>2. DOMAIN m = DOMAIN ord /\ \A i \in DOMAIN ord : ord[i] \in Range(ord) /\ m[i] = rec[ord[i]]
  BY DEF Range
<1>3. m \in Seq(Record) /\ Len(m) = Len(ord)
  BY <1>1, <1>2
<1>4. /\ after.completed = tr.completed \o m
      /\ \A s \in DOMAIN after.active : s \in DOMAIN tr.active \ Range(ord) /\ after.active[s] = tr.active[s]
  BY DEF Settle, Restrict
<1>5. tr.completed \in Seq(Record)
  BY DEF IsTracker
<1> DEFINE c == tr.completed
<1> HIDE DEF m, after, c
<1>6. /\ Len(c) \in Nat /\ DOMAIN c = 1 .. Len(c) /\ Len(after.completed) = Len(c) + Len(m)
      /\ DOMAIN after.completed = 1 .. Len(c) + Len(m) /\ DOMAIN m = 1 .. Len(m)
      /\ \A i \in DOMAIN c : after.completed[i] = c[i]
      /\ \A k \in 1 .. Len(c) + Len(m) :
            k \in DOMAIN c \/ (k - Len(c) \in DOMAIN m /\ after.completed[k] = m[k - Len(c)])
  <2>1. c \in Seq(Record) /\ m \in Seq(Record) /\ after.completed = c \o m
    BY <1>3, <1>4, <1>5 DEF c
  <2> QED
    BY <2>1, ConcatIndex
<1>7. ASSUME NEW i \in DOMAIN after.completed, i > Len(c)
      PROVE  EndsIn(after.completed[i], stages)
  <2>1. i - Len(c) \in DOMAIN m /\ after.completed[i] = m[i - Len(c)]
    BY <1>6, <1>7
  <2> QED
    BY <1>2, <2>1
<1>8. EndIn(after, Len(c), stages) /\ GrowsTo(c, after.completed)
  BY <1>6, <1>7 DEF EndIn, GrowsTo
<1> QED
  BY <1>3, <1>4, <1>6, <1>8 DEF after, c

(* Earlier records ended so, and so do those that follow.                  *)
LEMMA EndSince ==
    ASSUME NEW tr, NEW after, IsTracker(after), Marked(tr),
           \A s \in DOMAIN after.active : MarkedEntry(after.active[s]),
           EndIn(after, Len(tr.completed), Levels), IsTracker(tr),
           GrowsTo(tr.completed, after.completed)
    PROVE  Marked(after)
<1>1. /\ DOMAIN tr.completed = 1 .. Len(tr.completed) /\ Len(tr.completed) \in Nat
      /\ DOMAIN after.completed = 1 .. Len(after.completed) /\ Len(after.completed) \in Nat
  BY LenProperties DEF IsTracker
<1>2. ASSUME NEW i \in DOMAIN after.completed PROVE EndsIn(after.completed[i], Levels)
  <2>1. CASE i > Len(tr.completed)
    BY <2>1 DEF EndIn
  <2>2. CASE ~ (i > Len(tr.completed))
    <3>1. i \in DOMAIN tr.completed /\ i > 0
      BY <1>1, <2>2
    <3> QED
      BY <3>1 DEF Marked, EndIn, GrowsTo
  <2> QED
    BY <2>1, <2>2
<1> QED
  BY <1>2 DEF Marked, EndIn

LEMMA TrackMarked ==
    ASSUME NEW tr, IsTracker(tr), Marked(tr), NEW sig \in Sigs, NEW lvbh \in Heights
    PROVE  Marked(Track(tr, NewRecord(sig, lvbh)))
<1> DEFINE after == Track(tr, NewRecord(sig, lvbh))
           new   == NewRecord(sig, lvbh)
<1>1. new \in Record /\ new.signature = sig /\ sig # None
  BY NewRecordType, SigsFinite DEF Opt, NewRecord
<1>2. /\ after.completed = tr.completed
      /\ DOMAIN after.active = DOMAIN tr.active \cup {sig}
      /\ after.active[sig] = [record |-> Push(new, Submitted, None), stage |-> Submitted]
      /\ \A s \in DOMAIN tr.active \ {sig} : after.active[s] = tr.active[s]
  BY <1>1 DEF Track, IsTracker
<1> HIDE DEF new, after
<1>3. Push(new, Submitted, None).events # <<>> /\ LastStage(Push(new, Submitted, None)) = Submitted
  BY <1>1, PushLast DEF Opt
<1>4. MarkedEntry(after.active[sig])
  BY <1>2, <1>3 DEF MarkedEntry
<1>5. \A s \in DOMAIN after.active : MarkedEntry(after.active[s])
  BY <1>2, <1>4 DEF Marked
<1>6. EndIn(after, 0, Levels)
  BY <1>2 DEF Marked, EndIn
<1> QED
  BY <1>5, <1>6 DEF Marked, after

(* A record with a failure ends in any stages.                             *)
LEMMA FailedEndsIn ==
    ASSUME NEW rec \in Record, NEW class \in FailureClass, NEW stages
    PROVE  EndsIn(FailedRecord(rec, class), stages)
<1>1. FailedRecord(rec, class).failure = class
  BY DEF FailedRecord, Push, Record
<1> QED
  BY <1>1, NoneIsNoClass DEF EndsIn

LEMMA FailMarked ==
    ASSUME NEW tr, IsTracker(tr), Marked(tr), NEW sig \in Sigs, NEW class \in FailureClass
    PROVE  Marked(Fail(tr, sig, class))
<1>1. CASE sig \notin DOMAIN tr.active
  BY <1>1 DEF Fail
<1>2. CASE sig \in DOMAIN tr.active
  <2> DEFINE rec   == [s \in {sig} |-> FailedRecord(tr.active[s].record, class)]
             ord   == <<sig>>
             after == Settle(tr, ord, rec)
  <2>1. ord \in Seq(Sigs) /\ Range(ord) = {sig}
    BY DEF Range
  <2>2. Fail(tr, sig, class) = after /\ IsTracker(Fail(tr, sig, class))
    BY <1>2, FailType DEF Fail
  <2>3. tr.active[sig].record \in Record
    BY <1>2 DEF IsTracker, Entry
  <2>4. rec[sig] \in Record /\ EndsIn(rec[sig], Levels)
    BY <2>3, FailedRecordType, FailedEndsIn
  <2> HIDE DEF ord, rec
  <2>5. /\ \A s \in DOMAIN after.active : MarkedEntry(after.active[s])
        /\ EndIn(after, Len(tr.completed), Levels)
        /\ GrowsTo(tr.completed, after.completed)
    BY <2>1, <2>4, SettleMarked DEF Marked
  <2> HIDE DEF after
  <2> QED
    BY <2>2, <2>5, EndSince
<1> QED
  BY <1>1, <1>2

LEMMA OnTransactionMarked ==
    ASSUME NEW tr, IsTracker(tr), Marked(tr), NEW sig \in Sigs, NEW slot \in Slots, NEW failed \in BOOLEAN
    PROVE  Marked(OnTransaction(tr, sig, slot, failed))
<1>1. CASE sig \notin DOMAIN tr.active
  BY <1>1 DEF OnTransaction
<1>2. CASE sig \in DOMAIN tr.active
  <2> DEFINE t    == tr.active[sig]
             u    == [t EXCEPT !.record.landed_slot = IF @ = None THEN slot ELSE @]
             seen == [tr EXCEPT !.active[sig].record.landed_slot = IF @ = None THEN slot ELSE @]
  <2>1. t \in Entry /\ MarkedEntry(t)
    BY <1>2 DEF IsTracker, Marked
  <2>2. u \in Entry /\ u.stage = t.stage /\ u.record.events = t.record.events
    <3> HIDE DEF t
    <3> QED
      BY <2>1 DEF Entry, Record, Opt
  <2>3. MarkedEntry(u)
    BY <2>1, <2>2 DEF MarkedEntry, LastStage
  <2>4. seen = [active |-> [tr.active EXCEPT ![sig] = u], completed |-> tr.completed]
    BY <1>2 DEF IsTracker
  <2> HIDE DEF u, seen
  <2>5. IsTracker(seen) /\ Marked(seen) /\ seen.active[sig] = u
    BY <1>2, <2>2, <2>3, <2>4 DEF IsTracker, Marked, EndIn
  <2>6. CASE failed
    <3>1. OnTransaction(tr, sig, slot, failed) = Fail(seen, sig, "BundleFailure")
      BY <1>2, <2>6 DEF OnTransaction, seen
    <3>2. "BundleFailure" \in FailureClass
      BY DEF FailureClass
    <3> QED
      BY <2>5, <3>1, <3>2, FailMarked
  <2>7. CASE ~ failed
    <3> DEFINE e == Advance(u, Processed, slot)
    <3>1. OnTransaction(tr, sig, slot, failed) = [seen EXCEPT !.active[sig] = e]
      BY <1>2, <2>5, <2>7 DEF OnTransaction, seen
    <3>2. MarkedEntry(e)
      BY <2>2, <2>3, AdvanceMarked DEF Levels, Opt
    <3> HIDE DEF e
    <3>3. /\ DOMAIN [seen EXCEPT !.active[sig] = e].active = DOMAIN seen.active
          /\ [seen EXCEPT !.active[sig] = e].completed = seen.completed
          /\ \A s \in DOMAIN seen.active :
                [seen EXCEPT !.active[sig] = e].active[s] = IF s = sig THEN e ELSE seen.active[s]
      BY <2>4
    <3> QED
      BY <2>5, <3>1, <3>2, <3>3 DEF Marked, EndIn
  <2> QED
    BY <2>6, <2>7
<1> QED
  BY <1>1, <1>2

LEMMA AdvanceAllMarked ==
    ASSUME NEW tr, IsTracker(tr), Marked(tr), NEW slot \in Slots, NEW level \in Levels
    PROVE  LET mid == AdvanceAll(tr, slot, level)
           IN  /\ mid.completed = tr.completed
               /\ \A s \in DOMAIN mid.active : MarkedEntry(mid.active[s])
               /\ \A s \in ToAdvance(tr, slot, level) : mid.active[s].stage = level
<1> DEFINE mid == AdvanceAll(tr, slot, level)
           S   == ToAdvance(tr, slot, level)
<1>1. tr = [active |-> tr.active, completed |-> tr.completed]
  BY DEF IsTracker
<1>2. /\ mid.completed = tr.completed /\ DOMAIN mid.active = DOMAIN tr.active
      /\ \A s \in DOMAIN tr.active :
           mid.active[s] = IF s \in S
                           THEN Advance(tr.active[s], level, tr.active[s].record.landed_slot)
                           ELSE tr.active[s]
  <2> HIDE DEF S
  <2> QED
    BY <1>1 DEF AdvanceAll, S
<1> HIDE DEF mid
<1>3. ASSUME NEW s \in DOMAIN tr.active
      PROVE  /\ MarkedEntry(mid.active[s])
             /\ s \in S => mid.active[s].stage = level
  <2>1. /\ tr.active[s] \in Entry /\ MarkedEntry(tr.active[s])
        /\ tr.active[s].record.landed_slot \in Opt(Slots)
    BY DEF IsTracker, Marked, Entry, Record
  <2>2. MarkedEntry(Advance(tr.active[s], level, tr.active[s].record.landed_slot))
    BY <2>1, AdvanceMarked
  <2>3. s \in S => ~ (Order[level] <= Order[tr.active[s].stage])
    BY <2>1 DEF ToAdvance, Order, Entry, Levels
  <2> HIDE DEF S
  <2> QED
    BY <1>2, <2>1, <2>2, <2>3 DEF Advance
<1>4. S \subseteq DOMAIN tr.active
  BY DEF ToAdvance
<1> QED
  BY <1>2, <1>3, <1>4 DEF mid

(* A slot update files only finalized records.                             *)
LEMMA OnSlotCommitmentFiles ==
    ASSUME NEW tr, IsTracker(tr), Marked(tr), NEW slot \in Slots, NEW level \in Levels,
           NEW after \in OnSlotCommitment(tr, slot, level)
    PROVE  /\ \A s \in DOMAIN after.active : MarkedEntry(after.active[s])
           /\ EndIn(after, Len(tr.completed), {Finalized})
           /\ GrowsTo(tr.completed, after.completed)
<1> DEFINE mid == AdvanceAll(tr, slot, level)
           S   == ToAdvance(tr, slot, level)
<1>1. /\ IsTracker(mid) /\ DOMAIN mid.active = DOMAIN tr.active /\ mid.completed = tr.completed
      /\ \A s \in DOMAIN mid.active : MarkedEntry(mid.active[s])
      /\ \A s \in S : mid.active[s].stage = level
  BY AdvanceAllType, AdvanceAllMarked
<1>2. S \in SUBSET DOMAIN tr.active /\ S \in SUBSET Sigs
  BY DEF ToAdvance, IsTracker
<1> HIDE DEF mid, S
<1>3. CASE level # Finalized
  <2>1. after = mid
    BY <1>3 DEF OnSlotCommitment, mid
  <2>2. DOMAIN tr.completed = 1 .. Len(tr.completed) /\ Len(tr.completed) \in Nat
    BY LenProperties DEF IsTracker
  <2> QED
    BY <1>1, <2>1, <2>2 DEF EndIn, GrowsTo
<1>4. CASE level = Finalized
  <2>1. PICK ord \in Orders(S) : after = Settle(mid, ord, Records(mid))
    BY <1>4 DEF OnSlotCommitment, mid, S
  <2>2. ord \in Seq(Sigs) /\ Range(ord) = S
    BY <1>2, OrdersType, SeqMonotonic
  <2>3. ASSUME NEW s \in S PROVE Records(mid)[s] \in Record /\ EndsIn(Records(mid)[s], {Finalized})
    <3>1. s \in DOMAIN mid.active /\ Records(mid)[s] = mid.active[s].record
      BY <1>1, <1>2 DEF Records
    <3>2. mid.active[s] \in Entry /\ MarkedEntry(mid.active[s]) /\ mid.active[s].stage = Finalized
      BY <1>1, <1>4, <3>1 DEF IsTracker
    <3> QED
      BY <3>1, <3>2 DEF Entry, MarkedEntry, EndsIn
  <2> DEFINE rec == Records(mid)
  <2>4. /\ \A s \in Range(ord) : rec[s] \in Record /\ EndsIn(rec[s], {Finalized})
        /\ \A s \in DOMAIN mid.active \ Range(ord) : MarkedEntry(mid.active[s])
    BY <1>1, <2>2, <2>3
  <2> HIDE DEF rec
  <2>5. LET end == Settle(mid, ord, rec)
        IN  /\ \A s \in DOMAIN end.active : MarkedEntry(end.active[s])
            /\ EndIn(end, Len(mid.completed), {Finalized})
            /\ GrowsTo(mid.completed, end.completed)
    BY <1>1, <2>2, <2>4, SettleMarked
  <2> QED
    BY <1>1, <2>1, <2>5 DEF rec
<1> QED
  BY <1>3, <1>4

LEMMA OnSlotCommitmentMarked ==
    ASSUME NEW tr, IsTracker(tr), Marked(tr), NEW slot \in Slots, NEW level \in Levels,
           NEW after \in OnSlotCommitment(tr, slot, level)
    PROVE  Marked(after)
<1>1. /\ \A s \in DOMAIN after.active : MarkedEntry(after.active[s])
      /\ EndIn(after, Len(tr.completed), {Finalized})
      /\ GrowsTo(tr.completed, after.completed)
      /\ IsTracker(after)
  BY OnSlotCommitmentFiles, OnSlotCommitmentType
<1>2. EndIn(after, Len(tr.completed), Levels)
  BY <1>1 DEF EndIn, EndsIn, Levels
<1> QED
  BY <1>1, <1>2, EndSince

(* The flush closes as it stands only what is past Submitted.              *)
LEMMA FlushMarked ==
    ASSUME NEW tr, IsTracker(tr), Sound(tr), Marked(tr), NEW after \in FlushActive(tr)
    PROVE  Marked(after)
<1> DEFINE S   == DOMAIN tr.active
           rec == [s \in S |->
                     LET r == tr.active[s].record
                     IN  IF r.landed_slot = None THEN FailedRecord(r, "Unknown") ELSE r]
<1>1. PICK ord \in Orders(S) : after = Settle(tr, ord, rec)
  BY DEF FlushActive
<1>2. S \in SUBSET Sigs
  BY DEF IsTracker
<1>3. ord \in Seq(Sigs) /\ Range(ord) = S
  BY <1>2, OrdersType, SeqMonotonic
<1>4. ASSUME NEW s \in S PROVE rec[s] \in Record /\ EndsIn(rec[s], Levels)
  <2> DEFINE r == tr.active[s].record
  <2>1. /\ tr.active[s] \in Entry /\ r \in Record /\ MarkedEntry(tr.active[s])
        /\ (r.landed_slot = None <=> tr.active[s].stage = Submitted)
    BY DEF IsTracker, Sound, Follows, Marked, Entry
  <2>2. rec[s] = IF r.landed_slot = None THEN FailedRecord(r, "Unknown") ELSE r
    OBVIOUS
  <2> HIDE DEF rec
  <2>3. CASE r.landed_slot = None
    <3>1. "Unknown" \in FailureClass
      BY DEF FailureClass
    <3> QED
      BY <2>1, <2>2, <2>3, <3>1, FailedRecordType, FailedEndsIn
  <2>4. CASE r.landed_slot # None
    <3>1. tr.active[s].stage \in Levels
      BY <2>1, <2>4 DEF Entry
    <3> QED
      BY <2>1, <2>2, <2>4, <3>1 DEF EndsIn, MarkedEntry
  <2> QED
    BY <2>3, <2>4
<1> HIDE DEF rec
<1>5. /\ \A s \in DOMAIN after.active : MarkedEntry(after.active[s])
      /\ EndIn(after, Len(tr.completed), Levels)
      /\ GrowsTo(tr.completed, after.completed)
  BY <1>1, <1>3, <1>4, SettleMarked
<1> QED
  BY <1>5, FlushActiveType, EndSince

(* What grows goes on growing after what was there before.                 *)
LEMMA ConcatGrows ==
    ASSUME NEW pre \in Seq(Record), NEW c \in Seq(Record), NEW c2 \in Seq(Record), GrowsTo(c, c2)
    PROVE  GrowsTo(pre \o c, pre \o c2)
<1>1. /\ Len(pre) \in Nat /\ DOMAIN pre = 1 .. Len(pre)
      /\ Len(c) \in Nat /\ DOMAIN c = 1 .. Len(c)
      /\ DOMAIN (pre \o c) = 1 .. Len(pre) + Len(c)
      /\ \A i \in DOMAIN pre : (pre \o c)[i] = pre[i]
      /\ \A k \in 1 .. Len(pre) + Len(c) :
            k \in DOMAIN pre \/ (k - Len(pre) \in DOMAIN c /\ (pre \o c)[k] = c[k - Len(pre)])
  BY ConcatIndex
<1>2. /\ Len(c2) \in Nat /\ DOMAIN c2 = 1 .. Len(c2)
      /\ DOMAIN (pre \o c2) = 1 .. Len(pre) + Len(c2)
      /\ \A i \in DOMAIN pre : (pre \o c2)[i] = pre[i]
      /\ \A i \in DOMAIN c2 : (pre \o c2)[Len(pre) + i] = c2[i]
  BY ConcatIndex
<1> DEFINE x == pre \o c
           y == pre \o c2
<1> HIDE DEF x, y
<1>3. ASSUME NEW k \in DOMAIN x PROVE k \in DOMAIN y /\ y[k] = x[k]
  <2>0. k \in 1 .. Len(pre) + Len(c)
    BY <1>1 DEF x
  <2>1. CASE k \in DOMAIN pre
    BY <1>1, <1>2, <2>1 DEF x, y
  <2>2. CASE k - Len(pre) \in DOMAIN c /\ x[k] = c[k - Len(pre)]
    <3> DEFINE j == k - Len(pre)
    <3>1. j \in DOMAIN c2 /\ c2[j] = c[j] /\ x[k] = c[j]
      BY <2>2 DEF GrowsTo
    <3>2. Len(pre) + j = k /\ k \in 1 .. Len(pre) + Len(c2)
      BY <1>1, <1>2, <2>0, <3>1
    <3> HIDE DEF j
    <3>3. y[Len(pre) + j] = c2[j]
      BY <1>2, <3>1 DEF y
    <3> QED
      BY <1>2, <3>1, <3>2, <3>3 DEF y
  <2> QED
    BY <1>1, <2>0, <2>1, <2>2 DEF x
<1> QED
  BY <1>3 DEF GrowsTo, x, y

(* No step takes a completed record back.                                  *)
LEMMA MovesKeepRecords ==
    ASSUME NEW tr, IsTracker(tr), NEW after, NEW kept, NEW news, NEW vouched,
           Moves(tr, after, kept, news, vouched)
    PROVE  GrowsTo(tr.completed, after.completed)
<1>1. PICK m \in Seq(Record) : after.completed = tr.completed \o m
  BY DEF Moves, Appends
<1>2. tr.completed \in Seq(Record)
  BY DEF IsTracker
<1> DEFINE c == tr.completed
<1> HIDE DEF c
<1>3. GrowsTo(c, c \o m)
  <2>1. /\ DOMAIN c = 1 .. Len(c) /\ Len(c) \in Nat /\ Len(m) \in Nat
        /\ DOMAIN (c \o m) = 1 .. Len(c) + Len(m)
        /\ \A i \in DOMAIN c : (c \o m)[i] = c[i]
    BY <1>2, ConcatIndex DEF c
  <2> QED
    BY <2>1 DEF GrowsTo
<1> QED
  BY <1>1, <1>3 DEF c
===============================================================================
