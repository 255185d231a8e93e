--------------------------- MODULE SubmissionProofs ----------------------------
(***************************************************************************)
(* What one transaction keeps, for every retry budget, length of chain,    *)
(* timeout and number of abandoned slots: its types, the order of its log, *)
(* an agent consulted with nothing in flight, successes that are on chain  *)
(* and stay successes, and one lifecycle for each attempt.                 *)
(***************************************************************************)
EXTENDS Submission, TrackerOpsProofs

USE DEF Submitted, Processed, Confirmed, Finalized, Failed

Outcomes == {LandedAt(n) : n \in Slots} \cup {FailedWith(c) : c \in FailureClass}

\* Between two attempts, or past the flush: nothing is followed.
Idle == {"decide", "sending", "drain", "end", "error"}

\* Within submit_live: there is an attempt.
Attempting == {"sending", "sendFailed", "outcome", "progress", "jito", "timeout"}

Types ==
    /\ IsTracker(tracker) /\ Sound(tracker)
    /\ pc \in Idle \cup Attempting \cup {"flush"}
    /\ attempt \in 0 .. MaxRetries
    /\ blockhash \in Heights
    /\ outcome \in [Sigs -> {None} \cup Outcomes]
    /\ log \in Seq(Record)
    /\ answer \in {None, "other", "failed"}
    /\ finalized \in Nat /\ confirmed \in Nat /\ head \in Slots
    /\ finalized <= confirmed /\ confirmed <= head
    /\ abandoned \subseteq Slots

\* However long a call lasts, it began after the receipt.
Timers == elapsed \in Nat /\ sinceJito \in 0 .. elapsed

\* The attempts whose record has been opened.
Recorded == IF pc = "sending" THEN attempt - 1 ELSE attempt

InOrder ==
    /\ OneOpen(tracker, log, Recorded)
    /\ pc \in Idle => DOMAIN tracker.active = {}
    /\ pc \in Attempting => attempt \in Sigs
    /\ pc # "end" => log = <<>>
    /\ pc = "end" => tracker.completed = <<>>

Ordered == Types /\ InOrder

LEMMA OrderInit == Init => Ordered /\ Timers
<1> SUFFICES ASSUME Init PROVE Ordered /\ Timers
  OBVIOUS
<1>1. <<>> \in Seq(Record) /\ DOMAIN (<<>>) = {} /\ Len(<<>>) = 0 /\ <<>> \o <<>> = <<>>
  BY EmptySeq, ConcatEmptySeq
<1>2. IsTracker(tracker) /\ Sound(tracker) /\ DOMAIN tracker.active = {} /\ tracker.completed = <<>>
  BY <1>1 DEF Init, EmptyTracker, IsTracker, Sound
<1>3. OneOpen(tracker, <<>>, 0)
  BY <1>1, <1>2 DEF OneOpen, Numbered
<1>4. 1 \in Slots /\ 1 + Validity \in Heights /\ 0 \in 0 .. MaxRetries
  BY ChainAssumption, BudgetAssumption
<1>5. Types
  BY <1>1, <1>2, <1>4 DEF Init, Types, Idle, Attempting
<1>6. InOrder
  BY <1>2, <1>3 DEF Init, InOrder, Idle, Attempting, Recorded
<1> QED
  BY <1>5, <1>6, TimingAssumption DEF Init, Ordered, Timers

(* The tracker after bundles have moved.                                   *)
LEMMA MovesOrder ==
    ASSUME Ordered, IsTracker(tracker'), NEW kept, NEW news \in SUBSET News, NEW vouched,
           Moves(tracker, tracker', kept, news, vouched)
    PROVE  /\ Sound(tracker')
           /\ OneOpen(tracker', log, Recorded)
           /\ DOMAIN tracker'.active \subseteq DOMAIN tracker.active
<1>1. IsTracker(tracker) /\ Sound(tracker) /\ log \in Seq(Record) /\ OneOpen(tracker, log, Recorded)
  BY DEF Ordered, Types, InOrder
<1>2. Recorded \in Nat
  BY BudgetAssumption DEF Ordered, Types, InOrder, Recorded, Attempting
<1>3. Sound(tracker')
  BY <1>1, MovesSound
<1>4. OneOpen(tracker', log, Recorded)
  BY <1>1, <1>2, MovesOneOpen
<1>5. DOMAIN tracker'.active \subseteq DOMAIN tracker.active
  BY DEF Moves, Appends
<1> QED
  BY <1>3, <1>4, <1>5

(* At most the current attempt is followed, and while it is, no record of  *)
(* it is completed.                                                        *)
LEMMA OneFollowed ==
    ASSUME Ordered, pc # "sending"
    PROVE  /\ DOMAIN tracker.active \subseteq {attempt}
           /\ pc # "end" => \A i \in DOMAIN tracker.completed :
                 /\ tracker.completed[i].signature = i
                 /\ i = attempt => DOMAIN tracker.active = {}
<1>1. /\ OneOpen(tracker, log, attempt) /\ tracker.completed \in Seq(Record)
      /\ attempt \in Nat /\ log \in Seq(Record)
      /\ pc # "end" => log = <<>>
  BY DEF Ordered, Types, InOrder, Recorded, IsTracker
<1>2. pc # "end" => log \o tracker.completed = tracker.completed
  BY <1>1, ConcatEmptySeq
<1>3. DOMAIN tracker.completed = 1 .. Len(tracker.completed) /\ Len(tracker.completed) \in Nat
  BY <1>1, LenProperties
<1> QED
  BY <1>1, <1>2, <1>3 DEF OneOpen, Numbered

-------------------------------------------------------------------------------
(* The steps of the executor.                                              *)
LEMMA DecideOrder ==
    Ordered /\ (Decide(TRUE) \/ Decide(FALSE) \/ GiveUp \/ AgentError) => Ordered'
<1>1. ASSUME Ordered, NEW refresh \in BOOLEAN, Decide(refresh) PROVE Ordered'
  <2>1. /\ pc = "decide" /\ pc' = "sending" /\ attempt' = attempt + 1
        /\ UNCHANGED <<tracker, outcome, log, answer, head, confirmed, finalized, abandoned>>
        /\ attempt = 0 \/ attempt < MaxRetries
        /\ blockhash' \in {blockhash, head + Validity}
    BY <1>1 DEF Decide, chainVars
  <2>2. attempt' \in Sigs /\ attempt' \in 0 .. MaxRetries /\ attempt' - 1 = attempt
    BY <1>1, <2>1, BudgetAssumption DEF Ordered, Types
  <2>3. blockhash' \in Heights
    BY <1>1, <2>1, ChainAssumption DEF Ordered, Types
  <2>4. Types'
    BY <1>1, <2>1, <2>2, <2>3 DEF Ordered, Types, Idle, Attempting
  <2>5. Recorded' = Recorded
    BY <2>1, <2>2 DEF Recorded
  <2>6. InOrder'
    BY <1>1, <2>1, <2>2, <2>5 DEF Ordered, InOrder, Idle, Attempting
  <2> QED
    BY <2>4, <2>6 DEF Ordered
<1>2. ASSUME Ordered, GiveUp \/ AgentError PROVE Ordered'
  <2>1. /\ pc = "decide" /\ pc' \in {"flush", "error"}
        /\ UNCHANGED <<tracker, attempt, blockhash, outcome, log, answer,
                       head, confirmed, finalized, abandoned>>
    BY <1>2 DEF GiveUp, AgentError, chainVars
  <2>2. Types'
    BY <1>2, <2>1 DEF Ordered, Types, Idle, Attempting
  <2>3. InOrder'
    BY <1>2, <2>1 DEF Ordered, InOrder, Idle, Attempting, Recorded
  <2> QED
    BY <2>2, <2>3 DEF Ordered
<1> QED
  BY <1>1, <1>2

LEMMA SendOrder == Ordered /\ (SendOk \/ SendErr) => Ordered'
<1> SUFFICES ASSUME Ordered, SendOk \/ SendErr PROVE Ordered'
  OBVIOUS
<1>1. /\ pc = "sending" /\ pc' \in {"outcome", "sendFailed"}
      /\ tracker' = Track(tracker, NewRecord(attempt, blockhash))
      /\ UNCHANGED <<attempt, blockhash, outcome, log, answer, head, confirmed, finalized, abandoned>>
  BY DEF SendOk, SendErr, chainVars
<1>2. /\ IsTracker(tracker) /\ Sound(tracker) /\ log \in Seq(Record) /\ log = <<>>
      /\ attempt \in Sigs /\ blockhash \in Heights
      /\ DOMAIN tracker.active = {}
      /\ OneOpen(tracker, log, attempt - 1)
  BY <1>1 DEF Ordered, Types, InOrder, Idle, Attempting, Recorded
<1>3. attempt - 1 \in Nat /\ (attempt - 1) + 1 = attempt
  BY <1>2, BudgetAssumption
<1>4. IsTracker(tracker') /\ Sound(tracker')
  BY <1>1, <1>2, TrackFollows
<1>5. OneOpen(tracker', log, attempt)
  <2> DEFINE n == attempt - 1
  <2>1. n \in Nat /\ n + 1 = attempt /\ OneOpen(tracker, log, n) /\ n + 1 \in Sigs
    BY <1>2, <1>3
  <2> HIDE DEF n
  <2>2. OneOpen(Track(tracker, NewRecord(n + 1, blockhash)), log, n + 1)
    BY <1>2, <2>1, TrackOneOpen
  <2> QED
    BY <1>1, <2>1, <2>2
<1>6. Types'
  BY <1>1, <1>4 DEF Ordered, Types, Idle, Attempting
<1>7. InOrder'
  BY <1>1, <1>2, <1>5 DEF InOrder, Idle, Attempting, Recorded
<1> QED
  BY <1>6, <1>7 DEF Ordered

(* submit_live returns a failure.                                          *)
LEMMA CloseOrder ==
    ASSUME Ordered, NEW class \in FailureClass, Close(class), pc \in Attempting \ {"sending"},
           answer' \in {None, answer},
           UNCHANGED <<attempt, blockhash, log, chainVars>>
    PROVE  Ordered'
<1>1. /\ tracker' = Fail(tracker, attempt, class)
      /\ outcome' = [outcome EXCEPT ![attempt] = FailedWith(class)]
      /\ pc' = "decide"
      /\ UNCHANGED <<attempt, blockhash, log, head, confirmed, finalized, abandoned>>
  BY DEF Close, Return, FailedWith, chainVars
<1>2. IsTracker(tracker) /\ Sound(tracker) /\ attempt \in Sigs
  BY DEF Ordered, Types, InOrder
<1>3. IsTracker(tracker') /\ Moves(tracker, tracker', {}, {}, {})
  BY <1>1, <1>2, FailType, FailMoves
<1>4. Sound(tracker') /\ OneOpen(tracker', log, Recorded)
  <2>1. {} \in SUBSET News
    OBVIOUS
  <2> QED
    BY <1>3, <2>1, MovesOrder
<1>5. DOMAIN tracker'.active = {}
  BY <1>1, <1>2, FailEnds, OneFollowed
<1>6. Types'
  BY <1>1, <1>3, <1>4 DEF Ordered, Types, Idle, Attempting, Outcomes
<1>7. InOrder'
  BY <1>1, <1>4, <1>5 DEF Ordered, InOrder, Idle, Attempting, Recorded
<1> QED
  BY <1>6, <1>7 DEF Ordered

(* The executor looks at its bundle.                                       *)
LEMMA CheckOutcomeOrder == Ordered /\ CheckOutcome => Ordered'
<1> SUFFICES ASSUME Ordered, CheckOutcome PROVE Ordered'
  OBVIOUS
<1> DEFINE done == CompletedOutcome(tracker, attempt)
<1>1. /\ pc = "outcome" /\ attempt \in Sigs
      /\ UNCHANGED <<tracker, attempt, blockhash, log, answer, head, confirmed, finalized, abandoned>>
  BY DEF CheckOutcome, chainVars, Ordered, InOrder, Attempting
<1>2. CASE done = None
  <2>1. pc' = "progress" /\ outcome' = outcome
    BY <1>2 DEF CheckOutcome
  <2> QED
    BY <1>1, <2>1 DEF Ordered, Types, InOrder, Idle, Attempting, Recorded
<1>3. CASE done # None
  <2>1. \A i \in DOMAIN tracker.completed :
          tracker.completed[i].signature = i /\ (i = attempt => DOMAIN tracker.active = {})
    BY <1>1, OneFollowed
  <2>2. IsTracker(tracker)
    BY DEF Ordered, Types
  <2>3. \E i \in DOMAIN tracker.completed :
          LET rec == tracker.completed[i]
          IN  /\ rec.signature = attempt
              /\ \/ /\ rec.failure = None /\ rec.landed_slot # None
                    /\ done = [failed |-> FALSE, slot |-> rec.landed_slot]
                 \/ \E class \in FailureClass : done = [failed |-> TRUE, class |-> class]
    BY <1>3, <2>1, <2>2, OutcomeOf
  <2>4. PICK i \in DOMAIN tracker.completed :
          /\ tracker.completed[i].signature = attempt
          /\ \/ /\ tracker.completed[i].failure = None /\ tracker.completed[i].landed_slot # None
                /\ done = [failed |-> FALSE, slot |-> tracker.completed[i].landed_slot]
             \/ \E class \in FailureClass : done = [failed |-> TRUE, class |-> class]
    BY <2>3
  <2>5. DOMAIN tracker.active = {}
    BY <2>1, <2>4
  <2>6. tracker.completed[i].landed_slot \in Opt(Slots)
    <3>1. tracker.completed \in Seq(Record)
      BY <2>2 DEF IsTracker
    <3>2. tracker.completed[i] \in Record
      BY <2>4, <3>1, ElementOfSeq, LenProperties
    <3> QED
      BY <3>2 DEF Record
  <2> DEFINE result == IF done.failed THEN FailedWith(done.class) ELSE LandedAt(done.slot)
  <2>7. /\ outcome' = [outcome EXCEPT ![attempt] = result]
        /\ pc' = IF result.landed THEN "flush" ELSE "decide"
    BY <1>3 DEF CheckOutcome, Return
  <2> HIDE DEF done
  <2>8. result \in Outcomes
    <3>1. CASE \E class \in FailureClass : done = [failed |-> TRUE, class |-> class]
      BY <3>1 DEF Outcomes
    <3>2. CASE /\ tracker.completed[i].landed_slot # None
               /\ done = [failed |-> FALSE, slot |-> tracker.completed[i].landed_slot]
      <4>1. done.failed = FALSE /\ done.slot \in Slots
        BY <2>6, <3>2 DEF Opt
      <4> QED
        BY <4>1 DEF Outcomes
    <3> QED
      BY <2>4, <3>1, <3>2
  <2> HIDE DEF result
  <2>9. Types'
    BY <1>1, <2>7, <2>8 DEF Ordered, Types, Idle, Attempting
  <2>10. InOrder'
    BY <1>1, <2>5, <2>7 DEF Ordered, InOrder, Idle, Attempting, Recorded
  <2> QED
    BY <2>9, <2>10 DEF Ordered
<1> QED
  BY <1>2, <1>3

(* The other looks, and the wait.                                          *)
LEMMA LookOrder ==
    ASSUME Ordered, CheckProgress \/ JitoReply \/ CheckTimeout \/ CloseUnsent
    PROVE  Ordered'
<1>1. CASE CheckProgress
  <2> DEFINE p == ActiveProgress(tracker, attempt)
  <2>1. /\ pc = "progress" /\ attempt \in Sigs
        /\ UNCHANGED <<tracker, attempt, blockhash, log, answer, head, confirmed, finalized, abandoned>>
    BY <1>1 DEF CheckProgress, chainVars, Ordered, InOrder, Attempting
  <2>2. CASE p # None /\ p[2] # None /\ p[1] >= Confirmed
    <3>1. outcome' = [outcome EXCEPT ![attempt] = LandedAt(p[2])] /\ pc' = "flush"
      BY <1>1, <2>2 DEF CheckProgress, Return, LandedAt
    <3>2. p[2] \in Slots
      <4>1. p = <<tracker.active[attempt].stage, tracker.active[attempt].record.landed_slot>>
            /\ attempt \in DOMAIN tracker.active
        BY <2>2 DEF ActiveProgress, IsActive
      <4>2. tracker.active[attempt].record.landed_slot \in Opt(Slots)
        BY <4>1 DEF Ordered, Types, IsTracker, Entry, Record
      <4> QED
        BY <2>2, <4>1, <4>2 DEF Opt
    <3> HIDE DEF p
    <3>3. Types'
      BY <2>1, <3>1, <3>2 DEF Ordered, Types, Idle, Attempting, Outcomes
    <3>4. InOrder'
      BY <2>1, <3>1 DEF Ordered, InOrder, Idle, Attempting, Recorded
    <3> QED
      BY <3>3, <3>4 DEF Ordered
  <2>3. CASE ~ (p # None /\ p[2] # None /\ p[1] >= Confirmed)
    <3>1. outcome' = outcome /\ pc' \in {"jito", "timeout"}
      BY <1>1, <2>3 DEF CheckProgress
    <3> QED
      BY <2>1, <3>1 DEF Ordered, Types, InOrder, Idle, Attempting, Recorded
  <2> QED
    BY <2>2, <2>3
<1>2. CASE JitoReply
  <2>1. CASE answer = "failed"
    BY <1>2, <2>1, CloseOrder DEF JitoReply, Attempting, FailureClass
  <2>2. CASE answer # "failed"
    <3>1. /\ pc = "jito" /\ pc' = "timeout" /\ answer' = None
          /\ UNCHANGED <<tracker, outcome, attempt, blockhash, log, head, confirmed, finalized, abandoned>>
      BY <1>2, <2>2 DEF JitoReply, chainVars
    <3> QED
      BY <3>1 DEF Ordered, Types, InOrder, Idle, Attempting, Recorded
  <2> QED
    BY <2>1, <2>2
<1>3. CASE CheckTimeout
  <2>1. CASE elapsed > ConfirmTimeout
    BY <1>3, <2>1, CloseOrder DEF CheckTimeout, Attempting, FailureClass
  <2>2. CASE ~ (elapsed > ConfirmTimeout)
    <3>1. /\ pc = "timeout" /\ pc' = "outcome"
          /\ UNCHANGED <<tracker, outcome, attempt, blockhash, log, answer,
                         head, confirmed, finalized, abandoned>>
      BY <1>3, <2>2 DEF CheckTimeout, chainVars
    <3> QED
      BY <3>1 DEF Ordered, Types, InOrder, Idle, Attempting, Recorded
  <2> QED
    BY <2>1, <2>2
<1>4. CASE CloseUnsent
  BY <1>4, CloseOrder, SendErrorsAssumption DEF CloseUnsent, Attempting
<1> QED
  BY <1>1, <1>2, <1>3, <1>4

(* The flush and the log.                                                  *)
LEMMA FinalizeOrder == Ordered /\ FinalizePending => Ordered'
<1> SUFFICES ASSUME Ordered, FinalizePending PROVE Ordered'
  OBVIOUS
<1>1. /\ pc = "flush" /\ pc' = "drain"
      /\ tracker' \in FlushActive(tracker)
      /\ UNCHANGED <<outcome, attempt, blockhash, log, answer, head, confirmed, finalized, abandoned>>
  BY DEF FinalizePending, chainVars
<1>2. IsTracker(tracker) /\ Sound(tracker)
  BY DEF Ordered, Types
<1>3. IsTracker(tracker') /\ Moves(tracker, tracker', LandedIn(tracker), {}, Slots)
  BY <1>1, <1>2, FlushActiveType, FlushMoves
<1>4. Sound(tracker') /\ OneOpen(tracker', log, Recorded)
  <2>1. {} \in SUBSET News
    OBVIOUS
  <2> QED
    BY <1>3, <2>1, MovesOrder
<1>5. DOMAIN tracker'.active = {}
  BY <1>1, <1>2, FlushEnds
<1>6. Types'
  BY <1>1, <1>3, <1>4 DEF Ordered, Types, Idle, Attempting
<1>7. InOrder'
  BY <1>1, <1>4, <1>5 DEF Ordered, InOrder, Idle, Attempting, Recorded
<1> QED
  BY <1>6, <1>7 DEF Ordered

LEMMA DrainOrder == Ordered /\ DrainRecords => Ordered'
<1> SUFFICES ASSUME Ordered, DrainRecords PROVE Ordered'
  OBVIOUS
<1>1. /\ pc = "drain" /\ pc' = "end"
      /\ log' = log \o tracker.completed
      /\ tracker' = DrainCompleted(tracker)
      /\ UNCHANGED <<outcome, attempt, blockhash, answer, head, confirmed, finalized, abandoned>>
  BY DEF DrainRecords, chainVars
<1>2. IsTracker(tracker) /\ Sound(tracker) /\ log \in Seq(Record)
  BY DEF Ordered, Types
<1>3. /\ tracker'.active = tracker.active /\ tracker'.completed = <<>>
      /\ tracker' = [active |-> tracker.active, completed |-> <<>>]
  BY <1>1, <1>2 DEF DrainCompleted, IsTracker
<1>4. IsTracker(tracker') /\ Sound(tracker')
  BY <1>2, <1>3, EmptySeq DEF IsTracker, Sound
<1>5. log' \in Seq(Record) /\ log' \o <<>> = log'
  BY <1>1, <1>2, ConcatProperties, ConcatEmptySeq DEF IsTracker
<1>6. OneOpen(tracker', log', Recorded)
  BY <1>1, <1>3, <1>5 DEF Ordered, InOrder, OneOpen
<1>7. Types'
  BY <1>1, <1>4, <1>5 DEF Ordered, Types, Idle, Attempting
<1>8. InOrder'
  BY <1>1, <1>3, <1>6 DEF Ordered, InOrder, Idle, Attempting, Recorded
<1> QED
  BY <1>7, <1>8 DEF Ordered

-------------------------------------------------------------------------------
(* What the stream saw is what it may say.                                 *)
SeenType == seen \subseteq News

LEMMA SeenTypeStep == Ordered /\ SeenType /\ [Next]_vars => SeenType'
<1> SUFFICES ASSUME Ordered, SeenType, [Next]_vars PROVE SeenType'
  OBVIOUS
<1>1. CASE \E sig \in Sigs : Land(sig)
  BY <1>1 DEF Land, SeenType, News, Ordered, Types
<1>2. CASE UNCHANGED vars \/ Executor \/ IngestTransaction \/ IngestSlot
  BY <1>2 DEF vars, Executor, Decide, GiveUp, AgentError, SendOk, SendErr, CloseUnsent, CheckOutcome,
     CheckProgress, JitoReply, CheckTimeout, FinalizePending, DrainRecords, IngestTransaction,
     IngestSlot, SeenType
<1>3. CASE Accept \/ JitoAnswer \/ NewSlot
  BY <1>3 DEF Accept, JitoAnswer, NewSlot, SeenType
<1>4. CASE \E slot \in Slots : ConfirmSlot(slot) \/ FinalizeSlot(slot) \/ AbandonSlot(slot)
  BY <1>4 DEF ConfirmSlot, FinalizeSlot, AbandonSlot, SeenType
<1> QED
  BY <1>1, <1>2, <1>3, <1>4 DEF Next, Environment

(* A step of the ingest task moves bundles by what the stream may say.     *)
LEMMA IngestMoves ==
    ASSUME IsTracker(tracker), Sound(tracker), SeenType, IngestTransaction
    PROVE  \E n \in seen :
             /\ n \in News /\ tracker' = OnTransaction(tracker, n.sig, n.slot, n.failed)
             /\ IsTracker(tracker')
             /\ \A kept : (n.failed => n.sig \notin kept) => Moves(tracker, tracker', kept, {n}, {})
<1>1. PICK n \in seen : tracker' = OnTransaction(tracker, n.sig, n.slot, n.failed)
  BY DEF IngestTransaction
<1>2. n \in News /\ n.sig \in Sigs /\ n.slot \in Slots /\ n.failed \in BOOLEAN
      /\ Saw(n.sig, n.slot, n.failed) = n
  BY <1>1 DEF SeenType, News, Saw
<1>3. IsTracker(tracker')
  BY <1>1, <1>2, OnTransactionType
<1>4. ASSUME NEW kept, n.failed => n.sig \notin kept
      PROVE  Moves(tracker, tracker', kept, {n}, {})
  <2>1. Moves(tracker, OnTransaction(tracker, n.sig, n.slot, n.failed), kept,
              {Saw(n.sig, n.slot, n.failed)}, {})
    BY <1>2, <1>4, OnTransactionMoves
  <2> QED
    BY <1>1, <1>2, <2>1
<1> QED
  BY <1>1, <1>2, <1>3, <1>4

LEMMA IngestSlotMoves ==
    ASSUME Ordered, IngestSlot
    PROVE  \E vouched \in SUBSET Slots :
             /\ \A n \in vouched : n <= confirmed
             /\ IsTracker(tracker')
             /\ \A kept : Moves(tracker, tracker', kept, {}, vouched)
<1>1. PICK slot \in Slots, level \in Levels :
        /\ tracker' \in OnSlotCommitment(tracker, slot, level)
        /\ level = Confirmed => slot <= confirmed
        /\ level = Finalized => slot <= finalized
  <2>1. PICK slot \in Slots :
          \/ slot <= head /\ tracker' \in OnSlotCommitment(tracker, slot, Processed)
          \/ slot <= confirmed /\ tracker' \in OnSlotCommitment(tracker, slot, Confirmed)
          \/ slot <= finalized /\ tracker' \in OnSlotCommitment(tracker, slot, Finalized)
    BY DEF IngestSlot
  <2> QED
    BY <2>1 DEF Levels
<1>2. IsTracker(tracker) /\ Sound(tracker) /\ finalized \in Nat /\ confirmed \in Nat /\ finalized <= confirmed
  BY DEF Ordered, Types
<1>3. IsTracker(tracker')
  BY <1>1, <1>2, OnSlotCommitmentType
<1>4. \A n \in Vouched(slot, level) : n <= confirmed
  <2>1. slot \in Nat /\ Slots \subseteq Nat
    BY SlotsAssumption
  <2> QED
    BY <1>1, <1>2, <2>1 DEF Vouched, Levels
<1>5. Vouched(slot, level) \in SUBSET Slots
  BY DEF Vouched
<1>6. \A kept : Moves(tracker, tracker', kept, {}, Vouched(slot, level))
  BY <1>1, <1>2, OnSlotCommitmentMoves
<1> QED
  BY <1>3, <1>4, <1>5, <1>6

(* The ingest task leaves the executor where it was.                       *)
LEMMA IngestOrder == Ordered /\ SeenType /\ (IngestTransaction \/ IngestSlot) => Ordered'
<1> SUFFICES ASSUME Ordered, SeenType, IngestTransaction \/ IngestSlot PROVE Ordered'
  OBVIOUS
<1>1. /\ Running
      /\ UNCHANGED <<pc, attempt, blockhash, outcome, log, answer, head, confirmed, finalized, abandoned>>
  BY DEF IngestTransaction, IngestSlot, execVars, chainVars
<1>2. /\ IsTracker(tracker')
      /\ \E kept, vouched : \E news \in SUBSET News : Moves(tracker, tracker', kept, news, vouched)
  <2>1. IsTracker(tracker) /\ Sound(tracker)
    BY DEF Ordered, Types
  <2>2. CASE IngestTransaction
    <3>1. PICK n \in seen :
            /\ n \in News /\ IsTracker(tracker')
            /\ \A kept : (n.failed => n.sig \notin kept) => Moves(tracker, tracker', kept, {n}, {})
      BY <2>1, <2>2, IngestMoves
    <3>2. Moves(tracker, tracker', {}, {n}, {})
      BY <3>1
    <3> QED
      BY <3>1, <3>2
  <2>3. CASE IngestSlot
    <3>1. PICK vouched \in SUBSET Slots :
            IsTracker(tracker') /\ \A kept : Moves(tracker, tracker', kept, {}, vouched)
      BY <2>3, IngestSlotMoves
    <3>2. Moves(tracker, tracker', {}, {}, vouched)
      BY <3>1
    <3> QED
      BY <3>1, <3>2
  <2> QED
    BY <2>2, <2>3
<1>3. /\ Sound(tracker') /\ OneOpen(tracker', log, Recorded)
      /\ DOMAIN tracker'.active \subseteq DOMAIN tracker.active
  BY <1>2, MovesOrder
<1>4. Types'
  BY <1>1, <1>2, <1>3 DEF Ordered, Types
<1>5. InOrder'
  BY <1>1, <1>3 DEF Ordered, InOrder, Recorded, Running
<1> QED
  BY <1>4, <1>5 DEF Ordered

(* The chain moves; the task and its tracker do not.                       *)
LEMMA EnvironmentOrder == Ordered /\ (Environment \/ UNCHANGED vars) => Ordered'
<1> SUFFICES ASSUME Ordered, Environment \/ UNCHANGED vars PROVE Ordered'
  OBVIOUS
<1>1. UNCHANGED <<tracker, pc, attempt, blockhash, outcome, log>>
  BY DEF vars, Environment, Accept, JitoAnswer, NewSlot, Land, ConfirmSlot, FinalizeSlot, AbandonSlot, execVars
<1>2. /\ answer' \in {None, "other", "failed"}
      /\ finalized' \in Nat /\ confirmed' \in Nat /\ head' \in Slots
      /\ finalized' <= confirmed' /\ confirmed' <= head'
      /\ abandoned' \subseteq Slots
  <2>1. /\ answer \in {None, "other", "failed"}
        /\ finalized \in Nat /\ confirmed \in Nat /\ head \in Slots
        /\ finalized <= confirmed /\ confirmed <= head
        /\ abandoned \subseteq Slots
        /\ Slots = 1 .. MaxSlot /\ MaxSlot \in Nat
    BY ChainAssumption DEF Ordered, Types
  <2>2. CASE Accept \/ JitoAnswer \/ UNCHANGED vars \/ \E sig \in Sigs : Land(sig)
    BY <2>1, <2>2 DEF Accept, JitoAnswer, Land, vars, chainVars
  <2>3. CASE NewSlot
    BY <2>1, <2>3 DEF NewSlot
  <2>4. ASSUME NEW slot \in Slots, ConfirmSlot(slot) \/ FinalizeSlot(slot) \/ AbandonSlot(slot)
        PROVE  /\ answer' \in {None, "other", "failed"}
               /\ finalized' \in Nat /\ confirmed' \in Nat /\ head' \in Slots
               /\ finalized' <= confirmed' /\ confirmed' <= head'
               /\ abandoned' \subseteq Slots
    BY <2>1, <2>4 DEF ConfirmSlot, FinalizeSlot, AbandonSlot
  <2> QED
    BY <2>2, <2>3, <2>4 DEF Environment
<1>3. Types'
  BY <1>1, <1>2 DEF Ordered, Types
<1>4. InOrder'
  BY <1>1 DEF Ordered, InOrder, Recorded
<1> QED
  BY <1>3, <1>4 DEF Ordered

LEMMA OrderStep == Ordered /\ SeenType /\ [Next]_vars => Ordered'
BY DecideOrder, SendOrder, CloseOrder, CheckOutcomeOrder, LookOrder, FinalizeOrder, DrainOrder,
   IngestOrder, EnvironmentOrder
DEF Next, Executor

LEMMA OrderAlways == Spec => [](Ordered /\ SeenType)
<1>1. Init => Ordered /\ SeenType
  BY OrderInit DEF Init, SeenType
<1> QED
  BY <1>1, OrderStep, SeenTypeStep, PTL DEF Spec

(* Both timers count on together; a call sets back the later one only.     *)
LEMMA TimersStep == Timers /\ [Next]_vars => Timers'
<1> SUFFICES ASSUME Timers, [Next]_vars PROVE Timers'
  OBVIOUS
<1> USE TimingAssumption DEF Timers
<1>1. CASE Decide(FALSE) \/ Decide(TRUE) \/ GiveUp \/ AgentError \/ SendErr
  BY <1>1 DEF Decide, GiveUp, AgentError, SendErr
<1>2. CASE SendOk \/ CheckOutcome \/ CloseUnsent
  BY <1>2 DEF SendOk, CheckOutcome, CloseUnsent, Close, Return
<1>3. CASE CheckProgress
  BY <1>3 DEF CheckProgress, Return
<1>4. CASE JitoReply
  BY <1>4 DEF JitoReply, Close, Return
<1>5. CASE CheckTimeout
  BY <1>5 DEF CheckTimeout, Close, Return
<1>6. CASE FinalizePending \/ DrainRecords \/ IngestTransaction \/ IngestSlot
  BY <1>6 DEF FinalizePending, DrainRecords, IngestTransaction, IngestSlot, execVars
<1>7. CASE Environment \/ UNCHANGED vars
  BY <1>7 DEF vars, Environment, Accept, JitoAnswer, NewSlot, Land, ConfirmSlot, FinalizeSlot, AbandonSlot, execVars
<1> QED
  BY <1>1, <1>2, <1>3, <1>4, <1>5, <1>6, <1>7 DEF Next, Executor

(* Type correctness, for calls of any length: the attempts stay within the *)
(* budget, and Jito was last asked within the time of the confirm loop.    *)
THEOREM Typed == Spec => []TypeOK
<1>1. Ordered /\ Timers => TypeOK
  BY TimingAssumption DEF Ordered, Types, Timers, TypeOK, Idle, Attempting, Outcomes
<1>2. Init => Timers
  BY OrderInit
<1> QED
  BY <1>1, <1>2, TimersStep, OrderAlways, PTL DEF Spec

(* The log of a run that ends holds exactly one record of every attempt,   *)
(* in order, for every retry budget.                                       *)
THEOREM AllLogged == Spec => []EveryAttemptLogged
<1>1. Ordered => EveryAttemptLogged
  <2> SUFFICES ASSUME Ordered, pc = "end"
               PROVE  Len(log) = attempt /\ \A i \in 1 .. attempt : log[i].signature = i
    BY DEF EveryAttemptLogged
  <2>1. log \in Seq(Record) /\ tracker.completed = <<>> /\ OneOpen(tracker, log, attempt)
        /\ DOMAIN tracker.active = {}
    BY DEF Ordered, Types, InOrder, Recorded, Idle
  <2>2. log \o <<>> = log /\ DOMAIN log = 1 .. Len(log)
    BY <2>1, ConcatEmptySeq, LenProperties
  <2> QED
    BY <2>1, <2>2 DEF OneOpen, Numbered
<1> QED
  BY <1>1, OrderAlways, PTL

(* A retry is decided with no earlier attempt in flight, for every budget. *)
THEOREM AgentAlone == Spec => []NothingInFlight
<1>1. Ordered => NothingInFlight
  BY DEF Ordered, InOrder, Idle, NothingInFlight
<1> QED
  BY <1>1, OrderAlways, PTL

-------------------------------------------------------------------------------
\* Where the chain has a transaction.
ExecutedAt(sig, slot) == tx[sig].st = "landed" /\ tx[sig].slot = slot

\* While no fork is abandoned: a record names where its transaction executed,
\* and one without a failure where it executed without error.
Honest(rec) ==
    abandoned = {} /\ rec.landed_slot # None =>
        /\ ExecutedAt(rec.signature, rec.landed_slot)
        /\ rec.failure = None => ~ tx[rec.signature].failed

SeenIsTrue ==
    abandoned = {} => \A n \in seen : ExecutedAt(n.sig, n.slot) /\ tx[n.sig].failed = n.failed

AllHonest ==
    /\ \A s \in DOMAIN tracker.active : Honest(tracker.active[s].record)
    /\ \A i \in DOMAIN AllRecords : Honest(AllRecords[i])

OnChain == tx = [s \in Sigs |-> tx[s]] /\ SeenIsTrue /\ AllHonest

LEMMA AllRecordsType == Types => AllRecords \in Seq(Record)
BY ConcatProperties DEF Types, IsTracker, AllRecords

LEMMA OnChainInit == Init => OnChain
<1> SUFFICES ASSUME Init PROVE OnChain
  OBVIOUS
<1>1. AllRecords = <<>> /\ DOMAIN tracker.active = {}
  BY ConcatEmptySeq, EmptySeq DEF Init, AllRecords, EmptyTracker
<1> QED
  BY <1>1 DEF Init, OnChain, SeenIsTrue, AllHonest

(* Bundles that move by what the stream saw stay honest.                   *)
LEMMA MovesHonest ==
    ASSUME Types, OnChain, NEW kept, NEW news \in SUBSET seen, SeenType, NEW vouched,
           Moves(tracker, tracker', kept, news, vouched),
           UNCHANGED <<log, tx, abandoned, seen>>
    PROVE  OnChain'
<1>1. PICK m \in Seq(Record) : Appends(tracker, tracker', m, kept, news, vouched)
  BY DEF Moves
<1>2. \A n \in news : abandoned = {} => ExecutedAt(n.sig, n.slot) /\ tx[n.sig].failed = n.failed
  BY DEF OnChain, SeenIsTrue
<1>3. ASSUME NEW s \in DOMAIN tracker'.active PROVE Honest(tracker'.active[s].record)
  <2> DEFINE t == tracker.active[s]
             t2 == tracker'.active[s]
  <2>1. s \in DOMAIN tracker.active /\ Stays(t, t2, news, vouched)
    BY <1>1 DEF Appends
  <2>2. Honest(t.record)
    BY <2>1 DEF OnChain, AllHonest
  <2> SUFFICES Honest(t2.record)
    OBVIOUS
  <2> HIDE DEF t, t2
  <2>3. CASE t2.record.landed_slot = t.record.landed_slot
    BY <2>1, <2>2, <2>3 DEF Honest, Stays
  <2>4. CASE Saw(t.record.signature, t2.record.landed_slot, FALSE) \in news
    <3>1. abandoned = {} => ExecutedAt(t.record.signature, t2.record.landed_slot)
                            /\ tx[t.record.signature].failed = FALSE
      BY <1>2, <2>4 DEF Saw
    <3>2. t2.record.signature = t.record.signature
      BY <2>1 DEF Stays
    <3> QED
      BY <3>1, <3>2 DEF Honest
  <2> QED
    BY <2>1, <2>3, <2>4 DEF Stays
<1>4. ASSUME NEW i \in DOMAIN m PROVE Honest(m[i])
  <2> DEFINE t == tracker.active[m[i].signature]
  <2>1. m[i].signature \in DOMAIN tracker.active /\ EndsAs(t, m[i], news, vouched)
    BY <1>1 DEF Appends
  <2>2. Honest(t.record) /\ t.record.signature = m[i].signature /\ t.record.failure = None
    BY <2>1 DEF OnChain, AllHonest, Types, Sound, Follows
  <2> HIDE DEF t
  <2>3. CASE m[i].landed_slot = t.record.landed_slot
    BY <2>2, <2>3 DEF Honest
  <2>4. CASE m[i].failure # None /\ Saw(t.record.signature, m[i].landed_slot, TRUE) \in news
    <3>1. abandoned = {} => ExecutedAt(t.record.signature, m[i].landed_slot)
      BY <1>2, <2>4 DEF Saw
    <3> QED
      BY <2>2, <2>4, <3>1 DEF Honest
  <2> QED
    BY <2>1, <2>3, <2>4 DEF EndsAs
<1>5. AllRecords' = AllRecords \o m
  <2>1. log \in Seq(Record) /\ tracker.completed \in Seq(Record)
    BY DEF Types, IsTracker
  <2>2. tracker'.completed = tracker.completed \o m
    BY <1>1 DEF Appends
  <2>3. log \o (tracker.completed \o m) = (log \o tracker.completed) \o m
    BY <2>1, RecordsAssociate, Zenon
  <2> QED
    BY <2>2, <2>3 DEF AllRecords
<1>6. ASSUME NEW k \in DOMAIN AllRecords' PROVE Honest(AllRecords'[k])
  <2> DEFINE h == AllRecords
  <2>1. h \in Seq(Record)
    BY AllRecordsType
  <2>2. \A i \in DOMAIN h : Honest(h[i])
    BY DEF OnChain, AllHonest
  <2>3. AllRecords' = h \o m
    BY <1>5
  <2> HIDE DEF h
  <2>4. k \in 1 .. Len(h) + Len(m)
    BY <2>1, <2>3, ConcatIndex
  <2>5. CASE k \in DOMAIN h
    BY <2>1, <2>2, <2>3, <2>5, ConcatIndex
  <2>6. CASE k - Len(h) \in DOMAIN m /\ (h \o m)[k] = m[k - Len(h)]
    BY <1>4, <2>3, <2>6
  <2> QED
    BY <2>1, <2>4, <2>5, <2>6, ConcatIndex
<1>7. \A rec : Honest(rec) => Honest(rec)'
  BY DEF Honest, ExecutedAt
<1>8. AllHonest'
  <2>1. \A s \in DOMAIN tracker'.active : Honest(tracker.active[s].record)'
    BY <1>3 DEF Honest, ExecutedAt
  <2>2. \A i \in DOMAIN AllRecords' : Honest(AllRecords[i])'
    BY <1>6 DEF Honest, ExecutedAt
  <2> QED
    BY <2>1, <2>2 DEF AllHonest
<1> QED
  BY <1>8 DEF OnChain, SeenIsTrue, ExecutedAt

(* A completed record is of an attempt that was made.                      *)
LEMMA RecordsSigned ==
    Ordered => \A i \in DOMAIN AllRecords : AllRecords[i].signature = i /\ i \in Sigs
<1> SUFFICES ASSUME Ordered, NEW i \in DOMAIN AllRecords
             PROVE  AllRecords[i].signature = i /\ i \in Sigs
  OBVIOUS
<1>1. OneOpen(tracker, log, Recorded) /\ Recorded \in Int /\ Recorded <= MaxRetries
  BY BudgetAssumption DEF Ordered, Types, InOrder, Recorded
<1>2. Numbered(AllRecords) /\ Len(AllRecords) \in {Recorded, Recorded - 1}
  BY <1>1 DEF OneOpen, AllRecords
<1>3. DOMAIN AllRecords = 1 .. Len(AllRecords)
  BY AllRecordsType, LenProperties DEF Ordered
<1>4. AllRecords[i].signature = i
  BY <1>2 DEF Numbered
<1>5. i \in 1 .. Len(AllRecords)
  BY <1>3
<1>6. i \in 1 .. MaxRetries
  BY <1>1, <1>2, <1>5, BudgetAssumption
<1> QED
  BY <1>4, <1>6, BudgetAssumption

(* What has landed stays where it is, unless a fork is abandoned.          *)
LEMMA TxHonest ==
    ASSUME Ordered, SeenType, OnChain, UNCHANGED <<tracker, log>>,
           tx' = [s \in Sigs |-> tx'[s]],
           abandoned' = {} => /\ abandoned = {}
                              /\ \A s \in Sigs : tx[s].st = "landed" => tx'[s] = tx[s]
                              /\ \A n \in seen' \ seen :
                                    ExecutedAt(n.sig, n.slot)' /\ tx'[n.sig].failed = n.failed
    PROVE  OnChain'
<1>1. SeenIsTrue'
  <2> SUFFICES ASSUME abandoned' = {}, NEW n \in seen'
               PROVE  ExecutedAt(n.sig, n.slot)' /\ tx'[n.sig].failed = n.failed
    BY DEF SeenIsTrue
  <2>1. CASE n \in seen
    <3>1. n.sig \in Sigs
      BY <2>1 DEF SeenType, News
    <3>2. ExecutedAt(n.sig, n.slot) /\ tx[n.sig].failed = n.failed
      BY <2>1 DEF OnChain, SeenIsTrue
    <3> QED
      BY <3>1, <3>2 DEF ExecutedAt
  <2>2. CASE n \notin seen
    BY <2>2
  <2> QED
    BY <2>1, <2>2
<1>2. ASSUME NEW rec, rec.signature \in Sigs, Honest(rec) PROVE Honest(rec)'
  BY <1>2 DEF Honest, ExecutedAt
<1>3. \A s \in DOMAIN tracker'.active : Honest(tracker.active[s].record)'
  <2>1. \A s \in DOMAIN tracker.active : tracker.active[s].record.signature \in Sigs
    BY DEF Ordered, Types, IsTracker, Sound, Follows
  <2>2. \A s \in DOMAIN tracker.active : Honest(tracker.active[s].record)
    BY DEF OnChain, AllHonest
  <2> TAKE s \in DOMAIN tracker'.active
  <2> DEFINE rec == tracker.active[s].record
  <2>3. rec.signature \in Sigs /\ Honest(rec) /\ rec' = rec
    BY <2>1, <2>2
  <2> QED
    BY <2>3 DEF Honest, ExecutedAt
<1>4. \A i \in DOMAIN AllRecords' : Honest(AllRecords[i])'
  <2>1. AllRecords' = AllRecords
    BY DEF AllRecords
  <2> TAKE i \in DOMAIN AllRecords'
  <2>2. AllRecords[i].signature \in Sigs /\ Honest(AllRecords[i])
    BY <2>1, RecordsSigned DEF OnChain, AllHonest
  <2> QED
    BY <2>1, <2>2 DEF Honest, ExecutedAt
<1> QED
  BY <1>1, <1>3, <1>4 DEF OnChain, AllHonest

LEMMA OnChainStep == Ordered /\ SeenType /\ OnChain /\ [Next]_vars => OnChain'
<1> SUFFICES ASSUME Ordered, SeenType, OnChain, [Next]_vars PROVE OnChain'
  OBVIOUS
<1>0. Types /\ IsTracker(tracker) /\ Sound(tracker)
  BY DEF Ordered, Types
<1>1. CASE UNCHANGED <<tracker, log, tx, abandoned, seen>>
  BY <1>1 DEF OnChain, SeenIsTrue, AllHonest, Honest, ExecutedAt, AllRecords
<1>2. ASSUME NEW kept, NEW news \in SUBSET seen, NEW vouched,
             Moves(tracker, tracker', kept, news, vouched),
             UNCHANGED <<log, tx, abandoned, seen>>
      PROVE  OnChain'
  BY <1>0, <1>2, MovesHonest
<1>3. CASE SendOk \/ SendErr
  <2>1. /\ tracker' = Track(tracker, NewRecord(attempt, blockhash))
        /\ attempt \in Sigs /\ blockhash \in Heights
        /\ UNCHANGED <<log, tx, abandoned, seen>>
    BY <1>3 DEF SendOk, SendErr, chainVars, Ordered, Types, InOrder, Attempting
  <2>2. /\ tracker'.completed = tracker.completed
        /\ DOMAIN tracker'.active = DOMAIN tracker.active \cup {attempt}
        /\ tracker'.active[attempt].record.landed_slot = None
        /\ \A s \in DOMAIN tracker.active \ {attempt} : tracker'.active[s] = tracker.active[s]
    BY <1>0, <2>1, TrackFollows
  <2>3. AllRecords' = AllRecords
    BY <2>1, <2>2 DEF AllRecords
  <2>4. ASSUME NEW s \in DOMAIN tracker'.active PROVE Honest(tracker.active[s].record)'
    <3>1. CASE s = attempt
      BY <2>2, <3>1 DEF Honest
    <3>2. CASE s # attempt
      <4>1. Honest(tracker.active[s].record) /\ tracker'.active[s] = tracker.active[s]
        BY <2>2, <3>2 DEF OnChain, AllHonest
      <4> QED
        BY <2>1, <4>1 DEF Honest, ExecutedAt
    <3> QED
      BY <3>1, <3>2
  <2>5. \A i \in DOMAIN AllRecords' : Honest(AllRecords[i])'
    BY <2>1, <2>3 DEF Honest, ExecutedAt, OnChain, AllHonest
  <2> QED
    BY <2>1, <2>4, <2>5 DEF OnChain, SeenIsTrue, AllHonest, ExecutedAt
<1>4. ASSUME NEW class \in FailureClass, Close(class), attempt \in Sigs,
             UNCHANGED <<log, tx, abandoned, seen>>
      PROVE  OnChain'
  <2>1. Moves(tracker, tracker', {}, {}, {})
    BY <1>0, <1>4, FailMoves DEF Close
  <2>2. {} \in SUBSET seen
    OBVIOUS
  <2> QED
    BY <1>2, <1>4, <2>1, <2>2
<1>5. CASE CloseUnsent \/ CheckTimeout \/ JitoReply
  <2>1. attempt \in Sigs
    BY <1>5 DEF CloseUnsent, CheckTimeout, JitoReply, Ordered, InOrder, Attempting
  <2>2. UNCHANGED <<log, tx, abandoned, seen>>
    BY <1>5 DEF CloseUnsent, CheckTimeout, JitoReply, chainVars
  <2>3. tracker' = tracker \/ \E class \in FailureClass : Close(class)
    BY <1>5, SendErrorsAssumption DEF CloseUnsent, CheckTimeout, JitoReply, FailureClass
  <2> QED
    BY <1>1, <1>4, <2>1, <2>2, <2>3
<1>6. CASE FinalizePending
  <2>1. Moves(tracker, tracker', LandedIn(tracker), {}, Slots) /\ UNCHANGED <<log, tx, abandoned, seen>>
    BY <1>0, <1>6, FlushMoves DEF FinalizePending, chainVars
  <2>2. {} \in SUBSET seen
    OBVIOUS
  <2> QED
    BY <1>2, <2>1, <2>2
<1>7. CASE DrainRecords
  <2>1. /\ tracker'.active = tracker.active
        /\ AllRecords' = AllRecords
        /\ UNCHANGED <<tx, abandoned, seen>>
    <3>1. log' = log \o tracker.completed /\ tracker' = DrainCompleted(tracker)
          /\ UNCHANGED <<tx, abandoned, seen>>
      BY <1>7 DEF DrainRecords, chainVars
    <3>2. tracker'.active = tracker.active /\ tracker'.completed = <<>>
      BY <1>0, <3>1 DEF DrainCompleted, IsTracker
    <3>3. (log \o tracker.completed) \o <<>> = log \o tracker.completed
      BY <1>0, ConcatProperties, ConcatEmptySeq DEF Types, IsTracker
    <3> QED
      BY <3>1, <3>2, <3>3 DEF AllRecords
  <2>2. tx' = [s \in Sigs |-> tx'[s]] /\ SeenIsTrue'
    BY <2>1 DEF OnChain, SeenIsTrue, ExecutedAt
  <2>3. AllHonest'
    BY <2>1 DEF OnChain, AllHonest, Honest, ExecutedAt
  <2> QED
    BY <2>2, <2>3 DEF OnChain
<1>8. CASE IngestTransaction
  <2>1. UNCHANGED <<log, tx, abandoned, seen>>
    BY <1>8 DEF IngestTransaction, execVars, chainVars
  <2>2. PICK n \in seen :
          \A kept : (n.failed => n.sig \notin kept) => Moves(tracker, tracker', kept, {n}, {})
    BY <1>0, <1>8, IngestMoves
  <2>3. Moves(tracker, tracker', {}, {n}, {}) /\ {n} \in SUBSET seen
    BY <2>2
  <2> QED
    BY <1>2, <2>1, <2>3
<1>9. CASE IngestSlot
  <2>1. UNCHANGED <<log, tx, abandoned, seen>>
    BY <1>9 DEF IngestSlot, execVars, chainVars
  <2>2. PICK vouched \in SUBSET Slots : \A kept : Moves(tracker, tracker', kept, {}, vouched)
    BY <1>9, IngestSlotMoves
  <2>3. Moves(tracker, tracker', {}, {}, vouched) /\ {} \in SUBSET seen
    BY <2>2
  <2> QED
    BY <1>2, <2>1, <2>3
<1>10. CASE Accept
  <2>1. /\ UNCHANGED <<tracker, log, seen, abandoned>> /\ tx[attempt].st = "unsent"
        /\ tx' = [tx EXCEPT ![attempt] = Pending(blockhash)]
    BY <1>10 DEF Accept, execVars, chainVars
  <2>2. tx = [s \in Sigs |-> tx[s]]
    BY DEF OnChain
  <2>3. tx' = [s \in Sigs |-> tx'[s]] /\ \A s \in Sigs : tx[s].st = "landed" => tx'[s] = tx[s]
    BY <2>1, <2>2
  <2> QED
    BY <2>1, <2>3, TxHonest
<1>11. ASSUME NEW sig \in Sigs, Land(sig) PROVE OnChain'
  <2>1. PICK failed \in BOOLEAN :
          /\ tx' = [tx EXCEPT ![sig] = Landed(head, failed, @.valid)]
          /\ seen' = seen \cup {[sig |-> sig, slot |-> head, failed |-> failed]}
    BY <1>11 DEF Land
  <2>2. UNCHANGED <<tracker, log, abandoned>> /\ tx[sig].st = "pending"
    BY <1>11 DEF Land, execVars, chainVars
  <2>3. tx = [s \in Sigs |-> tx[s]]
    BY DEF OnChain
  <2>4. /\ tx' = [s \in Sigs |-> tx'[s]]
        /\ \A s \in Sigs : tx[s].st = "landed" => tx'[s] = tx[s]
        /\ tx'[sig] = Landed(head, failed, tx[sig].valid)
    BY <2>1, <2>2, <2>3
  <2>5. tx'[sig].st = "landed" /\ tx'[sig].slot = head /\ tx'[sig].failed = failed
    BY <2>4 DEF Landed
  <2>6. \A n \in seen' \ seen : ExecutedAt(n.sig, n.slot)' /\ tx'[n.sig].failed = n.failed
    BY <2>1, <2>5 DEF ExecutedAt
  <2> QED
    BY <2>2, <2>4, <2>6, TxHonest
<1>12. ASSUME NEW slot \in Slots, AbandonSlot(slot) PROVE OnChain'
  <2>1. UNCHANGED <<tracker, log>> /\ abandoned' # {} /\ tx' = [s \in Sigs |-> tx'[s]]
    BY <1>12 DEF AbandonSlot, execVars
  <2> QED
    BY <2>1, TxHonest
<1>13. CASE \/ Decide(FALSE) \/ Decide(TRUE) \/ GiveUp \/ AgentError \/ CheckOutcome \/ CheckProgress
            \/ JitoAnswer \/ NewSlot \/ UNCHANGED vars
            \/ \E slot \in Slots : ConfirmSlot(slot) \/ FinalizeSlot(slot)
  <2>1. UNCHANGED <<tracker, log, tx, abandoned, seen>>
    BY <1>13 DEF Decide, GiveUp, AgentError, CheckOutcome, CheckProgress, JitoAnswer, NewSlot, vars,
       ConfirmSlot, FinalizeSlot, execVars, chainVars
  <2> QED
    BY <1>1, <2>1
<1> QED
  BY <1>3, <1>5, <1>6, <1>7, <1>8, <1>9, <1>10, <1>11, <1>12, <1>13 DEF Next, Executor, Environment

-------------------------------------------------------------------------------
\* A bundle past Processed landed in a confirmed slot; so did every success
\* the executor may still be told of.  The flush vouches for nothing.
SlotsConfirmed ==
    /\ \A s \in DOMAIN tracker.active :
         tracker.active[s].stage >= Confirmed => tracker.active[s].record.landed_slot <= confirmed
    /\ pc \notin {"drain", "end"} =>
         \A i \in DOMAIN tracker.completed :
            tracker.completed[i].failure = None =>
                tracker.completed[i].landed_slot \in Slots /\ tracker.completed[i].landed_slot <= confirmed

LEMMA SlotsConfirmedInit == Init => SlotsConfirmed
BY DEF Init, SlotsConfirmed, EmptyTracker

(* Bundles moved by slots that are confirmed.                              *)
LEMMA MovesConfirmed ==
    ASSUME Types, SlotsConfirmed, NEW kept, NEW news, NEW vouched \in SUBSET Slots,
           \A n \in vouched : n <= confirmed,
           Moves(tracker, tracker', kept, news, vouched),
           pc' \in {"drain", "end"} <=> pc \in {"drain", "end"}, confirmed' = confirmed
    PROVE  SlotsConfirmed'
<1>1. PICK m \in Seq(Record) : Appends(tracker, tracker', m, kept, news, vouched)
  BY DEF Moves
<1>2. ASSUME NEW s \in DOMAIN tracker'.active, tracker'.active[s].stage >= Confirmed
      PROVE  tracker'.active[s].record.landed_slot <= confirmed
  <2> DEFINE t  == tracker.active[s]
             t2 == tracker'.active[s]
  <2>1. s \in DOMAIN tracker.active /\ Stays(t, t2, news, vouched)
    BY <1>1 DEF Appends
  <2>2. t.stage >= Confirmed => t.record.landed_slot <= confirmed
    BY <2>1 DEF SlotsConfirmed
  <2>3. t2.stage >= Confirmed
    BY <1>2
  <2> SUFFICES t2.record.landed_slot <= confirmed
    OBVIOUS
  <2> HIDE DEF t, t2
  <2> QED
    BY <2>1, <2>2, <2>3 DEF Stays, Saw
<1>3. ASSUME NEW i \in DOMAIN tracker'.completed, tracker'.completed[i].failure = None,
             pc \notin {"drain", "end"}
      PROVE  tracker'.completed[i].landed_slot \in Slots /\ tracker'.completed[i].landed_slot <= confirmed
  <2> DEFINE c == tracker.completed
  <2>1. c \in Seq(Record) /\ tracker'.completed = c \o m
    BY <1>1 DEF Appends, Types, IsTracker
  <2>2. \A k \in DOMAIN c : c[k].failure = None => c[k].landed_slot \in Slots /\ c[k].landed_slot <= confirmed
    BY <1>3 DEF SlotsConfirmed
  <2>3. \A k \in DOMAIN m : m[k].failure = None => m[k].landed_slot \in Slots /\ m[k].landed_slot <= confirmed
    BY <1>1 DEF Appends, EndsAs
  <2> HIDE DEF c
  <2>4. i \in 1 .. Len(c) + Len(m)
    BY <2>1, ConcatIndex
  <2>5. CASE i \in DOMAIN c
    BY <1>3, <2>1, <2>2, <2>5, ConcatIndex
  <2>6. CASE i - Len(c) \in DOMAIN m /\ (c \o m)[i] = m[i - Len(c)]
    BY <1>3, <2>1, <2>3, <2>6
  <2> QED
    BY <2>1, <2>4, <2>5, <2>6, ConcatIndex
<1> QED
  BY <1>2, <1>3 DEF SlotsConfirmed

LEMMA SlotsConfirmedStep == Ordered /\ SeenType /\ SlotsConfirmed /\ [Next]_vars => SlotsConfirmed'
<1> SUFFICES ASSUME Ordered, SeenType, SlotsConfirmed, [Next]_vars PROVE SlotsConfirmed'
  OBVIOUS
<1>0. Types /\ IsTracker(tracker) /\ Sound(tracker) /\ confirmed \in Nat
  BY DEF Ordered, Types
<1>1. CASE UNCHANGED <<tracker, confirmed>> /\ (pc' \in {"drain", "end"} <=> pc \in {"drain", "end"})
  BY <1>1 DEF SlotsConfirmed
<1>2. CASE SendOk \/ SendErr
  <2>1. /\ tracker' = Track(tracker, NewRecord(attempt, blockhash))
        /\ attempt \in Sigs /\ blockhash \in Heights
        /\ confirmed' = confirmed /\ pc = "sending"
    BY <1>2 DEF SendOk, SendErr, chainVars, Ordered, Types, InOrder, Attempting
  <2>2. /\ tracker'.completed = tracker.completed
        /\ DOMAIN tracker'.active = DOMAIN tracker.active \cup {attempt}
        /\ tracker'.active[attempt].stage = Submitted
        /\ \A s \in DOMAIN tracker.active \ {attempt} : tracker'.active[s] = tracker.active[s]
    BY <1>0, <2>1, TrackFollows
  <2> QED
    BY <2>1, <2>2 DEF SlotsConfirmed
<1>3. ASSUME NEW class \in FailureClass, Close(class), attempt \in Sigs,
             pc \notin {"drain", "end"}, confirmed' = confirmed
      PROVE  SlotsConfirmed'
  <2>1. Moves(tracker, tracker', {}, {}, {})
    BY <1>0, <1>3, FailMoves DEF Close
  <2>2. pc' = "decide"
    BY <1>3 DEF Close, Return, FailedWith
  <2> QED
    BY <1>0, <1>3, <2>1, <2>2, MovesConfirmed
<1>4. CASE CloseUnsent \/ CheckTimeout \/ JitoReply
  <2>1. attempt \in Sigs /\ pc \in {"sendFailed", "timeout", "jito"} /\ confirmed' = confirmed
    BY <1>4 DEF CloseUnsent, CheckTimeout, JitoReply, Ordered, InOrder, Attempting, chainVars
  <2>2. (tracker' = tracker /\ pc' \in {"outcome", "timeout"}) \/ \E class \in FailureClass : Close(class)
    BY <1>4, SendErrorsAssumption DEF CloseUnsent, CheckTimeout, JitoReply, FailureClass
  <2> QED
    BY <1>1, <1>3, <2>1, <2>2
<1>5. CASE FinalizePending
  <2>1. pc' = "drain" /\ DOMAIN tracker'.active = {}
    BY <1>0, <1>5, FlushEnds DEF FinalizePending
  <2> QED
    BY <2>1 DEF SlotsConfirmed
<1>6. CASE DrainRecords
  <2>1. pc' = "end" /\ pc = "drain" /\ tracker' = DrainCompleted(tracker)
    BY <1>6 DEF DrainRecords
  <2>2. DOMAIN tracker'.active = {}
    BY <1>0, <2>1 DEF DrainCompleted, IsTracker, Ordered, InOrder, Idle
  <2> QED
    BY <2>1, <2>2 DEF SlotsConfirmed
<1>7. CASE IngestTransaction
  <2>1. pc' = pc /\ confirmed' = confirmed
    BY <1>7 DEF IngestTransaction, execVars, chainVars
  <2>2. PICK n \in seen :
          \A kept : (n.failed => n.sig \notin kept) => Moves(tracker, tracker', kept, {n}, {})
    BY <1>0, <1>7, IngestMoves
  <2>3. Moves(tracker, tracker', {}, {n}, {})
    BY <2>2
  <2> QED
    BY <1>0, <2>1, <2>3, MovesConfirmed
<1>8. CASE IngestSlot
  <2>1. pc' = pc /\ confirmed' = confirmed
    BY <1>8 DEF IngestSlot, execVars, chainVars
  <2>2. PICK vouched \in SUBSET Slots :
          /\ \A n \in vouched : n <= confirmed
          /\ \A kept : Moves(tracker, tracker', kept, {}, vouched)
    BY <1>8, IngestSlotMoves
  <2>3. Moves(tracker, tracker', {}, {}, vouched)
    BY <2>2
  <2> QED
    BY <1>0, <2>1, <2>2, <2>3, MovesConfirmed
<1>9. ASSUME NEW slot \in Slots, ConfirmSlot(slot) PROVE SlotsConfirmed'
  <2>1. UNCHANGED <<tracker, pc>> /\ confirmed' \in Nat /\ confirmed < confirmed'
    BY <1>0, <1>9, SlotsAssumption DEF ConfirmSlot, execVars
  <2>2. /\ \A s \in DOMAIN tracker.active : tracker.active[s].record.landed_slot \in Opt(Slots)
        /\ \A s \in DOMAIN tracker.active :
             tracker.active[s].stage >= Confirmed => tracker.active[s].record.landed_slot # None
    BY <1>0 DEF IsTracker, Entry, Record, Sound, Follows, Levels
  <2>3. \A s \in DOMAIN tracker.active :
          tracker.active[s].stage >= Confirmed => tracker.active[s].record.landed_slot \in Nat
    BY <2>2, SlotsAssumption DEF Opt
  <2>4. \A slot2 \in Slots : slot2 \in Nat
    BY SlotsAssumption
  <2> QED
    BY <1>0, <2>1, <2>3, <2>4 DEF SlotsConfirmed
<1>10. CASE \/ Decide(FALSE) \/ Decide(TRUE) \/ GiveUp \/ AgentError \/ CheckOutcome \/ CheckProgress
            \/ JitoAnswer \/ NewSlot \/ UNCHANGED vars \/ Accept
            \/ \E slot \in Slots : AbandonSlot(slot) \/ FinalizeSlot(slot)
            \/ \E sig \in Sigs : Land(sig)
  <2>1. UNCHANGED <<tracker, confirmed>>
    BY <1>10 DEF Decide, GiveUp, AgentError, CheckOutcome, CheckProgress, JitoAnswer, NewSlot, vars,
       Accept, Land, AbandonSlot, FinalizeSlot, execVars, chainVars
  <2>2. pc' \in {"drain", "end"} <=> pc \in {"drain", "end"}
    BY <1>10 DEF Decide, GiveUp, AgentError, CheckOutcome, CheckProgress, Return, JitoAnswer, NewSlot, vars,
       Accept, Land, AbandonSlot, FinalizeSlot, execVars
  <2> QED
    BY <1>1, <2>1, <2>2
<1> QED
  BY <1>2, <1>4, <1>5, <1>6, <1>7, <1>8, <1>9, <1>10 DEF Next, Executor, Environment

-------------------------------------------------------------------------------
Told(s) == outcome[s] # None /\ outcome[s].landed

\* A success is on record, in that slot.
OnRecord(s, slot) == \E r \in RecordsOf(s) : r.landed_slot = slot /\ r.failure = None

Reports ==
    \A s \in Sigs : Told(s) =>
        /\ pc \in {"flush", "drain", "end"}
        /\ outcome[s].slot <= confirmed
        /\ abandoned = {} => OnRecord(s, outcome[s].slot)

(* A landed bundle that moves, and is not failed by it, stays on record.   *)
LEMMA MovesOnRecord ==
    ASSUME Types, NEW kept, LandedIn(tracker) \subseteq kept, NEW news, NEW vouched,
           Moves(tracker, tracker', kept, news, vouched), log' = log,
           NEW s \in Sigs, NEW slot \in Slots, OnRecord(s, slot)
    PROVE  OnRecord(s, slot)'
<1> DEFINE h == AllRecords
<1>1. PICK m \in Seq(Record) : Appends(tracker, tracker', m, kept, news, vouched)
  BY DEF Moves
<1>2. h \in Seq(Record) /\ AllRecords' = h \o m
  <2>1. log \in Seq(Record) /\ tracker.completed \in Seq(Record)
    BY DEF Types, IsTracker
  <2>2. tracker'.completed = tracker.completed \o m
    BY <1>1 DEF Appends
  <2>3. log \o (tracker.completed \o m) = (log \o tracker.completed) \o m
    BY <2>1, RecordsAssociate, Zenon
  <2> QED
    BY <2>2, <2>3, AllRecordsType DEF AllRecords
<1>3. PICK r \in RecordsOf(s) : r.landed_slot = slot /\ r.failure = None
  BY DEF OnRecord
<1>4. \/ \E i \in DOMAIN h : h[i] = r /\ r.signature = s
      \/ s \in DOMAIN tracker.active /\ r = tracker.active[s].record
  BY <1>3 DEF RecordsOf, IsActive
<1>5. ASSUME NEW rec, NEW k \in DOMAIN AllRecords', AllRecords'[k] = rec,
             rec.signature = s, rec.landed_slot = slot, rec.failure = None
      PROVE  OnRecord(s, slot)'
  BY <1>5 DEF OnRecord, RecordsOf
<1> HIDE DEF h
<1>6. CASE \E i \in DOMAIN h : h[i] = r /\ r.signature = s
  <2>1. PICK i \in DOMAIN h : h[i] = r /\ r.signature = s
    BY <1>6
  <2>2. i \in DOMAIN AllRecords' /\ AllRecords'[i] = r
    <3>1. /\ DOMAIN h = 1 .. Len(h) /\ Len(h) \in Nat /\ Len(m) \in Nat
          /\ DOMAIN (h \o m) = 1 .. Len(h) + Len(m)
          /\ (h \o m)[i] = h[i]
      BY <1>2, <2>1, ConcatIndex
    <3> QED
      BY <1>2, <2>1, <3>1
  <2> QED
    BY <1>3, <1>5, <2>1, <2>2
<1>7. CASE s \in DOMAIN tracker.active /\ r = tracker.active[s].record
  <2>1. r.landed_slot # None /\ s \in kept
    BY <1>3, <1>7, SlotsAssumption DEF LandedIn
  <2>2. CASE s \in DOMAIN tracker'.active
    <3> DEFINE t  == tracker.active[s]
               t2 == tracker'.active[s]
    <3>1. Stays(t, t2, news, vouched)
      BY <1>1, <2>2 DEF Appends
    <3>2. t.record = r
      BY <1>7
    <3> HIDE DEF t, t2
    <3>3. t2.record.landed_slot = slot /\ t2.record.failure = None
      BY <1>3, <2>1, <3>1, <3>2 DEF Stays
    <3>4. tracker'.active[s].record \in RecordsOf(s)'
      BY <2>2 DEF RecordsOf, IsActive
    <3> QED
      BY <3>3, <3>4 DEF OnRecord, t2
  <2>3. CASE s \notin DOMAIN tracker'.active
    <3>1. PICK i \in DOMAIN m : m[i].signature = s
      BY <1>1, <1>7, <2>3 DEF Appends
    <3>2. EndsAs(tracker.active[s], m[i], news, vouched) /\ m[i].failure = None
      BY <1>1, <2>1, <3>1 DEF Appends
    <3>3. m[i].landed_slot = slot
      BY <1>3, <1>7, <3>2 DEF EndsAs
    <3>4. Len(h) + i \in DOMAIN AllRecords' /\ AllRecords'[Len(h) + i] = m[i]
      <4>1. /\ Len(h) \in Nat /\ Len(m) \in Nat /\ DOMAIN m = 1 .. Len(m)
            /\ DOMAIN (h \o m) = 1 .. Len(h) + Len(m)
            /\ (h \o m)[Len(h) + i] = m[i]
        BY <1>2, <3>1, ConcatIndex
      <4> QED
        BY <1>2, <3>1, <4>1
    <3> QED
      BY <1>5, <3>1, <3>2, <3>3, <3>4
  <2> QED
    BY <2>2, <2>3
<1> QED
  BY <1>4, <1>6, <1>7

LEMMA ReportedSlot == Types => \A s \in Sigs : Told(s) => outcome[s].slot \in Slots
<1> SUFFICES ASSUME Types, NEW s \in Sigs, Told(s) PROVE outcome[s].slot \in Slots
  OBVIOUS
<1>1. outcome[s] \in Outcomes /\ outcome[s].landed
  BY DEF Types, Told
<1> QED
  BY <1>1 DEF Outcomes, LandedAt, FailedWith

(* What was reported stays true while nothing on record is failed by it.   *)
LEMMA ReportsKept ==
    ASSUME Types, Reports, UNCHANGED <<outcome, log, confirmed, abandoned>>,
           pc' \in {"flush", "drain", "end"},
           NEW kept, NEW news, NEW vouched, abandoned = {} => LandedIn(tracker) \subseteq kept,
           Moves(tracker, tracker', kept, news, vouched)
    PROVE  Reports'
<1> SUFFICES ASSUME NEW s \in Sigs, Told(s)'
             PROVE  /\ outcome'[s].slot <= confirmed
                    /\ abandoned' = {} => OnRecord(s, outcome[s].slot)'
  BY DEF Reports
<1>1. Told(s) /\ outcome'[s] = outcome[s] /\ outcome[s].slot \in Slots
  BY ReportedSlot DEF Told
<1>2. outcome[s].slot <= confirmed /\ (abandoned = {} => OnRecord(s, outcome[s].slot))
  BY <1>1 DEF Reports
<1>3. ASSUME abandoned = {} PROVE OnRecord(s, outcome[s].slot)'
  <2>1. \A slot \in Slots : OnRecord(s, slot) => OnRecord(s, slot)'
    BY <1>3, MovesOnRecord
  <2>2. OnRecord(s, outcome[s].slot)
    BY <1>2, <1>3
  <2> QED
    BY <1>1, <2>1, <2>2 DEF OnRecord
<1> QED
  BY <1>1, <1>2, <1>3

(* A failure reported is no landing.                                       *)
LEMMA ReportsFailure ==
    ASSUME Types, Reports, pc \notin {"flush", "drain", "end"},
           \/ outcome' = outcome
           \/ \E class : outcome' = [outcome EXCEPT ![attempt] = FailedWith(class)]
    PROVE  Reports'
<1>1. \A s \in Sigs : ~ Told(s)
  BY DEF Reports
<1>2. \A s \in Sigs : ~ Told(s)'
  BY <1>1 DEF Told, Types, FailedWith
<1> QED
  BY <1>2 DEF Reports

(* A landing is reported.                                                  *)
LEMMA ReportsLanding ==
    ASSUME Types, Reports, pc \notin {"flush", "drain", "end"}, pc' = "flush",
           NEW slot \in Slots, slot <= confirmed, OnRecord(attempt, slot), attempt \in Sigs,
           outcome' = [outcome EXCEPT ![attempt] = LandedAt(slot)],
           UNCHANGED <<tracker, log, confirmed>>
    PROVE  Reports'
<1> SUFFICES ASSUME NEW s \in Sigs, Told(s)'
             PROVE  outcome'[s].slot <= confirmed /\ OnRecord(s, outcome[s].slot)'
  BY DEF Reports
<1>1. ~ Told(s)
  BY DEF Reports
<1>2. s = attempt /\ outcome'[s] = LandedAt(slot)
  BY <1>1 DEF Told, Types
<1>3. outcome'[s].slot = slot
  BY <1>2 DEF LandedAt
<1> QED
  BY <1>2, <1>3 DEF OnRecord, RecordsOf, AllRecords, IsActive

LEMMA ReportsStep ==
    Ordered /\ SeenType /\ OnChain /\ SlotsConfirmed /\ Reports /\ [Next]_vars => Reports'
<1> SUFFICES ASSUME Ordered, SeenType, OnChain, SlotsConfirmed, Reports, [Next]_vars PROVE Reports'
  OBVIOUS
<1>0. Types /\ IsTracker(tracker) /\ Sound(tracker) /\ confirmed \in Nat
  BY DEF Ordered, Types
<1>1. CASE Decide(FALSE) \/ Decide(TRUE) \/ GiveUp \/ AgentError \/ SendOk \/ SendErr
  BY <1>0, <1>1, ReportsFailure DEF Decide, GiveUp, AgentError, SendOk, SendErr
<1>2. CASE CloseUnsent \/ CheckTimeout \/ JitoReply
  BY <1>0, <1>2, ReportsFailure DEF CloseUnsent, CheckTimeout, JitoReply, Close, Return
<1>3. CASE CheckOutcome
  <2> DEFINE done == CompletedOutcome(tracker, attempt)
  <2>1. /\ pc = "outcome" /\ attempt \in Sigs /\ log = <<>>
        /\ UNCHANGED <<tracker, log, confirmed>>
    BY <1>3 DEF CheckOutcome, chainVars, Ordered, InOrder, Attempting
  <2>2. CASE done = None
    BY <1>0, <1>3, <2>1, <2>2, ReportsFailure DEF CheckOutcome
  <2>3. CASE done # None
    <3>1. \A i \in DOMAIN tracker.completed : tracker.completed[i].signature = i
      BY <2>1, OneFollowed
    <3>2. PICK i \in DOMAIN tracker.completed :
            /\ tracker.completed[i].signature = attempt
            /\ \/ /\ tracker.completed[i].failure = None /\ tracker.completed[i].landed_slot # None
                  /\ done = [failed |-> FALSE, slot |-> tracker.completed[i].landed_slot]
               \/ \E class \in FailureClass : done = [failed |-> TRUE, class |-> class]
      <4>1. \E i \in DOMAIN tracker.completed :
              LET rec == tracker.completed[i]
              IN  /\ rec.signature = attempt
                  /\ \/ /\ rec.failure = None /\ rec.landed_slot # None
                        /\ done = [failed |-> FALSE, slot |-> rec.landed_slot]
                     \/ \E class \in FailureClass : done = [failed |-> TRUE, class |-> class]
        BY <1>0, <2>3, <3>1, OutcomeOf
      <4> QED
        BY <4>1
    <3>3. Return(IF done.failed THEN FailedWith(done.class) ELSE LandedAt(done.slot))
      BY <1>3, <2>3 DEF CheckOutcome
    <3> HIDE DEF done
    <3>4. CASE \E class \in FailureClass : done = [failed |-> TRUE, class |-> class]
      <4>1. outcome' = [outcome EXCEPT ![attempt] = FailedWith(done.class)]
        BY <3>3, <3>4 DEF Return
      <4> QED
        BY <1>0, <2>1, <4>1, ReportsFailure
    <3>5. CASE /\ tracker.completed[i].failure = None /\ tracker.completed[i].landed_slot # None
               /\ done = [failed |-> FALSE, slot |-> tracker.completed[i].landed_slot]
      <4> DEFINE slot == tracker.completed[i].landed_slot
      <4>1. slot \in Slots /\ slot <= confirmed
        BY <2>1, <3>2, <3>5 DEF SlotsConfirmed
      <4>2. OnRecord(attempt, slot)
        <5>1. AllRecords = tracker.completed
          BY <1>0, <2>1, ConcatEmptySeq DEF AllRecords, IsTracker
        <5> QED
          BY <3>2, <3>5, <5>1 DEF OnRecord, RecordsOf
      <4>3. outcome' = [outcome EXCEPT ![attempt] = LandedAt(slot)] /\ pc' = "flush"
        BY <3>3, <3>5 DEF Return, LandedAt
      <4> HIDE DEF slot
      <4> QED
        BY <1>0, <2>1, <4>1, <4>2, <4>3, ReportsLanding
    <3> QED
      BY <3>2, <3>4, <3>5
  <2> QED
    BY <2>2, <2>3
<1>4. CASE CheckProgress
  <2> DEFINE p    == ActiveProgress(tracker, attempt)
             slot == tracker.active[attempt].record.landed_slot
  <2>1. pc = "progress" /\ attempt \in Sigs /\ UNCHANGED <<tracker, log, confirmed>>
    BY <1>4 DEF CheckProgress, chainVars, Ordered, InOrder, Attempting
  <2>2. CASE p # None /\ p[2] # None /\ p[1] >= Confirmed
    <3>1. p = <<tracker.active[attempt].stage, slot>> /\ attempt \in DOMAIN tracker.active
      BY <2>2 DEF ActiveProgress, IsActive
    <3>2. slot \in Slots /\ slot <= confirmed
      <4>1. slot \in Opt(Slots)
        BY <1>0, <3>1 DEF IsTracker, Entry, Record
      <4> QED
        BY <2>2, <3>1, <4>1 DEF Opt, SlotsConfirmed
    <3>3. OnRecord(attempt, slot)
      BY <1>0, <3>1 DEF OnRecord, RecordsOf, IsActive, Sound, Follows
    <3>4. outcome' = [outcome EXCEPT ![attempt] = LandedAt(slot)] /\ pc' = "flush"
      BY <1>4, <2>2, <3>1 DEF CheckProgress, Return, LandedAt
    <3> HIDE DEF slot
    <3> QED
      BY <1>0, <2>1, <3>2, <3>3, <3>4, ReportsLanding
  <2>3. CASE ~ (p # None /\ p[2] # None /\ p[1] >= Confirmed)
    BY <1>0, <1>4, <2>1, <2>3, ReportsFailure DEF CheckProgress
  <2> QED
    BY <2>2, <2>3
<1>5. CASE FinalizePending
  <2>1. /\ Moves(tracker, tracker', LandedIn(tracker), {}, Slots) /\ pc' = "drain"
        /\ UNCHANGED <<outcome, log, confirmed, abandoned>>
    BY <1>0, <1>5, FlushMoves DEF FinalizePending, chainVars
  <2> QED
    BY <1>0, <2>1, ReportsKept
<1>6. CASE DrainRecords
  <2>1. /\ log' = log \o tracker.completed /\ tracker' = DrainCompleted(tracker) /\ pc' = "end"
        /\ UNCHANGED <<outcome, confirmed, abandoned>>
    BY <1>6 DEF DrainRecords, chainVars
  <2>2. tracker'.active = tracker.active /\ tracker'.completed = <<>>
    BY <1>0, <2>1 DEF DrainCompleted, IsTracker
  <2>3. (log \o tracker.completed) \o <<>> = log \o tracker.completed
    BY <1>0, ConcatProperties, ConcatEmptySeq DEF Types, IsTracker
  <2>4. AllRecords' = AllRecords
    BY <2>1, <2>2, <2>3 DEF AllRecords
  <2> QED
    BY <2>1, <2>2, <2>4 DEF Reports, Told, OnRecord, RecordsOf, IsActive
<1>7. CASE IngestTransaction
  <2>1. UNCHANGED <<pc, outcome, log, confirmed, abandoned>>
    BY <1>7 DEF IngestTransaction, execVars, chainVars
  <2>2. PICK n \in seen :
          /\ n \in News
          /\ \A kept : (n.failed => n.sig \notin kept) => Moves(tracker, tracker', kept, {n}, {})
    BY <1>0, <1>7, IngestMoves
  <2>3. ASSUME abandoned = {}, n.failed PROVE n.sig \notin LandedIn(tracker)
    <3> SUFFICES ASSUME n.sig \in LandedIn(tracker) PROVE FALSE
      OBVIOUS
    <3> DEFINE rec == tracker.active[n.sig].record
    <3>1. /\ n.sig \in DOMAIN tracker.active /\ rec.landed_slot # None
          /\ rec.signature = n.sig /\ rec.failure = None
      BY <1>0 DEF LandedIn, Sound, Follows
    <3>2. Honest(rec)
      BY <3>1 DEF OnChain, AllHonest
    <3>3. tx[n.sig].failed = n.failed
      BY <2>3 DEF OnChain, SeenIsTrue
    <3> HIDE DEF rec
    <3> QED
      BY <2>3, <3>1, <3>2, <3>3 DEF Honest
  <2> DEFINE kept == IF n.failed THEN LandedIn(tracker) \ {n.sig} ELSE LandedIn(tracker)
  <2>4. Moves(tracker, tracker', kept, {n}, {})
    BY <2>2
  <2>5. abandoned = {} => LandedIn(tracker) \subseteq kept
    BY <2>3
  <2> HIDE DEF kept
  <2>6. CASE pc \in {"flush", "drain", "end"}
    BY <1>0, <2>1, <2>4, <2>5, <2>6, ReportsKept
  <2>7. CASE pc \notin {"flush", "drain", "end"}
    BY <1>0, <2>1, <2>7, ReportsFailure
  <2> QED
    BY <2>6, <2>7
<1>8. CASE IngestSlot
  <2>1. UNCHANGED <<pc, outcome, log, confirmed, abandoned>>
    BY <1>8 DEF IngestSlot, execVars, chainVars
  <2>2. PICK vouched \in SUBSET Slots : \A kept : Moves(tracker, tracker', kept, {}, vouched)
    BY <1>8, IngestSlotMoves
  <2>3. Moves(tracker, tracker', LandedIn(tracker), {}, vouched)
    BY <2>2
  <2>4. CASE pc \in {"flush", "drain", "end"}
    BY <1>0, <2>1, <2>3, <2>4, ReportsKept
  <2>5. CASE pc \notin {"flush", "drain", "end"}
    BY <1>0, <2>1, <2>5, ReportsFailure
  <2> QED
    BY <2>4, <2>5
<1>9. CASE Environment \/ UNCHANGED vars
  <2>1. UNCHANGED <<tracker, pc, outcome, log>>
    BY <1>9 DEF vars, Environment, Accept, JitoAnswer, NewSlot, Land, ConfirmSlot, FinalizeSlot,
       AbandonSlot, execVars
  <2>2. confirmed' \in Nat /\ confirmed <= confirmed' /\ (abandoned' = {} => abandoned = {})
    BY <1>0, <1>9, SlotsAssumption DEF vars, Environment, Accept, JitoAnswer, NewSlot, Land,
       ConfirmSlot, FinalizeSlot, AbandonSlot, chainVars
  <2>3. \A s \in Sigs : Told(s) => outcome[s].slot \in Nat
    BY <1>0, ReportedSlot, SlotsAssumption
  <2>4. \A s, slot : OnRecord(s, slot) => OnRecord(s, slot)'
    BY <2>1 DEF OnRecord, RecordsOf, AllRecords, IsActive
  <2> SUFFICES ASSUME NEW s \in Sigs, Told(s)'
               PROVE  /\ pc' \in {"flush", "drain", "end"}
                      /\ outcome'[s].slot <= confirmed'
                      /\ abandoned' = {} => OnRecord(s, outcome[s].slot)'
    BY DEF Reports
  <2>5. Told(s)
    BY <2>1 DEF Told
  <2>6. /\ pc \in {"flush", "drain", "end"} /\ outcome[s].slot <= confirmed
        /\ abandoned = {} => OnRecord(s, outcome[s].slot)
    BY <2>5 DEF Reports
  <2>7. abandoned' = {} => OnRecord(s, outcome[s].slot)'
    BY <2>1, <2>2, <2>6 DEF OnRecord, RecordsOf, AllRecords, IsActive
  <2> QED
    BY <1>0, <2>1, <2>2, <2>3, <2>5, <2>6, <2>7
<1> QED
  BY <1>1, <1>2, <1>3, <1>4, <1>5, <1>6, <1>7, <1>8, <1>9 DEF Next, Executor

LEMMA TruthAlways == Spec => [](OnChain /\ SlotsConfirmed /\ Reports)
<1>1. Init => OnChain /\ SlotsConfirmed /\ Reports
  BY OnChainInit, SlotsConfirmedInit DEF Init, Reports, Told
<1> QED
  BY <1>1, OnChainStep, SlotsConfirmedStep, ReportsStep, OrderAlways, PTL DEF Spec

(* An attempt reported as landed stays on record as a success in that slot, *)
(* whatever the stream, the flush and the drain do after it.               *)
THEOREM LandingsKept == Spec => []LandedStaysLanded
<1>1. Reports => LandedStaysLanded
  BY DEF Reports, Told, OnRecord, LandedStaysLanded
<1> QED
  BY <1>1, TruthAlways, PTL

(* Success on record is success on chain, and what the agent was told      *)
(* landed is in a confirmed slot, for every chain and every retry budget.  *)
THEOREM SuccessTrue == Spec => []SuccessIsOnChain
<1>1. Ordered /\ OnChain /\ Reports => SuccessIsOnChain
  <2> SUFFICES ASSUME Ordered, OnChain, Reports, abandoned = {}, NEW s \in Sigs
               PROVE  /\ \A r \in RecordsOf(s) :
                           r.landed_slot # None =>
                             /\ tx[s].st = "landed" /\ tx[s].slot = r.landed_slot
                             /\ r.failure = None => ~ tx[s].failed
                      /\ outcome[s] # None /\ outcome[s].landed => outcome[s].slot <= confirmed
    BY DEF SuccessIsOnChain
  <2>1. ASSUME NEW r \in RecordsOf(s) PROVE Honest(r) /\ r.signature = s
    BY <2>1 DEF RecordsOf, IsActive, OnChain, AllHonest, Ordered, Types, Sound, Follows
  <2> QED
    BY <2>1 DEF Honest, ExecutedAt, Reports, Told
<1> QED
  BY <1>1, OrderAlways, TruthAlways, PTL
-------------------------------------------------------------------------------
(* What each attempt looks like to the abstract Lifecycle: its stage and   *)
(* slot while the tracker follows it, and how its records say it ended,    *)
(* whether they still wait in the tracker or are in the log.               *)
StageOf(sig) == IF IsActive(tracker, sig) THEN tracker.active[sig].stage ELSE None
SlotOf(sig)  == IF IsActive(tracker, sig) THEN tracker.active[sig].record.landed_slot ELSE None

EndOf(rec) == [slot |-> rec.landed_slot, failed |-> rec.failure # None]

EndsOf(seq, sig) == {EndOf(seq[i]) : i \in {k \in DOMAIN seq : seq[k].signature = sig}}

Attempt(sig) == INSTANCE Lifecycle WITH
    stage    <- StageOf(sig),
    slot     <- SlotOf(sig),
    outcomes <- EndsOf(AllRecords, sig)

Seen(sig) == <<StageOf(sig), SlotOf(sig), EndsOf(AllRecords, sig)>>

(* Each attempt lives one lifecycle, from its broadcast to the log, while  *)
(* the executor, Jito, the timeout, the flush and the stream race to move  *)
(* and to close it: it goes forward stage by stage and ends once, as a     *)
(* success only in the slot it landed in, and no late update or drain      *)
(* reopens or rewrites it.                                                 *)
AttemptsLiveOnce ==
    /\ \A sig \in Sigs : Attempt(sig)!Init
    /\ [][\A sig \in Sigs : [Attempt(sig)!Next]_<<StageOf(sig), SlotOf(sig), EndsOf(AllRecords, sig)>>]_vars

\* Past the records of the first n attempts, in order, nothing is recorded.
LEMMA NoEndsAhead ==
    ASSUME NEW seq \in Seq(Record), Numbered(seq), NEW sig \in Nat, Len(seq) < sig
    PROVE  EndsOf(seq, sig) = {}
<1>1. DOMAIN seq = 1 .. Len(seq) /\ Len(seq) \in Nat
  BY LenProperties
<1>2. \A k \in DOMAIN seq : seq[k].signature # sig
  BY <1>1 DEF Numbered
<1> QED
  BY <1>2 DEF EndsOf

(* While an attempt is followed, and before it is, it has not ended.       *)
LEMMA NoEndYet ==
    ASSUME Ordered, NEW sig \in Sigs
    PROVE  /\ sig \in DOMAIN tracker.active => EndsOf(AllRecords, sig) = {}
           /\ pc = "sending" /\ sig = attempt => EndsOf(AllRecords, sig) = {}
<1>1. /\ AllRecords \in Seq(Record) /\ Numbered(AllRecords) /\ Len(AllRecords) \in Nat
      /\ \/ DOMAIN tracker.active = {} /\ Len(AllRecords) = Recorded
         \/ DOMAIN tracker.active = {Recorded} /\ Len(AllRecords) = Recorded - 1
  BY AllRecordsType, LenProperties DEF Ordered, InOrder, OneOpen, AllRecords
<1>2. sig \in Nat /\ attempt \in Nat
  BY BudgetAssumption DEF Ordered, Types
<1>3. ASSUME sig \in DOMAIN tracker.active PROVE Len(AllRecords) < sig
  <2>1. sig = Recorded /\ Len(AllRecords) = Recorded - 1
    BY <1>1, <1>3
  <2> QED
    BY <1>2, <2>1
<1>4. ASSUME pc = "sending", sig = attempt PROVE Len(AllRecords) < sig
  <2>1. DOMAIN tracker.active = {} /\ Recorded = attempt - 1
    BY <1>4 DEF Ordered, InOrder, Idle, Recorded
  <2>2. Len(AllRecords) = attempt - 1
    BY <1>1, <2>1
  <2> QED
    BY <1>2, <1>4, <2>2
<1> QED
  BY <1>1, <1>2, <1>3, <1>4, NoEndsAhead

(* How attempts ended, in a longer history.                                *)
LEMMA EndsGrow ==
    ASSUME NEW h \in Seq(Record), NEW m \in Seq(Record), NEW sig
    PROVE  EndsOf(h \o m, sig) = EndsOf(h, sig) \cup EndsOf(m, sig)
<1> DEFINE hm == h \o m
<1>1. /\ Len(h) \in Nat /\ DOMAIN h = 1 .. Len(h)
      /\ Len(m) \in Nat /\ DOMAIN m = 1 .. Len(m)
      /\ DOMAIN hm = 1 .. Len(h) + Len(m)
      /\ \A i \in DOMAIN h : hm[i] = h[i]
      /\ \A i \in DOMAIN m : hm[Len(h) + i] = m[i]
      /\ \A k \in 1 .. Len(h) + Len(m) :
           k \in DOMAIN h \/ (k - Len(h) \in DOMAIN m /\ hm[k] = m[k - Len(h)])
  BY ConcatIndex
<1> HIDE DEF hm
<1>2. ASSUME NEW e \in EndsOf(hm, sig) PROVE e \in EndsOf(h, sig) \cup EndsOf(m, sig)
  <2>1. PICK k \in DOMAIN hm : hm[k].signature = sig /\ e = EndOf(hm[k])
    BY <1>2 DEF EndsOf
  <2>2. CASE k \in DOMAIN h
    BY <1>1, <2>1, <2>2 DEF EndsOf
  <2>3. CASE k - Len(h) \in DOMAIN m /\ hm[k] = m[k - Len(h)]
    BY <2>1, <2>3 DEF EndsOf
  <2> QED
    BY <1>1, <2>1, <2>2, <2>3
<1>3. ASSUME NEW e \in EndsOf(h, sig) PROVE e \in EndsOf(hm, sig)
  <2>1. PICK k \in DOMAIN h : h[k].signature = sig /\ e = EndOf(h[k])
    BY <1>3 DEF EndsOf
  <2>2. k \in DOMAIN hm /\ hm[k] = h[k]
    BY <1>1
  <2> QED
    BY <2>1, <2>2 DEF EndsOf
<1>4. ASSUME NEW e \in EndsOf(m, sig) PROVE e \in EndsOf(hm, sig)
  <2>1. PICK k \in DOMAIN m : m[k].signature = sig /\ e = EndOf(m[k])
    BY <1>4 DEF EndsOf
  <2>2. Len(h) + k \in DOMAIN hm /\ hm[Len(h) + k] = m[k]
    BY <1>1
  <2> QED
    BY <2>1, <2>2 DEF EndsOf
<1>5. EndsOf(hm, sig) = EndsOf(h, sig) \cup EndsOf(m, sig)
  BY <1>2, <1>3, <1>4
<1> QED
  BY <1>5 DEF hm

(* A step that moves attempts is one step of each lifecycle, or none.      *)
LEMMA MovesLive ==
    ASSUME Ordered, NEW kept, NEW news \in SUBSET News, NEW vouched \in SUBSET Slots,
           Moves(tracker, tracker', kept, news, vouched), log' = log, NEW sig \in Sigs
    PROVE  [Attempt(sig)!Next]_(Seen(sig))
<1>1. IsTracker(tracker) /\ log \in Seq(Record) /\ tracker.completed \in Seq(Record)
      /\ AllRecords \in Seq(Record)
  BY AllRecordsType DEF Ordered, Types, IsTracker
<1>2. PICK m \in Seq(Record) : Appends(tracker, tracker', m, kept, news, vouched)
  BY DEF Moves
<1>3. EndsOf(AllRecords, sig)' = EndsOf(AllRecords, sig) \cup EndsOf(m, sig)
  <2>1. tracker'.completed = tracker.completed \o m
    BY <1>2 DEF Appends
  <2>2. log \o (tracker.completed \o m) = (log \o tracker.completed) \o m
    BY <1>1, RecordsAssociate, Zenon
  <2>3. AllRecords' = AllRecords \o m
    BY <2>1, <2>2 DEF AllRecords
  <2>4. EndsOf(AllRecords \o m, sig) = EndsOf(AllRecords, sig) \cup EndsOf(m, sig)
    BY <1>1, EndsGrow
  <2>5. EndsOf(AllRecords', sig) = EndsOf(AllRecords, sig) \cup EndsOf(m, sig)
    BY <2>3, <2>4
  <2>6. EndsOf(AllRecords, sig)' = EndsOf(AllRecords', sig)
    BY DEF EndsOf
  <2> QED
    BY <2>5, <2>6
<1>4. ASSUME sig \notin DOMAIN tracker.active \ DOMAIN tracker'.active
      PROVE  EndsOf(AllRecords, sig)' = EndsOf(AllRecords, sig)
  <2>1. \A i \in DOMAIN m : m[i].signature # sig
    BY <1>2, <1>4 DEF Appends
  <2>2. EndsOf(m, sig) = {}
    BY <2>1 DEF EndsOf
  <2> QED
    BY <1>3, <2>2
<1>5. CASE sig \notin DOMAIN tracker.active
  <2>1. sig \notin DOMAIN tracker'.active
    BY <1>2, <1>5 DEF Appends
  <2> QED
    BY <1>4, <1>5, <2>1 DEF Seen, StageOf, SlotOf, IsActive
<1>6. CASE sig \in DOMAIN tracker'.active
  <2> DEFINE t  == tracker.active[sig]
             t2 == tracker'.active[sig]
  <2>1. Stays(t, t2, news, vouched) /\ sig \in DOMAIN tracker.active
    BY <1>2, <1>6 DEF Appends
  <2>2. /\ StageOf(sig) = t.stage /\ StageOf(sig)' = t2.stage
        /\ SlotOf(sig) = t.record.landed_slot /\ SlotOf(sig)' = t2.record.landed_slot
        /\ EndsOf(AllRecords, sig)' = EndsOf(AllRecords, sig)
    BY <1>4, <1>6, <2>1 DEF StageOf, SlotOf, IsActive
  <2> HIDE DEF t, t2
  <2>3. CASE t2.stage = t.stage /\ t2.record.landed_slot = t.record.landed_slot
    BY <2>2, <2>3 DEF Seen
  <2>4. CASE /\ t.stage = Submitted /\ t2.stage = Processed
             /\ t.record.landed_slot = None /\ t2.record.landed_slot \in Slots
    <3>1. Attempt(sig)!Land
      BY <2>2, <2>4, NoneIsNoStage
      DEF Attempt!Land, Attempt!Followed, Attempt!Submitted, Attempt!Processed
    <3> QED
      BY <3>1 DEF Attempt!Next
  <2>5. CASE /\ t.stage = Processed /\ t2.stage = Confirmed
             /\ t2.record.landed_slot = t.record.landed_slot
    <3>1. Attempt(sig)!Confirm
      BY <2>2, <2>5, NoneIsNoStage
      DEF Levels, Attempt!Confirm, Attempt!Followed, Attempt!Processed, Attempt!Confirmed
    <3> QED
      BY <3>1 DEF Attempt!Next
  <2> QED
    BY <2>1, <2>3, <2>4, <2>5 DEF Stays, News, Saw
<1>7. CASE sig \in DOMAIN tracker.active \ DOMAIN tracker'.active
  <2> DEFINE t == tracker.active[sig]
  <2>1. PICK i \in DOMAIN m : m[i].signature = sig
    BY <1>2, <1>7 DEF Appends
  <2>2. EndsAs(t, m[i], news, vouched)
    BY <1>2, <2>1 DEF Appends
  <2>3. EndsOf(m, sig) = {EndOf(m[i])}
    <3>1. \A j \in DOMAIN m : m[j].signature = sig => j = i
      BY <1>2, <2>1 DEF Appends
    <3> QED
      BY <2>1, <3>1 DEF EndsOf
  <2>4. EndsOf(AllRecords, sig) = {}
    BY <1>7, NoEndYet
  <2>5. EndsOf(AllRecords, sig)' = {EndOf(m[i])}
    BY <1>3, <2>3, <2>4
  <2>6. /\ StageOf(sig) = t.stage /\ StageOf(sig)' = None
        /\ SlotOf(sig) = t.record.landed_slot /\ SlotOf(sig)' = None
    BY <1>7 DEF StageOf, SlotOf, IsActive
  <2>7. t.stage # None
    <3>1. t \in Entry
      BY <1>1, <1>7 DEF IsTracker
    <3> QED
      BY <3>1, NoneIsNoStage DEF Entry, Levels
  <2>8. EndOf(m[i]) = [slot |-> m[i].landed_slot, failed |-> m[i].failure # None]
    BY DEF EndOf
  <2> HIDE DEF t
  <2>9. CASE m[i].failure = None
    <3>1. m[i].landed_slot = t.record.landed_slot /\ t.record.landed_slot # None
      BY <2>2, <2>9, SlotsAssumption DEF EndsAs
    <3>2. Attempt(sig)!Succeed
      BY <2>5, <2>6, <2>7, <2>8, <2>9, <3>1
      DEF Attempt!Succeed, Attempt!Followed, Attempt!End, Attempt!Outcome
    <3> QED
      BY <3>2 DEF Attempt!Next
  <2>10. CASE m[i].failure # None /\ m[i].landed_slot = t.record.landed_slot
    <3>1. Attempt(sig)!Fail
      BY <2>5, <2>6, <2>7, <2>8, <2>10
      DEF Attempt!Fail, Attempt!Followed, Attempt!End, Attempt!Outcome
    <3> QED
      BY <3>1 DEF Attempt!Next
  <2>11. CASE /\ m[i].failure # None /\ t.record.landed_slot = None
              /\ m[i].landed_slot \in Slots
    <3>1. Attempt(sig)!Revert
      BY <2>5, <2>6, <2>7, <2>8, <2>11
      DEF Attempt!Revert, Attempt!Followed, Attempt!End, Attempt!Outcome
    <3> QED
      BY <3>1 DEF Attempt!Next
  <2> QED
    BY <2>2, <2>9, <2>10, <2>11 DEF EndsAs, News, Saw
<1> QED
  BY <1>5, <1>6, <1>7

(* The record of the attempt just sent is opened: its lifecycle begins.    *)
LEMMA SendLives ==
    ASSUME Ordered, SendOk \/ SendErr, NEW sig \in Sigs
    PROVE  [Attempt(sig)!Next]_(Seen(sig))
<1>1. /\ tracker' = Track(tracker, NewRecord(attempt, blockhash)) /\ log' = log /\ pc = "sending"
      /\ attempt \in Sigs /\ blockhash \in Heights /\ DOMAIN tracker.active = {}
      /\ IsTracker(tracker) /\ Sound(tracker)
  BY DEF SendOk, SendErr, Ordered, Types, InOrder, Attempting, Idle
<1>2. /\ tracker'.completed = tracker.completed
      /\ DOMAIN tracker'.active = {attempt}
      /\ tracker'.active[attempt].stage = Submitted
      /\ tracker'.active[attempt].record.landed_slot = None
  BY <1>1, TrackFollows
<1>3. AllRecords' = AllRecords
  BY <1>1, <1>2 DEF AllRecords
<1>4. EndsOf(AllRecords, sig)' = EndsOf(AllRecords, sig)
  BY <1>3 DEF EndsOf
<1>5. CASE sig = attempt
  <2>1. EndsOf(AllRecords, sig) = {}
    BY <1>1, <1>5, NoEndYet
  <2>2. /\ StageOf(sig) = None /\ StageOf(sig)' = Submitted
        /\ SlotOf(sig) = None /\ SlotOf(sig)' = None
    BY <1>1, <1>2, <1>5 DEF StageOf, SlotOf, IsActive
  <2>3. Attempt(sig)!Submit
    BY <1>4, <2>1, <2>2 DEF Attempt!Submit, Attempt!Followed, Attempt!Submitted
  <2> QED
    BY <2>3 DEF Attempt!Next
<1>6. CASE sig # attempt
  <2>1. StageOf(sig)' = StageOf(sig) /\ SlotOf(sig)' = SlotOf(sig)
    BY <1>1, <1>2, <1>6 DEF StageOf, SlotOf, IsActive
  <2> QED
    BY <1>4, <2>1 DEF Seen
<1> QED
  BY <1>5, <1>6

LEMMA StepLives ==
    ASSUME Ordered, SeenType, Next, NEW sig \in Sigs
    PROVE  [Attempt(sig)!Next]_(Seen(sig))
<1>0. IsTracker(tracker) /\ Sound(tracker) /\ {} \in SUBSET News /\ {} \in SUBSET Slots
  BY DEF Ordered, Types
<1>1. CASE UNCHANGED <<tracker, log>>
  BY <1>1 DEF Seen, StageOf, SlotOf, EndsOf, AllRecords, IsActive
<1>2. CASE SendOk \/ SendErr
  BY <1>2, SendLives
<1>3. ASSUME NEW class \in FailureClass, Close(class), attempt \in Sigs, log' = log
      PROVE  [Attempt(sig)!Next]_(Seen(sig))
  <2>1. Moves(tracker, tracker', {}, {}, {})
    BY <1>0, <1>3, FailMoves DEF Close
  <2> QED
    BY <1>0, <1>3, <2>1, MovesLive
<1>4. CASE CloseUnsent \/ CheckTimeout \/ JitoReply
  <2>1. attempt \in Sigs
    BY <1>4 DEF CloseUnsent, CheckTimeout, JitoReply, Ordered, InOrder, Attempting
  <2>2. log' = log
    BY <1>4 DEF CloseUnsent, CheckTimeout, JitoReply
  <2>3. tracker' = tracker \/ \E class \in FailureClass : Close(class)
    BY <1>4, SendErrorsAssumption DEF CloseUnsent, CheckTimeout, JitoReply, FailureClass
  <2> QED
    BY <1>1, <1>3, <2>1, <2>2, <2>3
<1>5. CASE FinalizePending
  <2>1. Moves(tracker, tracker', LandedIn(tracker), {}, Slots) /\ log' = log
    BY <1>0, <1>5, FlushMoves DEF FinalizePending
  <2> QED
    BY <1>0, <2>1, MovesLive
<1>6. CASE DrainRecords
  <2>1. log' = log \o tracker.completed /\ tracker' = DrainCompleted(tracker)
    BY <1>6 DEF DrainRecords
  <2>2. tracker'.active = tracker.active /\ tracker'.completed = <<>>
    BY <1>0, <2>1 DEF DrainCompleted, IsTracker
  <2>3. (log \o tracker.completed) \o <<>> = log \o tracker.completed
    BY <1>0, ConcatProperties, ConcatEmptySeq DEF Ordered, Types, IsTracker
  <2>4. AllRecords' = AllRecords
    BY <2>1, <2>2, <2>3 DEF AllRecords
  <2> QED
    BY <2>2, <2>4 DEF Seen, StageOf, SlotOf, EndsOf, IsActive
<1>7. CASE IngestTransaction
  <2>1. log' = log
    BY <1>7 DEF IngestTransaction, execVars
  <2>2. PICK n \in seen :
          n \in News /\ \A kept : (n.failed => n.sig \notin kept) => Moves(tracker, tracker', kept, {n}, {})
    BY <1>0, <1>7, IngestMoves
  <2>3. Moves(tracker, tracker', {}, {n}, {}) /\ {n} \in SUBSET News
    BY <2>2
  <2> QED
    BY <1>0, <2>1, <2>3, MovesLive
<1>8. CASE IngestSlot
  <2>1. log' = log
    BY <1>8 DEF IngestSlot, execVars
  <2>2. PICK vouched \in SUBSET Slots : \A kept : Moves(tracker, tracker', kept, {}, vouched)
    BY <1>8, IngestSlotMoves
  <2>3. Moves(tracker, tracker', {}, {}, vouched)
    BY <2>2
  <2> QED
    BY <1>0, <2>1, <2>3, MovesLive
<1>9. CASE Environment \/ Decide(FALSE) \/ Decide(TRUE) \/ GiveUp \/ AgentError \/ CheckOutcome \/ CheckProgress
  <2>1. UNCHANGED <<tracker, log>>
    BY <1>9 DEF Environment, Accept, JitoAnswer, NewSlot, Land, ConfirmSlot, FinalizeSlot, AbandonSlot,
       Decide, GiveUp, AgentError, CheckOutcome, CheckProgress, execVars
  <2> QED
    BY <1>1, <2>1
<1> QED
  BY <1>2, <1>4, <1>5, <1>6, <1>7, <1>8, <1>9 DEF Next, Executor

(* The tracker implements Lifecycle for each attempt not only under any    *)
(* calls, as LifecycleTracker shows, but within the program that makes     *)
(* them and up to the log, for every chain, retry budget and timeout.      *)
THEOREM AttemptsImplement == Spec => AttemptsLiveOnce
<1>1. Init => \A sig \in Sigs : Attempt(sig)!Init
  <2> SUFFICES ASSUME Init, NEW sig \in Sigs PROVE Attempt(sig)!Init
    OBVIOUS
  <2>1. AllRecords = <<>> /\ DOMAIN tracker.active = {}
    BY EmptySeq, ConcatEmptySeq DEF Init, EmptyTracker, AllRecords
  <2>2. EndsOf(AllRecords, sig) = {}
    BY <2>1, EmptySeq DEF EndsOf
  <2> QED
    BY <2>1, <2>2 DEF Attempt!Init, StageOf, SlotOf, IsActive
<1>2. Ordered /\ SeenType /\ [Next]_vars =>
        [\A sig \in Sigs : [Attempt(sig)!Next]_<<StageOf(sig), SlotOf(sig), EndsOf(AllRecords, sig)>>]_vars
  BY StepLives DEF Seen
<1> QED
  BY <1>1, <1>2, OrderAlways, PTL DEF Spec, AttemptsLiveOnce
================================================================================
