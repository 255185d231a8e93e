---------------------------- MODULE CampaignProofs -----------------------------
(***************************************************************************)
(* What a run keeps for every number of transactions and every budget.     *)
(***************************************************************************)
EXTENDS Campaign, TrackerOpsProofs

(***************************************************************************)
(* The attempt loop counts failures, the executor counts attempts: between *)
(* two attempts the two agree, during an attempt they differ by one, and   *)
(* past the decider there is budget left, or nothing has failed yet.       *)
(***************************************************************************)
CountersType ==
    /\ retries \in Nat /\ attempt \in Nat /\ first \in Nat /\ txn \in Nat
    /\ mode \in {"campaign", "live", "demo"}

Between == {"preflight", "begin", "context", "decide", "refresh", "submit"}
During  == {"send", "unsent", "confirm", "note"}

Counted ==
    /\ pc \in Between => attempt - first = retries
    /\ pc \in During  => attempt - first = retries + 1
    /\ pc = "open" /\ mode = "campaign" => attempt - first = retries
    /\ pc \in {"refresh", "submit"} => retries = 0 \/ retries < Budget

BudgetInv == CountersType /\ Counted /\ BudgetKept

LEMMA BudgetInit == Init => BudgetInv
BY CountAssumption, RetryAssumption
DEF Init, StartDemo, StartLive, BudgetInv, CountersType, Counted, BudgetKept, Between, During, Starving

(* The loop's decision.                                                    *)
LEMMA BudgetDecide == BudgetInv /\ Decide => BudgetInv'
<1> SUFFICES ASSUME BudgetInv, Decide PROVE BudgetInv'
  OBVIOUS
<1>1. /\ UNCHANGED <<mode, txn, attempt, first, retries>>
      /\ pc = "decide"
      /\ \/ pc' \in {"flush", "error"}
         \/ pc' \in {"refresh", "submit"} /\ Chosen # {"Abort"}
  BY DEF Decide, Finish, started, loopVars
<1>2. Chosen # {"Abort"} => ~ (retries > 0 /\ retries >= Budget)
  BY DEF Chosen
<1>3. Budget \in Nat /\ Budget' = Budget /\ Starving' = Starving
  BY <1>1, RetryAssumption DEF Budget, Starving
<1> QED
  BY <1>1, <1>2, <1>3 DEF BudgetInv, CountersType, Counted, BudgetKept, Between, During

(* The steps that take an attempt id.                                      *)
LEMMA BudgetSubmit ==
    BudgetInv /\ (SubmitFails \/ InjectExpiry \/ SubmitSimulated \/ SubmitLive) => BudgetInv'
<1> SUFFICES ASSUME BudgetInv, SubmitFails \/ InjectExpiry \/ SubmitSimulated \/ SubmitLive
             PROVE  BudgetInv'
  OBVIOUS
<1>1. /\ UNCHANGED <<mode, txn, first, retries>>
      /\ pc = "submit" /\ attempt' = attempt + 1
      /\ pc' \in {"error", "note", "send"}
  BY DEF SubmitFails, InjectExpiry, SubmitSimulated, SubmitLive, Sign, Take, started, loopVars
<1>2. Budget = (IF Starving THEN 0 ELSE MaxRetries) /\ Starving' = Starving
  BY <1>1 DEF Budget, Starving
<1> QED
  BY <1>1, <1>2, RetryAssumption
  DEF BudgetInv, CountersType, Counted, BudgetKept, Between, During

(* An outcome reaches the loop.                                            *)
LEMMA BudgetNote == BudgetInv /\ Note => BudgetInv'
<1> SUFFICES ASSUME BudgetInv, Note PROVE BudgetInv'
  OBVIOUS
<1>1. /\ UNCHANGED <<mode, txn, attempt, first>>
      /\ pc = "note"
      /\ \/ pc' = "flush" /\ retries' = retries
         \/ pc' = "context" /\ retries' = retries + 1
  BY DEF Note, Finish, started
<1>2. Starving' = Starving
  BY <1>1 DEF Starving
<1>3. attempt - first = retries + 1 /\ BudgetKept'
  BY <1>1, <1>2 DEF BudgetInv, Counted, BudgetKept, During
<1>4. CASE pc' = "flush" /\ retries' = retries
  BY <1>1, <1>3, <1>4 DEF BudgetInv, CountersType, Counted, Between, During
<1>5. CASE pc' = "context" /\ retries' = retries + 1
  BY <1>1, <1>3, <1>5 DEF BudgetInv, CountersType, Counted, Between, During
<1> QED
  BY <1>1, <1>4, <1>5

(* The next transaction starts with counters of its own.                   *)
LEMMA BudgetNextTransaction == BudgetInv /\ NextTransaction => BudgetInv'
<1> SUFFICES ASSUME BudgetInv, NextTransaction PROVE BudgetInv'
  OBVIOUS
<1>1. /\ mode' = mode /\ attempt' = attempt
      /\ \/ pc' = "begin" /\ txn' = txn + 1 /\ first' = attempt /\ retries' = 0
         \/ pc' = "done" /\ UNCHANGED <<txn, first, retries>>
  BY DEF NextTransaction, started
<1>2. CASE pc' = "begin" /\ txn' = txn + 1 /\ first' = attempt /\ retries' = 0
  BY <1>1, <1>2, RetryAssumption
  DEF BudgetInv, CountersType, Counted, BudgetKept, Between, During, Starving
<1>3. CASE pc' = "done" /\ UNCHANGED <<txn, first, retries>>
  <2>1. Starving' = Starving
    BY <1>1, <1>3 DEF Starving
  <2> QED
    BY <1>1, <1>3, <2>1 DEF BudgetInv, CountersType, Counted, BudgetKept, Between, During
<1> QED
  BY <1>1, <1>2, <1>3

(* The steps that leave the counters alone and cannot pass the decider.    *)
LEMMA BudgetRest ==
    ASSUME BudgetInv, UNCHANGED <<mode, txn, attempt, first, retries>>,
           \/ pc' = pc
           \/ pc' \in {"flush", "drain", "append", "done", "error", "dropped"}
           \/ pc \in Between /\ pc' \in Between \ {"refresh", "submit"}
           \/ pc = "preflight" /\ pc' = "open"
           \/ pc = "open" /\ mode = "campaign" /\ pc' = "begin"
           \/ mode # "campaign" /\ pc' = "open"
           \/ pc = "refresh" /\ pc' = "submit"
           \/ pc \in During /\ pc' \in During
    PROVE  BudgetInv'
<1>1. Starving' = Starving /\ Budget' = Budget
  BY DEF Starving, Budget
<1> QED
  BY <1>1 DEF BudgetInv, CountersType, Counted, BudgetKept, Between, During

LEMMA BudgetStep == BudgetInv /\ [Next]_vars => BudgetInv'
<1> SUFFICES ASSUME BudgetInv, [Next]_vars PROVE BudgetInv'
  OBVIOUS
<1> USE DEF Between, During, started, loopVars, Goto, Ui
<1>1. CASE Preflight
  BY <1>1, BudgetRest DEF Preflight
<1>2. CASE OpenLog
  BY <1>2, BudgetRest DEF OpenLog
<1>3. CASE Begin
  BY <1>3, BudgetRest DEF Begin
<1>4. CASE BuildContext
  BY <1>4, BudgetRest DEF BuildContext
<1>5. CASE Refresh
  BY <1>5, BudgetRest DEF Refresh
<1>6. CASE Send
  BY <1>6, BudgetRest DEF Send
<1>7. CASE Close
  BY <1>7, BudgetRest DEF Close
<1>8. CASE SeeOutcome
  BY <1>8, BudgetRest DEF SeeOutcome
<1>9. CASE SeeConfirmed
  BY <1>9, BudgetRest DEF SeeConfirmed, Finish
<1>10. CASE FinalizePending
  BY <1>10, BudgetRest DEF FinalizePending
<1>11. CASE DrainRecords
  BY <1>11, BudgetRest DEF DrainRecords
<1>12. CASE AppendRecord \/ AppendFails
  BY <1>12, BudgetRest DEF AppendRecord, AppendFails
<1>13. CASE Ingest
  BY <1>13, BudgetRest DEF Ingest
<1>14. CASE Quit \/ SeeFinished \/ Join \/ DrawFails
  BY <1>14, BudgetRest DEF Quit, SeeFinished, Join, DrawFails
<1>15. CASE UNCHANGED vars
  BY <1>15, BudgetRest DEF vars
<1> QED
  BY <1>1, <1>2, <1>3, <1>4, <1>5, <1>6, <1>7, <1>8, <1>9, <1>10, <1>11, <1>12, <1>13, <1>14, <1>15,
     BudgetDecide, BudgetSubmit, BudgetNote, BudgetNextTransaction DEF Next, Run

(* No transaction is tried more often than its budget allows: a starved    *)
(* one once, any other max_retries times, whatever the decider chooses.    *)
THEOREM Budgeted == Spec => []BudgetKept
<1>1. BudgetInv => BudgetKept
  BY DEF BudgetInv
<1> QED
  BY <1>1, BudgetInit, BudgetStep, PTL DEF Spec

-------------------------------------------------------------------------------
(***************************************************************************)
(* The file.  While the run goes on the attempts have their records, in    *)
(* order, in the file, among the drained records or in the tracker, and    *)
(* only the last one may still be followed.                                *)
(***************************************************************************)
Lines == [record : Record, glued : BOOLEAN]

\* The attempts whose record has been opened.
Recorded == IF pc = "send" THEN attempt - 1 ELSE attempt

\* Where nothing is followed.
Alone == Between \cup {"open", "send", "note", "drain", "append"}

LogTypes ==
    /\ IsTracker(tracker) /\ Sound(tracker)
    /\ pending \in Seq(Record) /\ log \in Seq(Lines) /\ torn \in BOOLEAN
    /\ txn \in Txns /\ first <= (txn - 1) * MaxRetries

InOrder ==
    /\ Numbered(Accounts)
    /\ ~ Ended => OneOpen(tracker, Written \o pending, Recorded)
    /\ pc \in Alone => DOMAIN tracker.active = {}
    /\ pc = "append" => tracker.completed = <<>>
    /\ ~ Ended /\ pc # "append" => pending = <<>>
    /\ ~ Ended /\ torn => log = <<>>
    /\ \A i \in DOMAIN log : log[i].glued => i = 1
    /\ pc = "done" => Len(log) = attempt /\ pending = <<>> /\ tracker.completed = <<>>

Kept == BudgetInv /\ LogTypes /\ InOrder

LEMMA KeptProperty == Kept => LogInOrder
<1> SUFFICES ASSUME Kept PROVE LogInOrder
  OBVIOUS
<1>1. /\ \A i \in DOMAIN Accounts : Accounts[i].signature = i
      /\ \A i \in DOMAIN log : log[i].glued => i = 1
      /\ pc = "done" => Len(log) = attempt
  BY DEF Kept, InOrder, Numbered
<1>2. ASSUME ~ Ended
      PROVE  \/ DOMAIN tracker.active = {} /\ Len(Accounts) = attempt - (IF pc = "send" THEN 1 ELSE 0)
             \/ DOMAIN tracker.active = {attempt} /\ Len(Accounts) = attempt - 1
  <2>1. attempt \in Nat
    BY DEF Kept, BudgetInv, CountersType
  <2>2. pc = "send" => DOMAIN tracker.active = {}
    BY DEF Kept, InOrder, Alone
  <2>3. \/ DOMAIN tracker.active = {} /\ Len(Accounts) = Recorded
        \/ DOMAIN tracker.active = {Recorded} /\ Len(Accounts) = Recorded - 1
    BY <1>2 DEF Kept, InOrder, OneOpen, Accounts
  <2> QED
    BY <2>1, <2>2, <2>3 DEF Recorded
<1> QED
  BY <1>1, <1>2 DEF LogInOrder

(* The records of the lines.                                               *)
LEMMA WrittenType ==
    ASSUME log \in Seq(Lines)
    PROVE  /\ Written \in Seq(Record) /\ Len(Written) = Len(log)
           /\ DOMAIN Written = DOMAIN log /\ DOMAIN log = 1 .. Len(log) /\ Len(log) \in Nat
<1>1. DOMAIN log = 1 .. Len(log) /\ Len(log) \in Nat
  BY LenProperties
<1>2. ASSUME NEW i \in 1 .. Len(log) PROVE log[i].record \in Record
  <2>1. log[i] \in Lines
    BY ElementOfSeq
  <2> QED
    BY <2>1 DEF Lines
<1>3. Written = [i \in 1 .. Len(log) |-> log[i].record]
  BY <1>1 DEF Written
<1> DEFINE n == Len(log)
<1>4. n \in Nat /\ Written \in [1 .. n -> Record]
  BY <1>1, <1>2, <1>3
<1>5. Written \in Seq(Record)
  BY <1>4, SeqDef
<1>6. DOMAIN Written = 1 .. Len(Written) /\ Len(Written) \in Nat
  BY <1>5, LenProperties
<1>7. Len(Written) = n
  BY <1>4, <1>6
<1> QED
  BY <1>1, <1>4, <1>5, <1>7

(* A budget per transaction bounds the attempt ids.                        *)
LEMMA Cycle ==
    ASSUME NEW t \in Txns, NEW f \in Nat, f <= (t - 1) * MaxRetries,
           NEW a \in Nat, a - f <= MaxRetries
    PROVE  a <= t * MaxRetries /\ a \in 0 .. Count * MaxRetries
<1>1. t \in Nat /\ t - 1 \in Nat /\ Count \in Nat /\ t <= Count /\ MaxRetries \in Nat
  BY CountAssumption, RetryAssumption DEF Txns
<1>2. (t - 1) * MaxRetries + MaxRetries = t * MaxRetries
  BY <1>1
<1>3. t * MaxRetries <= Count * MaxRetries
  BY <1>1
<1>4. (t - 1) * MaxRetries \in Nat /\ t * MaxRetries \in Nat /\ Count * MaxRetries \in Nat
  BY <1>1
<1> QED
  BY <1>1, <1>2, <1>3, <1>4

LEMMA AttemptRange ==
    Kept => /\ attempt <= txn * MaxRetries /\ attempt \in 0 .. Count * MaxRetries
            /\ pc \in During => attempt \in Sigs
<1> SUFFICES ASSUME Kept PROVE /\ attempt <= txn * MaxRetries /\ attempt \in 0 .. Count * MaxRetries
                               /\ pc \in During => attempt \in Sigs
  OBVIOUS
<1>1. /\ txn \in Txns /\ first \in Nat /\ attempt \in Nat /\ retries \in Nat
      /\ first <= (txn - 1) * MaxRetries
      /\ attempt - first <= MaxRetries
  BY RetryAssumption DEF Kept, BudgetInv, CountersType, BudgetKept, LogTypes
<1>2. attempt <= txn * MaxRetries /\ attempt \in 0 .. Count * MaxRetries
  BY <1>1, Cycle
<1>3. ASSUME pc \in During PROVE attempt \in Sigs
  <2>1. attempt - first = retries + 1
    BY <1>3 DEF Kept, BudgetInv, Counted
  <2>2. attempt # 0
    BY <1>1, <2>1
  <2> HIDE DEF Kept
  <2> DEFINE top == Count * MaxRetries
  <2>3. Sigs = 1 .. top /\ attempt \in 0 .. top
    BY <1>2, SigsAreAttempts
  <2>4. top \in Nat
    BY CountAssumption, RetryAssumption
  <2> HIDE DEF top
  <2> QED
    BY <2>2, <2>3, <2>4
<1> QED
  BY <1>2, <1>3

LEMMA KeptInit == Init => Kept
<1> SUFFICES ASSUME Init PROVE Kept
  OBVIOUS
<1>1. <<>> \in Seq(Record) /\ <<>> \in Seq(Lines) /\ DOMAIN (<<>>) = {} /\ Len(<<>>) = 0 /\ <<>> \o <<>> = <<>>
  BY EmptySeq, ConcatEmptySeq
<1>2. /\ tracker = EmptyTracker /\ pending = <<>> /\ log = <<>> /\ torn \in BOOLEAN
      /\ txn = 1 /\ first = 0 /\ attempt = 0
      /\ pc \in {"context", "preflight"}
  BY DEF Init, StartDemo, StartLive
<1>3. /\ IsTracker(tracker) /\ Sound(tracker)
      /\ DOMAIN tracker.active = {} /\ tracker.completed = <<>>
  BY <1>1, <1>2 DEF EmptyTracker, IsTracker, Sound
<1>4. Written = <<>>
  BY <1>1, <1>2 DEF Written
<1>5. OneOpen(tracker, Written \o pending, Recorded) /\ Numbered(Accounts)
  BY <1>1, <1>2, <1>3, <1>4 DEF OneOpen, Numbered, Accounts, Recorded
<1>6. LogTypes
  BY <1>1, <1>2, <1>3, CountAssumption, RetryAssumption DEF LogTypes, Txns
<1>7. InOrder
  BY <1>1, <1>2, <1>3, <1>5 DEF InOrder, Ended
<1> QED
  BY <1>6, <1>7, BudgetInit DEF Kept

-------------------------------------------------------------------------------
(* The steps that leave the tracker, the drained records and the file.     *)
LEMMA OrderSame ==
    ASSUME Kept, BudgetInv', UNCHANGED <<tracker, pending, log, torn, txn, first>>,
           \/ pc' \in {"error", "dropped"}
           \/ pc' = pc /\ attempt' = attempt
           \/ /\ ~ Ended /\ pc # "append" /\ Recorded' = Recorded
              /\ pc' \in Between \cup During \cup {"open", "flush", "drain"}
              /\ pc' \in Alone => DOMAIN tracker.active = {}
    PROVE  Kept'
<1>1. Written' = Written /\ Accounts' = Accounts
  BY DEF Written, Accounts
<1>2. LogTypes'
  BY DEF Kept, LogTypes
<1>3. CASE pc' \in {"error", "dropped"}
  <2>1. InOrder'
    BY <1>1, <1>3 DEF Kept, InOrder, Alone, Between, Ended
  <2> QED
    BY <1>2, <2>1 DEF Kept
<1>4. CASE pc' = pc /\ attempt' = attempt
  <2>1. Recorded' = Recorded /\ Ended' = Ended
    BY <1>4 DEF Recorded, Ended
  <2>2. InOrder'
    BY <1>1, <1>4, <2>1 DEF Kept, InOrder
  <2> QED
    BY <1>2, <2>2 DEF Kept
<1>5. CASE /\ ~ Ended /\ pc # "append" /\ Recorded' = Recorded
           /\ pc' \in Between \cup During \cup {"open", "flush", "drain"}
           /\ pc' \in Alone => DOMAIN tracker.active = {}
  <2>1. InOrder'
    BY <1>1, <1>5 DEF Kept, InOrder, Ended, Between, During
  <2> QED
    BY <1>2, <2>1 DEF Kept
<1> QED
  BY <1>3, <1>4, <1>5

LEMMA OrderControl ==
    ASSUME Kept, BudgetInv',
           \/ Preflight \/ OpenLog \/ Begin \/ BuildContext \/ Decide \/ Refresh \/ SubmitFails
           \/ SubmitLive \/ SeeConfirmed \/ Note \/ Quit \/ SeeFinished \/ Join \/ DrawFails
           \/ UNCHANGED vars
    PROVE  Kept'
<1>1. attempt \in Nat /\ (pc \in Alone => DOMAIN tracker.active = {})
  BY DEF Kept, BudgetInv, CountersType, InOrder
<1>2. CASE Preflight \/ OpenLog \/ Begin \/ BuildContext \/ Decide \/ Refresh
  <2>1. /\ UNCHANGED <<tracker, pending, log, torn, txn, first, attempt>>
        /\ pc \in {"preflight", "open", "begin", "context", "decide", "refresh"}
        /\ pc' \in {"open", "begin", "context", "decide", "refresh", "submit", "drain", "flush", "error"}
    BY <1>2 DEF Preflight, OpenLog, Begin, BuildContext, Decide, Refresh, Goto, Finish, fileVars
  <2> QED
    BY <1>1, <2>1, OrderSame DEF Alone, Between, Recorded, Ended
<1>3. CASE SubmitFails
  <2>1. UNCHANGED <<tracker, pending, log, torn, txn, first>> /\ pc' = "error"
    BY <1>3 DEF SubmitFails, fileVars
  <2> QED
    BY <2>1, OrderSame
<1>4. CASE SubmitLive
  <2>1. /\ UNCHANGED <<tracker, pending, log, torn, txn, first>>
        /\ pc = "submit" /\ pc' = "send" /\ attempt' = attempt + 1
    BY <1>4 DEF SubmitLive, Sign, Take, fileVars
  <2> QED
    BY <1>1, <2>1, OrderSame DEF Alone, Between, During, Recorded, Ended
<1>5. CASE SeeConfirmed
  <2>1. /\ UNCHANGED <<tracker, pending, log, torn, txn, first, attempt>>
        /\ pc = "confirm" /\ pc' = "flush"
    BY <1>5 DEF SeeConfirmed, Finish, fileVars
  <2> QED
    BY <2>1, OrderSame DEF Alone, Between, Recorded, Ended
<1>6. CASE Note
  <2>1. /\ UNCHANGED <<tracker, pending, log, torn, txn, first, attempt>>
        /\ pc = "note" /\ pc' \in {"flush", "context"}
    BY <1>6 DEF Note, Finish, fileVars
  <2> QED
    BY <1>1, <2>1, OrderSame DEF Alone, Between, Recorded, Ended
<1>7. CASE Quit \/ SeeFinished \/ Join \/ DrawFails \/ UNCHANGED vars
  <2>1. /\ UNCHANGED <<tracker, pending, log, torn, txn, first, attempt>>
        /\ pc' \in {pc, "dropped"}
    BY <1>7 DEF Quit, SeeFinished, Join, DrawFails, Ui, fileVars, vars
  <2> QED
    BY <2>1, OrderSame
<1> QED
  BY <1>2, <1>3, <1>4, <1>5, <1>6, <1>7

(* Several bundles move, or one; the executor's record stays open or ends. *)
LEMMA OrderMoves ==
    ASSUME Kept, BudgetInv', ~ Ended, IsTracker(tracker'),
           NEW kept, NEW news \in SUBSET News, NEW vouched,
           Moves(tracker, tracker', kept, news, vouched),
           UNCHANGED <<pending, log, torn, txn, first, attempt>>,
           \/ pc' = pc
           \/ /\ pc \notin {"send", "append"}
              /\ pc' \in {"note", "open", "drain"} /\ DOMAIN tracker'.active = {}
    PROVE  Kept'
<1>1. /\ IsTracker(tracker) /\ Sound(tracker)
      /\ pending \in Seq(Record) /\ log \in Seq(Lines)
      /\ OneOpen(tracker, Written \o pending, Recorded)
      /\ attempt \in Nat /\ (pc = "send" => attempt - 1 \in Nat)
  BY AttemptRange, SigsAreAttempts DEF Kept, LogTypes, InOrder, BudgetInv, CountersType, During
<1>2. Recorded \in Nat /\ Recorded' = Recorded
  BY <1>1 DEF Recorded
<1>3. Written' = Written /\ Written \o pending \in Seq(Record)
  BY <1>1, WrittenType, ConcatProperties DEF Written
<1>4. Sound(tracker')
  BY <1>1, MovesSound
<1>5. OneOpen(tracker', Written \o pending, Recorded)
  BY <1>1, <1>2, <1>3, MovesOneOpen
<1>6. DOMAIN tracker'.active \subseteq DOMAIN tracker.active
  BY DEF Moves, Appends
<1>7. LogTypes'
  BY <1>4 DEF Kept, LogTypes
<1>8. Numbered(Accounts)'
  BY <1>3, <1>5 DEF OneOpen, Accounts
<1>9. DOMAIN tracker.active = {} => tracker'.completed = tracker.completed
  <2>1. PICK m \in Seq(Record) : Appends(tracker, tracker', m, kept, news, vouched)
    BY DEF Moves
  <2> SUFFICES ASSUME DOMAIN tracker.active = {} PROVE tracker'.completed = tracker.completed
    OBVIOUS
  <2>2. DOMAIN m = {}
    BY <2>1 DEF Appends
  <2>3. m = <<>>
    BY <2>2, EmptySeq, LenProperties
  <2>4. tracker.completed \o m = tracker.completed
    BY <1>1, <2>3, ConcatEmptySeq DEF IsTracker
  <2> QED
    BY <2>1, <2>4 DEF Appends
<1>10. InOrder'
  <2>1. (pc \in Alone)' => DOMAIN tracker'.active = {}
    BY <1>6 DEF Kept, InOrder
  <2>2. pc' # "done" /\ ~ Ended' /\ (pc' = "append" => tracker'.completed = <<>>)
    BY <1>9 DEF Kept, InOrder, Alone, Ended
  <2> QED
    BY <1>2, <1>3, <1>5, <1>8, <2>1, <2>2 DEF Kept, InOrder
<1> QED
  BY <1>7, <1>10 DEF Kept

(* A step leaves the tracker with the record of the current attempt.       *)
LEMMA OrderSet ==
    ASSUME Kept, BudgetInv', ~ Ended, pc # "append",
           IsTracker(tracker'), Sound(tracker'), OneOpen(tracker', Written \o pending, Recorded'),
           UNCHANGED <<pending, log, torn, txn, first>>,
           pc' \in During \ {"send"}, pc' = "note" => DOMAIN tracker'.active = {}
    PROVE  Kept'
<1>1. Written' = Written
  BY DEF Written
<1>2. LogTypes'
  BY DEF Kept, LogTypes
<1>3. Numbered(Accounts)'
  BY <1>1 DEF OneOpen, Accounts
<1>4. InOrder'
  BY <1>1, <1>3 DEF Kept, InOrder, Alone, Between, During, Ended
<1> QED
  BY <1>2, <1>4 DEF Kept

(* The record of an attempt is opened.                                     *)
LEMMA OrderOpened ==
    ASSUME Kept, pc \in {"submit", "send"}, NEW n \in Nat, n = Recorded, n + 1 \in Sigs
    PROVE  LET after == Track(tracker, NewRecord(n + 1, Lvbh))
           IN  /\ IsTracker(after) /\ Sound(after)
               /\ OneOpen(after, Written \o pending, n + 1)
               /\ after.completed = tracker.completed
               /\ DOMAIN after.active = {n + 1}
               /\ after.active[n + 1].stage = Submitted
               /\ after.active[n + 1].record.landed_slot = None
<1>1. /\ IsTracker(tracker) /\ Sound(tracker) /\ DOMAIN tracker.active = {}
      /\ pending \in Seq(Record) /\ log \in Seq(Lines)
      /\ OneOpen(tracker, Written \o pending, n)
  BY DEF Kept, LogTypes, InOrder, Alone, Between, Ended
<1>2. Written \o pending \in Seq(Record)
  BY <1>1, WrittenType, ConcatProperties
<1>3. Lvbh \in Heights
  BY SomeHeight DEF Lvbh
<1>4. OneOpen(Track(tracker, NewRecord(n + 1, Lvbh)), Written \o pending, n + 1)
  BY <1>1, <1>2, <1>3, TrackOneOpen
<1> QED
  BY <1>1, <1>3, <1>4, TrackFollows

LEMMA OrderSend == Kept /\ BudgetInv' /\ Send => Kept'
<1> SUFFICES ASSUME Kept, BudgetInv', Send PROVE Kept'
  OBVIOUS
<1>1. /\ pc = "send" /\ pc' \in {"confirm", "unsent"}
      /\ tracker' = Track(tracker, NewRecord(attempt, Lvbh))
      /\ UNCHANGED <<pending, log, torn, txn, first, attempt>>
  BY DEF Send, SendResults, fileVars
<1> DEFINE n == attempt - 1
<1>2. attempt \in Nat /\ attempt \in Sigs
  BY <1>1, AttemptRange DEF Kept, BudgetInv, CountersType, During
<1>3. n \in Nat /\ n = Recorded /\ n + 1 = attempt /\ Recorded' = attempt
  <2>1. attempt >= 1
    BY <1>2, SigsAreAttempts
  <2> QED
    BY <1>1, <1>2, <2>1 DEF Recorded
<1> HIDE DEF n
<1>4. IsTracker(tracker') /\ Sound(tracker') /\ OneOpen(tracker', Written \o pending, attempt)
  BY <1>1, <1>2, <1>3, OrderOpened
<1> QED
  BY <1>1, <1>3, <1>4, OrderSet DEF During, Ended

(* There is room for the attempt the decider lets through.                 *)
LEMMA AttemptTaken ==
    ASSUME Kept, BudgetInv', pc = "submit", attempt' = attempt + 1, UNCHANGED <<txn, first>>
    PROVE  attempt \in Nat /\ attempt = Recorded /\ attempt + 1 \in Sigs
<1>1. /\ txn \in Txns /\ first \in Nat /\ attempt \in Nat /\ first <= (txn - 1) * MaxRetries
  BY DEF Kept, BudgetInv, CountersType, LogTypes
<1>2. attempt + 1 - first <= MaxRetries
  <2>1. attempt' - first' <= 1 \/ attempt' - first' <= MaxRetries
    BY DEF BudgetInv, BudgetKept
  <2>2. MaxRetries \in Nat /\ 1 <= MaxRetries
    BY RetryAssumption
  <2> QED
    BY <1>1, <2>1, <2>2
<1>3. attempt + 1 \in 0 .. Count * MaxRetries
  BY <1>1, <1>2, Cycle
<1> DEFINE top == Count * MaxRetries
<1>4. Sigs = 1 .. top /\ attempt + 1 \in 0 .. top /\ top \in Nat
  BY <1>3, SigsAreAttempts, CountAssumption, RetryAssumption
<1> HIDE DEF top
<1> QED
  BY <1>1, <1>4 DEF Recorded

LEMMA OrderInject == Kept /\ BudgetInv' /\ InjectExpiry => Kept'
<1> SUFFICES ASSUME Kept, BudgetInv', InjectExpiry PROVE Kept'
  OBVIOUS
<1>1. /\ pc = "submit" /\ pc' = "note" /\ attempt' = attempt + 1
      /\ tracker' = Fail(Opened, attempt + 1, "ExpiredBlockhash")
      /\ UNCHANGED <<pending, log, torn, txn, first>>
  BY DEF InjectExpiry, Take, fileVars
<1>2. attempt \in Nat /\ attempt = Recorded /\ attempt + 1 \in Sigs
  BY <1>1, AttemptTaken
<1>3. /\ IsTracker(Opened) /\ Sound(Opened)
      /\ OneOpen(Opened, Written \o pending, attempt + 1)
      /\ DOMAIN Opened.active = {attempt + 1}
  BY <1>1, <1>2, OrderOpened DEF Opened
<1> HIDE DEF Opened
<1>4. "ExpiredBlockhash" \in FailureClass
  BY DEF FailureClass
<1>5. Moves(Opened, tracker', {}, {}, {}) /\ IsTracker(tracker') /\ DOMAIN tracker'.active = {}
  BY <1>1, <1>2, <1>3, <1>4, FailMoves, FailType, FailEnds
<1>6. Sound(tracker')
  BY <1>3, <1>5, MovesSound
<1>7. OneOpen(tracker', Written \o pending, attempt + 1)
  <2>1. Written \o pending \in Seq(Record)
    BY WrittenType, ConcatProperties DEF Kept, LogTypes
  <2>2. attempt + 1 \in Nat
    BY <1>2
  <2> QED
    BY <1>3, <1>5, <2>1, <2>2, MovesOneOpen
<1>8. Recorded' = attempt + 1
  BY <1>1 DEF Recorded
<1> QED
  BY <1>1, <1>5, <1>6, <1>7, <1>8, OrderSet DEF During, Ended

(* mark_failed, and the flush.                                             *)
LEMMA OrderClose == Kept /\ BudgetInv' /\ Close => Kept'
<1> SUFFICES ASSUME Kept, BudgetInv', Close PROVE Kept'
  OBVIOUS
<1>1. PICK class \in FailureClass : tracker' = Fail(tracker, attempt, class)
  BY DEF Close
<1>2. /\ pc \in {"unsent", "confirm"} /\ pc' = "note"
      /\ UNCHANGED <<pending, log, torn, txn, first, attempt>>
  BY DEF Close, fileVars
<1>3. IsTracker(tracker) /\ Sound(tracker) /\ attempt \in Sigs
  BY <1>2, AttemptRange DEF Kept, LogTypes, During
<1>4. IsTracker(tracker') /\ Moves(tracker, tracker', {}, {}, {})
  BY <1>1, <1>3, FailType, FailMoves
<1>5. DOMAIN tracker'.active = {}
  <2>1. DOMAIN tracker.active \subseteq {attempt}
    BY <1>2 DEF Kept, InOrder, OneOpen, Recorded, Ended
  <2> QED
    BY <1>1, <1>3, <2>1, FailEnds
<1>6. {} \in SUBSET News
  OBVIOUS
<1> QED
  BY <1>2, <1>4, <1>5, <1>6, OrderMoves DEF Ended

LEMMA OrderFlush == Kept /\ BudgetInv' /\ FinalizePending => Kept'
<1> SUFFICES ASSUME Kept, BudgetInv', FinalizePending PROVE Kept'
  OBVIOUS
<1>1. /\ pc = "flush" /\ pc' \in {"drain", "open"}
      /\ tracker' \in FlushActive(tracker)
      /\ UNCHANGED <<pending, log, torn, txn, first, attempt>>
  BY DEF FinalizePending, fileVars
<1>2. IsTracker(tracker) /\ Sound(tracker)
  BY DEF Kept, LogTypes
<1>3. /\ IsTracker(tracker') /\ Moves(tracker, tracker', LandedIn(tracker), {}, Slots)
      /\ DOMAIN tracker'.active = {}
  BY <1>1, <1>2, FlushActiveType, FlushMoves, FlushEnds
<1>4. {} \in SUBSET News
  OBVIOUS
<1> QED
  BY <1>1, <1>3, <1>4, OrderMoves DEF Ended

(* With the records in order no signature recurs, and a bundle with a      *)
(* record is followed no longer.                                           *)
LEMMA OneOpenUnique ==
    ASSUME NEW tr, IsTracker(tr), NEW pre \in Seq(Record), NEW n \in Nat, OneOpen(tr, pre, n)
    PROVE  /\ \A i, j \in DOMAIN tr.completed :
                tr.completed[i].signature = tr.completed[j].signature => i = j
           /\ \A i \in DOMAIN tr.completed :
                tr.completed[i].signature = n => DOMAIN tr.active = {}
<1> DEFINE c   == tr.completed
           all == pre \o tr.completed
<1>1. c \in Seq(Record)
  BY DEF IsTracker
<1>2. /\ Len(pre) \in Nat /\ Len(c) \in Nat /\ DOMAIN c = 1 .. Len(c)
      /\ DOMAIN all = 1 .. Len(pre) + Len(c) /\ Len(all) = Len(pre) + Len(c)
      /\ \A i \in DOMAIN c : all[Len(pre) + i] = c[i]
  BY <1>1, ConcatIndex
<1>3. ASSUME NEW i \in DOMAIN c
      PROVE  c[i].signature = Len(pre) + i /\ Len(pre) + i \in DOMAIN all
  <2>1. Len(pre) + i \in DOMAIN all
    BY <1>2
  <2>2. all[Len(pre) + i].signature = Len(pre) + i
    BY <2>1 DEF OneOpen, Numbered
  <2> QED
    BY <1>2, <2>1, <2>2
<1>4. \/ DOMAIN tr.active = {}
      \/ Len(all) = n - 1
  BY DEF OneOpen
<1> HIDE DEF all
<1>5. ASSUME NEW i \in DOMAIN c, NEW j \in DOMAIN c, c[i].signature = c[j].signature
      PROVE  i = j
  <2> HIDE DEF c
  <2>1. i \in Nat /\ j \in Nat /\ Len(pre) \in Nat
    BY <1>2, <1>5
  <2>2. c[i].signature = Len(pre) + i /\ c[j].signature = Len(pre) + j
    BY <1>3, <1>5
  <2>3. Len(pre) + i = Len(pre) + j
    BY <1>5, <2>2
  <2> QED
    BY <2>1, <2>3
<1>6. ASSUME NEW i \in DOMAIN c, c[i].signature = n PROVE DOMAIN tr.active = {}
  <2>1. n \in 1 .. Len(all)
    BY <1>2, <1>3, <1>6
  <2> QED
    BY <1>2, <1>4, <2>1
<1> QED
  BY <1>5, <1>6

LEMMA OrderSeeOutcome == Kept /\ BudgetInv' /\ SeeOutcome => Kept'
<1> SUFFICES ASSUME Kept, BudgetInv', SeeOutcome PROVE Kept'
  OBVIOUS
<1>1. /\ pc = "confirm" /\ pc' = "note"
      /\ CompletedOutcome(tracker, attempt) # None
      /\ UNCHANGED <<tracker, pending, log, torn, txn, first, attempt>>
  BY DEF SeeOutcome, fileVars
<1>2. /\ IsTracker(tracker) /\ Written \o pending \in Seq(Record)
      /\ OneOpen(tracker, Written \o pending, attempt) /\ attempt \in Nat
  BY <1>1, WrittenType, ConcatProperties
  DEF Kept, LogTypes, InOrder, Recorded, Ended, BudgetInv, CountersType
<1>3. \A i, j \in DOMAIN tracker.completed :
        tracker.completed[i].signature = tracker.completed[j].signature => i = j
  BY <1>2, OneOpenUnique
<1>4. \E i \in DOMAIN tracker.completed : tracker.completed[i].signature = attempt
  BY <1>1, <1>2, <1>3, OutcomeOf
<1>5. DOMAIN tracker.active = {}
  BY <1>2, <1>4, OneOpenUnique
<1> QED
  BY <1>1, <1>5, OrderSame DEF Recorded, Ended, Between, During

-------------------------------------------------------------------------------
\* The record of a landed attempt.
Good(rec) == rec.failure = None /\ rec.landed_slot # None

\* Attempt a has such a record, or is followed and seen to have landed.
Secure(tr, pre, a) ==
    \/ a \in DOMAIN (pre \o tr.completed) /\ Good((pre \o tr.completed)[a])
    \/ a \in LandedIn(tr)

(* A landing seen is kept by every step that does not fail its bundle.     *)
LEMMA MovesSecure ==
    ASSUME NEW tr, IsTracker(tr), NEW after, NEW news, NEW vouched, NEW kept,
           Moves(tr, after, kept, news, vouched),
           NEW pre \in Seq(Record), Numbered(pre \o after.completed),
           NEW a, Secure(tr, pre, a), a \in LandedIn(tr) => a \in kept
    PROVE  Secure(after, pre, a)
<1> DEFINE all == pre \o tr.completed
<1>1. PICK m \in Seq(Record) : Appends(tr, after, m, kept, news, vouched)
  BY DEF Moves
<1>2. all \in Seq(Record) /\ tr.completed \in Seq(Record)
  BY ConcatProperties DEF IsTracker
<1>3. pre \o after.completed = all \o m
  <2>1. after.completed = tr.completed \o m
    BY <1>1 DEF Appends
  <2>2. pre \o (tr.completed \o m) = (pre \o tr.completed) \o m
    BY <1>2, RecordsAssociate, Zenon
  <2> QED
    BY <2>1, <2>2
<1>4. CASE a \in DOMAIN all /\ Good(all[a])
  <2> HIDE DEF all
  <2>1. a \in DOMAIN (all \o m) /\ (all \o m)[a] = all[a]
    BY <1>2, <1>4, ConcatIndex
  <2> QED
    BY <1>3, <1>4, <2>1 DEF Secure
<1>5. CASE a \in LandedIn(tr) /\ a \in DOMAIN after.active
  <2>1. Stays(tr.active[a], after.active[a], news, vouched) /\ a \in DOMAIN tr.active
    BY <1>1, <1>5 DEF Appends
  <2>2. tr.active[a].record.landed_slot # None
    BY <1>5 DEF LandedIn
  <2>3. after.active[a].record.landed_slot # None
    BY <2>1, <2>2 DEF Stays
  <2> QED
    BY <1>5, <2>3 DEF Secure, LandedIn
<1>6. CASE a \in LandedIn(tr) /\ a \notin DOMAIN after.active
  <2>1. a \in DOMAIN tr.active /\ tr.active[a].record.landed_slot # None
    BY <1>6 DEF LandedIn
  <2>2. PICK i \in DOMAIN m : m[i].signature = a
    BY <1>1, <1>6, <2>1 DEF Appends
  <2>3. EndsAs(tr.active[a], m[i], news, vouched) /\ m[i].failure = None
    BY <1>1, <1>6, <2>2 DEF Appends
  <2>4. Good(m[i])
    BY <2>1, <2>3 DEF EndsAs, Good
  <2> HIDE DEF all
  <2>5. Len(all) + i \in DOMAIN (all \o m) /\ (all \o m)[Len(all) + i] = m[i]
    BY <1>2, <2>2, ConcatIndex
  <2>6. Len(all) + i = a
    BY <1>3, <2>2, <2>5 DEF Numbered
  <2> QED
    BY <1>3, <2>4, <2>5, <2>6 DEF Secure
<1> QED
  BY <1>4, <1>5, <1>6 DEF Secure

(* The made-up landing: the followed bundle lands, is confirmed and ends.  *)
LEMMA SimulatedEnds ==
    ASSUME NEW tr, IsTracker(tr), Sound(tr), NEW sig \in Sigs, NEW slot \in Slots,
           DOMAIN tr.active = {sig}, tr.active[sig].stage = Submitted,
           tr.active[sig].record.landed_slot = None,
           NEW pre \in Seq(Record), NEW n \in Nat, OneOpen(tr, pre, n),
           NEW after \in Simulated(tr, sig, slot)
    PROVE  /\ IsTracker(after) /\ Sound(after) /\ OneOpen(after, pre, n)
           /\ DOMAIN after.active = {} /\ Secure(after, pre, sig)
<1> USE DEF Submitted, Processed, Confirmed, Finalized
<1> DEFINE seen == OnTransaction(tr, sig, slot, FALSE)
           mid  == CHOOSE t \in OnSlotCommitment(seen, slot, Confirmed) : TRUE
<1>1. slot \in Nat /\ slot # None
  BY SlotsAssumption
<1>2. /\ IsTracker(seen) /\ Moves(tr, seen, {}, {Saw(sig, slot, FALSE)}, {})
      /\ {Saw(sig, slot, FALSE)} \in SUBSET News
  <2> HIDE DEF seen
  <2>1. FALSE \in BOOLEAN /\ Saw(sig, slot, FALSE) \in News
    BY DEF News, Saw
  <2>2. IsTracker(seen) /\ Moves(tr, seen, {}, {Saw(sig, slot, FALSE)}, {})
    BY <2>1, OnTransactionType, OnTransactionMoves DEF seen
  <2> QED
    BY <2>1, <2>2
<1>3. Sound(seen) /\ OneOpen(seen, pre, n)
  <2> HIDE DEF seen
  <2>1. Sound(seen)
    BY <1>2, MovesSound
  <2> QED
    BY <1>2, <2>1, MovesOneOpen
<1>4. /\ DOMAIN seen.active = {sig} /\ seen.active[sig].stage = Processed
      /\ seen.active[sig].record.landed_slot = slot
  <2> DEFINE t == tr.active[sig]
             u == [t EXCEPT !.record.landed_slot = slot]
  <2>1. tr.active = [s \in {sig} |-> t] /\ t \in Entry /\ t.record \in Record
    BY DEF IsTracker, Entry
  <2>2. seen.active = [s \in {sig} |-> Advance(u, Processed, slot)]
    BY <2>1 DEF OnTransaction, IsTracker
  <2>3. u.stage = Submitted /\ u.record.landed_slot = slot
    BY <2>1 DEF Entry, Record
  <2> HIDE DEF u, t, seen
  <2>4. Advance(u, Processed, slot) = [record |-> Push(u.record, Processed, slot), stage |-> Processed]
    BY <2>3 DEF Advance, Order, Levels
  <2>5. Push(u.record, Processed, slot).landed_slot = slot
    BY <2>3 DEF Push
  <2> QED
    BY <2>2, <2>4, <2>5
<1> HIDE DEF seen
<1>5. /\ mid = AdvanceAll(seen, slot, Confirmed) /\ mid \in OnSlotCommitment(seen, slot, Confirmed)
      /\ Confirmed \in Levels /\ Finalized \in Levels
  BY DEF OnSlotCommitment, Levels
<1>6. /\ DOMAIN mid.active = {sig} /\ mid.active[sig].stage = Confirmed
      /\ mid.active[sig].record.landed_slot = slot
  <2> DEFINE t == seen.active[sig]
  <2>1. seen.active = [s \in {sig} |-> t] /\ t \in Entry /\ t.stage = Processed /\ t.record.landed_slot = slot
    BY <1>2, <1>4 DEF IsTracker, Entry
  <2>2. ToAdvance(seen, slot, Confirmed) = {sig}
    BY <1>1, <1>4 DEF ToAdvance, Order, Levels
  <2>3. mid.active = [s \in {sig} |-> Advance(t, Confirmed, slot)]
    <3> DEFINE S == ToAdvance(seen, slot, Confirmed)
    <3> HIDE DEF mid, S
    <3>1. seen = [active |-> seen.active, completed |-> seen.completed]
      BY <1>2 DEF IsTracker
    <3>2. mid.active = [s \in DOMAIN seen.active |->
                         IF s \in S
                         THEN Advance(seen.active[s], Confirmed, seen.active[s].record.landed_slot)
                         ELSE seen.active[s]]
      BY <1>5, <3>1 DEF AdvanceAll, S
    <3>3. S = {sig} /\ DOMAIN seen.active = {sig} /\ t.record.landed_slot = slot
      BY <1>4, <2>1, <2>2 DEF S
    <3> QED
      BY <3>2, <3>3
  <2> HIDE DEF t, mid
  <2>4. Advance(t, Confirmed, slot) = [record |-> Push(t.record, Confirmed, slot), stage |-> Confirmed]
    BY <2>1 DEF Advance, Order, Levels
  <2>5. Push(t.record, Confirmed, slot).landed_slot = slot
    BY <2>1 DEF Push, Entry, Record
  <2> QED
    BY <2>3, <2>4, <2>5
<1>7. after \in OnSlotCommitment(mid, slot, Finalized)
  BY DEF Simulated, seen
<1> HIDE DEF mid
<1>8. /\ IsTracker(mid) /\ Moves(seen, mid, {sig}, {}, Vouched(slot, Confirmed))
      /\ {} \in SUBSET News
  BY <1>2, <1>3, <1>5, OnSlotCommitmentType, OnSlotCommitmentMoves
<1>9. Sound(mid) /\ OneOpen(mid, pre, n)
  <2>1. Sound(mid)
    BY <1>2, <1>3, <1>8, MovesSound
  <2> QED
    BY <1>2, <1>3, <1>8, <2>1, MovesOneOpen
<1>10. IsTracker(after) /\ Moves(mid, after, {sig}, {}, Vouched(slot, Finalized))
  BY <1>5, <1>7, <1>8, <1>9, OnSlotCommitmentType, OnSlotCommitmentMoves
<1>11. Sound(after) /\ OneOpen(after, pre, n)
  <2>1. Sound(after)
    BY <1>8, <1>9, <1>10, MovesSound
  <2> QED
    BY <1>8, <1>9, <1>10, <2>1, MovesOneOpen
<1>12. DOMAIN after.active = {}
  <2>1. ToAdvance(mid, slot, Finalized) = {sig}
    BY <1>1, <1>6 DEF ToAdvance, Order, Levels
  <2>2. PICK ord \in Orders({sig}) :
          \E rec : after = Settle(AdvanceAll(mid, slot, Finalized), ord, rec)
    BY <1>7, <2>1 DEF OnSlotCommitment
  <2>3. Range(ord) = {sig}
    <3>1. {sig} \in SUBSET Sigs
      OBVIOUS
    <3> QED
      BY <3>1, OrdersType
  <2>4. DOMAIN AdvanceAll(mid, slot, Finalized).active = {sig}
    BY <1>5, <1>6, <1>8, AdvanceAllType
  <2> QED
    BY <2>2, <2>3, <2>4 DEF Settle, Restrict
<1>13. Secure(after, pre, sig)
  <2>1. Numbered(pre \o mid.completed) /\ Numbered(pre \o after.completed)
    BY <1>9, <1>11 DEF OneOpen
  <2>2. sig \in LandedIn(mid)
    BY <1>1, <1>6 DEF LandedIn
  <2>3. Secure(mid, pre, sig)
    BY <2>2 DEF Secure
  <2> QED
    BY <1>8, <1>10, <2>1, <2>3, MovesSecure
<1> QED
  BY <1>10, <1>11, <1>12, <1>13

-------------------------------------------------------------------------------
LEMMA OrderSimulated ==
    Kept /\ BudgetInv' /\ SubmitSimulated => Kept' /\ Secure(tracker', Written \o pending, attempt')
<1> SUFFICES ASSUME Kept, BudgetInv', SubmitSimulated
             PROVE  Kept' /\ Secure(tracker', Written \o pending, attempt')
  OBVIOUS
<1>1. /\ pc = "submit" /\ pc' = "note" /\ attempt' = attempt + 1
      /\ UNCHANGED <<pending, log, torn, txn, first>>
  BY DEF SubmitSimulated, Sign, Take, fileVars
<1>2. PICK slot \in Slots : tracker' \in Simulated(Opened, attempt + 1, slot)
  BY DEF SubmitSimulated
<1>3. attempt \in Nat /\ attempt = Recorded /\ attempt + 1 \in Sigs
  BY <1>1, AttemptTaken
<1>4. /\ IsTracker(Opened) /\ Sound(Opened)
      /\ OneOpen(Opened, Written \o pending, attempt + 1)
      /\ DOMAIN Opened.active = {attempt + 1}
      /\ Opened.active[attempt + 1].stage = Submitted
      /\ Opened.active[attempt + 1].record.landed_slot = None
  BY <1>1, <1>3, OrderOpened DEF Opened
<1> HIDE DEF Opened
<1>5. Written \o pending \in Seq(Record) /\ attempt + 1 \in Nat
  BY <1>3, WrittenType, ConcatProperties DEF Kept, LogTypes
<1> DEFINE pre == Written \o pending
           n   == attempt + 1
<1>6. /\ IsTracker(tracker') /\ Sound(tracker') /\ OneOpen(tracker', pre, n)
      /\ DOMAIN tracker'.active = {} /\ Secure(tracker', pre, n)
  <2> SUFFICES ASSUME TRUE
               PROVE  /\ IsTracker(tracker') /\ Sound(tracker') /\ OneOpen(tracker', pre, n)
                      /\ DOMAIN tracker'.active = {} /\ Secure(tracker', pre, n)
    OBVIOUS
  <2>1. /\ OneOpen(Opened, pre, n) /\ DOMAIN Opened.active = {n} /\ n \in Sigs /\ n \in Nat
        /\ Opened.active[n].stage = Submitted /\ Opened.active[n].record.landed_slot = None
        /\ pre \in Seq(Record) /\ tracker' \in Simulated(Opened, n, slot)
    BY <1>2, <1>3, <1>4, <1>5
  <2> HIDE DEF pre, n
  <2> QED
    BY <1>4, <2>1, SimulatedEnds
<1>7. Recorded' = attempt + 1
  BY <1>1 DEF Recorded
<1>8. Kept'
  BY <1>1, <1>6, <1>7, OrderSet DEF During, Ended
<1> QED
  BY <1>1, <1>6, <1>8

LEMMA OrderDrain == Kept /\ BudgetInv' /\ DrainRecords => Kept'
<1> SUFFICES ASSUME Kept, BudgetInv', DrainRecords PROVE Kept'
  OBVIOUS
<1>1. /\ pc = "drain" /\ pc' = "append"
      /\ pending' = tracker.completed
      /\ tracker' = DrainCompleted(tracker)
      /\ UNCHANGED <<log, torn, txn, first, attempt>>
  BY DEF DrainRecords
<1>2. /\ IsTracker(tracker) /\ Sound(tracker) /\ pending = <<>>
      /\ log \in Seq(Lines) /\ tracker.completed \in Seq(Record)
      /\ OneOpen(tracker, Written \o pending, attempt)
      /\ DOMAIN tracker.active = {}
  BY <1>1 DEF Kept, LogTypes, InOrder, Alone, Ended, Recorded, IsTracker
<1>3. /\ tracker'.active = tracker.active /\ tracker'.completed = <<>>
      /\ tracker' = [active |-> tracker.active, completed |-> <<>>]
  BY <1>1, <1>2 DEF DrainCompleted, IsTracker
<1>4. IsTracker(tracker') /\ Sound(tracker')
  BY <1>2, <1>3, EmptySeq DEF IsTracker, Sound
<1>5. /\ Written' = Written /\ Written \in Seq(Record) /\ Written \o pending = Written
      /\ Written \o pending' \in Seq(Record)
      /\ (Written \o pending') \o <<>> = Written \o pending'
  BY <1>1, <1>2, WrittenType, ConcatProperties, ConcatEmptySeq DEF Written
<1>6. OneOpen(tracker', Written \o pending', attempt) /\ Recorded' = attempt
  BY <1>1, <1>2, <1>3, <1>5 DEF OneOpen, Recorded
<1>7. Numbered(Accounts)'
  BY <1>1, <1>3, <1>5, <1>6 DEF OneOpen, Accounts
<1>8. LogTypes'
  BY <1>1, <1>2, <1>4 DEF Kept, LogTypes
<1>9. InOrder'
  BY <1>1, <1>2, <1>3, <1>5, <1>6, <1>7 DEF Kept, InOrder, Ended
<1> QED
  BY <1>8, <1>9 DEF Kept

(* A line is written: the record goes from the drained ones to the file.   *)
LEMMA HeadWritten ==
    ASSUME NEW w \in Seq(Record), NEW p \in Seq(Record), p # <<>>
    PROVE  /\ Head(p) \in Record /\ Tail(p) \in Seq(Record)
           /\ Append(w, Head(p)) \in Seq(Record)
           /\ Append(w, Head(p)) \o Tail(p) = w \o p
<1>1. Head(p) \in Record /\ Tail(p) \in Seq(Record)
  BY HeadTailProperties
<1>2. Append(w, Head(p)) \in Seq(Record) /\ Append(w, Head(p)) = w \o <<Head(p)>>
  BY <1>1, AppendProperties, AppendIsConcat
<1>3. p = <<Head(p)>> \o Tail(p) /\ <<Head(p)>> \in Seq(Record)
  BY <1>1
<1>4. (w \o <<Head(p)>>) \o Tail(p) = w \o (<<Head(p)>> \o Tail(p))
  BY <1>1, <1>3, ConcatAssociative
<1> QED
  BY <1>1, <1>2, <1>3, <1>4

(* The records of the file with one line more.                             *)
LEMMA LineWritten ==
    ASSUME log \in Seq(Lines), pending \in Seq(Record), torn \in BOOLEAN, pending # <<>>,
           log' = Append(log, Line(Head(pending)))
    PROVE  Written' = Append(Written, Head(pending))
<1> DEFINE line == Line(Head(pending))
<1>1. line \in Lines /\ line.record = Head(pending)
  BY HeadTailProperties DEF Line, Lines
<1> HIDE DEF line
<1>2. /\ log' \in Seq(Lines) /\ Len(log') = Len(log) + 1 /\ Len(log) \in Nat
      /\ DOMAIN log = 1 .. Len(log) /\ DOMAIN log' = 1 .. Len(log) + 1
      /\ \A i \in 1 .. Len(log) : log'[i] = log[i]
      /\ log'[Len(log) + 1] = line
  BY <1>1, AppendProperties, LenProperties DEF line
<1>3. /\ Written \in Seq(Record) /\ Len(Written) = Len(log) /\ Head(pending) \in Record
      /\ Written = [i \in 1 .. Len(log) |-> log[i].record]
  BY <1>2, WrittenType, HeadTailProperties DEF Written
<1>4. Written' = [i \in 1 .. Len(log) + 1 |-> log'[i].record]
  BY <1>2 DEF Written
<1>5. Append(Written, Head(pending)) =
        [i \in 1 .. Len(log) + 1 |-> IF i = Len(log) + 1 THEN Head(pending) ELSE Written[i]]
  <2> DEFINE w == Written
             h == Head(pending)
  <2>1. w \in Seq(Record) /\ Len(w) = Len(log) /\ h \in Record /\ Len(log) \in Nat
    BY <1>2, <1>3
  <2> HIDE DEF w, h
  <2>2. /\ Append(w, h) \in Seq(Record) /\ Len(Append(w, h)) = Len(log) + 1
        /\ \A i \in 1 .. Len(log) : Append(w, h)[i] = w[i]
        /\ Append(w, h)[Len(log) + 1] = h
    BY <2>1, AppendProperties
  <2> DEFINE q == Append(w, h)
  <2> HIDE DEF q
  <2>3. q = [i \in 1 .. Len(log) + 1 |-> q[i]]
    <3>1. q \in Seq(Record) /\ Len(q) = Len(log) + 1
      BY <2>2 DEF q
    <3>2. DOMAIN q = 1 .. Len(log) + 1 /\ \E n \in Nat : q \in [1 .. n -> Record]
      BY <3>1, LenProperties, SeqDef
    <3> QED
      BY <3>2
  <2>4. \A i \in 1 .. Len(log) + 1 : Append(w, h)[i] = IF i = Len(log) + 1 THEN h ELSE w[i]
    BY <2>1, <2>2
  <2>5. Append(w, h) = [i \in 1 .. Len(log) + 1 |-> IF i = Len(log) + 1 THEN h ELSE w[i]]
    BY <2>3, <2>4 DEF q
  <2> QED
    BY <2>5 DEF w, h
<1>6. \A i \in 1 .. Len(log) + 1 :
        log'[i].record = IF i = Len(log) + 1 THEN Head(pending) ELSE Written[i]
  BY <1>1, <1>2, <1>3
<1> QED
  BY <1>4, <1>5, <1>6

LEMMA OrderWritten ==
    ASSUME Kept, BudgetInv', pc = "append", pending # <<>>,
           log' = Append(log, Line(Head(pending))), torn' = FALSE, pending' = Tail(pending),
           UNCHANGED <<tracker, txn, first, attempt>>, pc' \in {"append", "error"}
    PROVE  Kept'
<1>1. /\ log \in Seq(Lines) /\ pending \in Seq(Record) /\ torn \in BOOLEAN
      /\ (torn => log = <<>>)
      /\ OneOpen(tracker, Written \o pending, attempt)
      /\ DOMAIN tracker.active = {} /\ tracker.completed = <<>>
      /\ \A i \in DOMAIN log : log[i].glued => i = 1
  BY DEF Kept, LogTypes, InOrder, Ended, Recorded, Alone
<1> DEFINE line == Line(Head(pending))
<1>2. line \in Lines /\ line.record = Head(pending) /\ line.glued = torn /\ pending' \in Seq(Record)
  BY <1>1, HeadTailProperties DEF Line, Lines
<1> HIDE DEF line
<1>3. /\ log' \in Seq(Lines) /\ Len(log') = Len(log) + 1 /\ Len(log) \in Nat
      /\ DOMAIN log = 1 .. Len(log) /\ DOMAIN log' = 1 .. Len(log) + 1
      /\ \A i \in 1 .. Len(log) : log'[i] = log[i]
      /\ log'[Len(log) + 1] = line
  BY <1>1, <1>2, AppendProperties, LenProperties DEF line
<1>4. Written' = Append(Written, Head(pending))
  BY <1>1, LineWritten
<1>5. (Written \o pending)' = Written \o pending
  BY <1>1, <1>4, WrittenType, HeadWritten
<1>6. OneOpen(tracker', (Written \o pending)', Recorded') /\ Numbered(Accounts)'
  <2>1. Recorded' = attempt
    BY DEF Recorded
  <2> QED
    BY <1>1, <1>5, <2>1 DEF OneOpen, Accounts
<1>7. \A i \in DOMAIN log' : log'[i].glued => i = 1
  <2>1. torn => Len(log) = 0
    BY <1>1, EmptySeq
  <2> QED
    BY <1>1, <1>2, <1>3, <2>1
<1>8. LogTypes'
  BY <1>2, <1>3 DEF Kept, LogTypes
<1>9. InOrder'
  BY <1>1, <1>6, <1>7 DEF InOrder, Ended
<1> QED
  BY <1>8, <1>9 DEF Kept

LEMMA OrderAppend == Kept /\ BudgetInv' /\ (AppendRecord \/ AppendFails) => Kept'
<1> SUFFICES ASSUME Kept, BudgetInv', AppendRecord \/ AppendFails PROVE Kept'
  OBVIOUS
<1>1. /\ pc = "append" /\ pending # <<>> /\ pc' \in {"append", "error"}
      /\ UNCHANGED <<tracker, txn, first, attempt>>
  BY DEF AppendRecord, AppendFails
<1>2. CASE log' = Append(log, Line(Head(pending))) /\ torn' = FALSE /\ pending' = Tail(pending)
  BY <1>1, <1>2, OrderWritten
<1>3. CASE log' = log /\ torn' \in {torn, TRUE} /\ pending' = pending /\ pc' = "error"
  <2>1. Written' = Written /\ Accounts' = Accounts
    BY <1>1, <1>3 DEF Written, Accounts
  <2>2. LogTypes'
    BY <1>1, <1>3 DEF Kept, LogTypes
  <2>3. InOrder'
    BY <1>1, <1>3, <2>1 DEF Kept, InOrder, Ended, Alone, Between
  <2> QED
    BY <2>2, <2>3 DEF Kept
<1> QED
  BY <1>2, <1>3 DEF AppendRecord, AppendFails

(* At the end of a transaction every attempt is in the file.               *)
LEMMA AllWritten ==
    ASSUME Kept, pc = "append", pending = <<>>
    PROVE  /\ DOMAIN tracker.active = {} /\ tracker.completed = <<>>
           /\ (Written \o pending) \o tracker.completed = Written
           /\ Len(log) = attempt
<1>1. /\ DOMAIN tracker.active = {} /\ tracker.completed = <<>>
      /\ log \in Seq(Lines)
      /\ OneOpen(tracker, Written \o pending, attempt)
  BY DEF Kept, LogTypes, InOrder, Alone, Ended, Recorded
<1>2. Written \in Seq(Record) /\ Written \o <<>> = Written /\ Len(Written) = Len(log)
  BY <1>1, WrittenType, ConcatEmptySeq
<1>3. (Written \o pending) \o tracker.completed = Written
  BY <1>1, <1>2
<1>4. Len(Written) = attempt
  BY <1>1, <1>3 DEF OneOpen
<1> QED
  BY <1>1, <1>2, <1>3, <1>4

LEMMA OrderNext == Kept /\ BudgetInv' /\ NextTransaction => Kept'
<1> SUFFICES ASSUME Kept, BudgetInv', NextTransaction PROVE Kept'
  OBVIOUS
<1>1. /\ pc = "append" /\ pending = <<>> /\ UNCHANGED <<tracker, pending, log, torn, attempt>>
      /\ \/ pc' = "begin" /\ txn < Transactions /\ txn' = txn + 1 /\ first' = attempt
         \/ pc' = "done" /\ UNCHANGED <<txn, first>>
  BY DEF NextTransaction, fileVars
<1>2. /\ DOMAIN tracker.active = {} /\ tracker.completed = <<>> /\ Len(log) = attempt
  BY <1>1, AllWritten
<1>3. Written' = Written /\ Accounts' = Accounts
  BY <1>1 DEF Written, Accounts
<1>4. txn' \in Txns /\ first' <= (txn' - 1) * MaxRetries
  <2>1. CASE pc' = "done"
    BY <1>1, <2>1 DEF Kept, LogTypes
  <2>2. CASE /\ txn < Transactions /\ txn' = txn + 1 /\ first' = attempt
    <3>1. txn \in Txns /\ Count \in Nat \ {0}
      BY CountAssumption DEF Kept, LogTypes
    <3>2. txn < Count /\ txn' \in Txns
      BY <2>2, <3>1 DEF Transactions, Txns
    <3>3. txn' - 1 = txn
      BY <2>2, <3>1 DEF Txns
    <3>4. attempt <= txn * MaxRetries
      BY AttemptRange
    <3> QED
      BY <2>2, <3>2, <3>3, <3>4
  <2> QED
    BY <1>1, <2>1, <2>2
<1>5. LogTypes'
  BY <1>1, <1>4 DEF Kept, LogTypes
<1>6. InOrder'
  <2>1. (~ Ended)' => Recorded' = Recorded
    BY <1>1 DEF Recorded, Ended
  <2> QED
    BY <1>1, <1>2, <1>3, <2>1 DEF Kept, InOrder, Ended
<1> QED
  BY <1>5, <1>6 DEF Kept

(* What the stream says fails no bundle that it has seen landed.           *)
LEMMA IngestMoves ==
    ASSUME Kept, Ingest
    PROVE  /\ IsTracker(tracker')
           /\ \E news \in SUBSET News, vouched \in SUBSET Slots :
                 Moves(tracker, tracker', LandedIn(tracker), news, vouched)
<1>1. IsTracker(tracker) /\ Sound(tracker)
  BY DEF Kept, LogTypes
<1>2. CASE \E slot \in Slots, failed \in BOOLEAN, sig \in DOMAIN tracker.active :
              /\ failed => tracker.active[sig].record.landed_slot = None
              /\ tracker' = OnTransaction(tracker, sig, slot, failed)
  <2>1. PICK slot \in Slots, failed \in BOOLEAN, sig \in DOMAIN tracker.active :
              /\ failed => tracker.active[sig].record.landed_slot = None
              /\ tracker' = OnTransaction(tracker, sig, slot, failed)
    BY <1>2
  <2>2. sig \in Sigs /\ (failed => sig \notin LandedIn(tracker))
    BY <1>1, <2>1 DEF IsTracker, LandedIn
  <2>3. IsTracker(tracker')
    BY <1>1, <2>1, <2>2, OnTransactionType
  <2>4. Moves(tracker, tracker', LandedIn(tracker), {Saw(sig, slot, failed)}, {})
    BY <1>1, <2>1, <2>2, OnTransactionMoves
  <2>5. {Saw(sig, slot, failed)} \in SUBSET News /\ {} \in SUBSET Slots
    BY <2>2 DEF News, Saw
  <2> QED
    BY <2>3, <2>4, <2>5
<1>3. CASE \E slot \in Slots, level \in Levels : tracker' \in OnSlotCommitment(tracker, slot, level)
  <2>1. PICK slot \in Slots, level \in Levels : tracker' \in OnSlotCommitment(tracker, slot, level)
    BY <1>3
  <2>2. IsTracker(tracker')
    BY <1>1, <2>1, OnSlotCommitmentType
  <2>3. Moves(tracker, tracker', LandedIn(tracker), {}, Vouched(slot, level))
    BY <1>1, <2>1, OnSlotCommitmentMoves
  <2>4. {} \in SUBSET News /\ Vouched(slot, level) \in SUBSET Slots
    BY DEF Vouched
  <2> QED
    BY <2>2, <2>3, <2>4
<1> QED
  BY <1>2, <1>3 DEF Ingest

LEMMA OrderIngest == Kept /\ BudgetInv' /\ Ingest => Kept'
<1> SUFFICES ASSUME Kept, BudgetInv', Ingest PROVE Kept'
  OBVIOUS
<1>1. ~ Ended /\ UNCHANGED <<pc, pending, log, torn, txn, first, attempt>>
  BY DEF Ingest, fileVars
<1>2. IsTracker(tracker')
  BY IngestMoves
<1>3. PICK news \in SUBSET News, vouched \in SUBSET Slots :
         Moves(tracker, tracker', LandedIn(tracker), news, vouched)
  BY IngestMoves
<1> QED
  BY <1>1, <1>2, <1>3, OrderMoves

LEMMA KeptStep == Kept /\ [Next]_vars => Kept'
<1> SUFFICES ASSUME Kept, [Next]_vars PROVE Kept'
  OBVIOUS
<1>1. BudgetInv'
  BY BudgetStep DEF Kept
<1> QED
  BY <1>1, OrderControl, OrderSend, OrderInject, OrderSimulated, OrderClose, OrderSeeOutcome, OrderFlush,
     OrderDrain, OrderAppend, OrderNext, OrderIngest
  DEF Next, Run

LEMMA KeptAlways == Spec => []Kept
BY KeptInit, KeptStep, PTL DEF Spec

(* The file is a prefix of the run, whatever is seen late or never, and    *)
(* whichever write fails.                                                  *)
THEOREM InTheLog == Spec => []LogInOrder
BY KeptAlways, KeptProperty, PTL

-------------------------------------------------------------------------------
(***************************************************************************)
(* What was reported as landed.  From the report on the landing is on the  *)
(* record of its attempt, or on the bundle while that is still followed;   *)
(* past its transaction the record is in the file.                         *)
(***************************************************************************)
ReportedLanded(t) == final[t] # None /\ final[t].how = "landed"

\* Before the end of the current transaction.
Trying == pc \in Between \cup During \/ (pc = "open" /\ mode = "campaign")

InFile(a) == a \in DOMAIN log /\ Good(log[a].record)

Secured ==
    /\ final = [t \in Txns |-> final[t]]
    /\ \A t \in Txns : t > txn => final[t] = None
    /\ Trying => final[txn] = None
    /\ \A t \in Txns : ReportedLanded(t) /\ (t < txn \/ pc = "done") => InFile(final[t].attempt)
    /\ ReportedLanded(txn) /\ ~ Ended => Secure(tracker, Written \o pending, final[txn].attempt)
    /\ pc = "note" /\ result.landed => Secure(tracker, Written \o pending, attempt)

LEMMA SecuredProperty == Kept /\ Secured => LandedIsLogged
<1> SUFFICES ASSUME Kept, Secured,
                    NEW t \in Txns, ReportedLanded(t), t < txn \/ pc = "done"
             PROVE  Written[final[t].attempt].failure = None /\ Written[final[t].attempt].landed_slot # None
  BY DEF LandedIsLogged, ReportedLanded
<1>1. InFile(final[t].attempt)
  BY DEF Secured
<1> QED
  BY <1>1 DEF InFile, Good, Written

LEMMA SecuredInit == Init => Secured
<1> SUFFICES ASSUME Init PROVE Secured
  OBVIOUS
<1>1. /\ final = [t \in Txns |-> None] /\ txn \in Txns /\ pc \in {"context", "preflight"}
  BY CountAssumption DEF Init, StartDemo, StartLive, Txns
<1> QED
  BY <1>1 DEF Secured, ReportedLanded

(* A step that writes nothing and stays in its transaction.                *)
LEMMA SecuredTracker ==
    ASSUME Kept, Secured, UNCHANGED <<final, txn, log>>, Trying' => Trying,
           pc' = "done" => pc = "done", Ended => Ended',
           Secure(tracker, Written \o pending, final[txn].attempt) /\ ~ Trying /\ ~ Ended' =>
               Secure(tracker', Written \o pending', final[txn].attempt),
           pc' = "note" /\ result'.landed => Secure(tracker', Written \o pending', attempt')
    PROVE  Secured'
<1>1. Written' = Written /\ txn \in Txns
  BY DEF Written, Kept, LogTypes
<1>2. \A t \in Txns : ReportedLanded(t)' <=> ReportedLanded(t)
  BY DEF ReportedLanded
<1>3. \A a : InFile(a)' <=> InFile(a)
  BY DEF InFile
<1>4. ReportedLanded(txn) => ~ Trying
  BY DEF Secured, ReportedLanded
<1>5. /\ (final = [t \in Txns |-> final[t]])'
      /\ (\A t \in Txns : t > txn => final[t] = None)'
      /\ (Trying => final[txn] = None)'
  BY DEF Secured
<1>6. ASSUME NEW t \in Txns, ReportedLanded(t)', (t < txn \/ pc = "done")'
      PROVE  InFile(final[t].attempt)'
  <2>1. InFile(final[t].attempt)
    BY <1>2, <1>6 DEF Secured
  <2> QED
    BY <1>3, <2>1
<1>7. (ReportedLanded(txn) /\ ~ Ended)' => Secure(tracker', Written \o pending', final[txn].attempt)
  BY <1>1, <1>2, <1>4 DEF Secured
<1> QED
  BY <1>1, <1>5, <1>6, <1>7 DEF Secured

(* A transaction ends, as landed only with its landing secured.            *)
LEMMA SecuredFinish ==
    ASSUME Kept, Secured, NEW how, Finish(how),
           UNCHANGED <<txn, log, tracker, pending, attempt>>, ~ Ended,
           how = "landed" => Secure(tracker, Written \o pending, attempt)
    PROVE  Secured'
<1>1. /\ final' = [final EXCEPT ![txn] = [how |-> how, attempt |-> attempt]]
      /\ pc' = "flush" /\ Written' = Written /\ txn \in Txns /\ Txns \subseteq Nat
  BY CountAssumption DEF Finish, Written, Kept, LogTypes, Txns
<1>2. \A t \in Txns : final'[t] = IF t = txn THEN [how |-> how, attempt |-> attempt] ELSE final[t]
  BY <1>1 DEF Secured
<1>3. ~ Trying' /\ pc' # "done" /\ pc' # "note"
  BY <1>1 DEF Trying, Between, During
<1>4. /\ (final = [t \in Txns |-> final[t]])'
      /\ (\A t \in Txns : t > txn => final[t] = None)'
  <2>1. final' = [t \in Txns |-> final'[t]]
    BY <1>1 DEF Secured
  <2>2. \A t \in Txns : t > txn => final'[t] = None
    BY <1>1, <1>2 DEF Secured
  <2> QED
    BY <1>1, <2>1, <2>2
<1>5. ASSUME NEW t \in Txns, ReportedLanded(t)', (t < txn \/ pc = "done")'
      PROVE  InFile(final[t].attempt)'
  <2>1. t # txn /\ t < txn
    BY <1>1, <1>3, <1>5
  <2>2. ReportedLanded(t) /\ final'[t] = final[t]
    BY <1>2, <1>5, <2>1 DEF ReportedLanded
  <2>3. InFile(final[t].attempt)
    BY <2>1, <2>2 DEF Secured
  <2> QED
    BY <2>2, <2>3 DEF InFile
<1>6. (ReportedLanded(txn) /\ ~ Ended)' => (Secure(tracker, Written \o pending, final[txn].attempt))'
  <2>1. final'[txn'] = [how |-> how, attempt |-> attempt]
    BY <1>1, <1>2
  <2>2. ReportedLanded(txn)' => how = "landed"
    BY <2>1 DEF ReportedLanded
  <2>3. final'[txn'].attempt = attempt
    BY <2>1
  <2> QED
    BY <1>1, <2>2, <2>3
<1> QED
  BY <1>3, <1>4, <1>5, <1>6 DEF Secured

(* The next transaction: the records are in the file.                      *)
LEMMA SecuredNext == Kept /\ Secured /\ NextTransaction => Secured'
<1> SUFFICES ASSUME Kept, Secured, NextTransaction PROVE Secured'
  OBVIOUS
<1>1. /\ pc = "append" /\ pending = <<>> /\ UNCHANGED <<tracker, pending, log, final>>
      /\ \/ pc' = "begin" /\ txn < Transactions /\ txn' = txn + 1
         \/ pc' = "done" /\ txn' = txn
  BY DEF NextTransaction, fileVars
<1>2. /\ DOMAIN tracker.active = {}
      /\ (Written \o pending) \o tracker.completed = Written
  BY <1>1, AllWritten
<1>3. txn \in Txns /\ txn \in Nat /\ \A t \in Txns : t \in Nat
  BY CountAssumption DEF Kept, LogTypes, Txns
<1>4. ReportedLanded(txn) => InFile(final[txn].attempt)
  <2> DEFINE a == final[txn].attempt
  <2>1. ReportedLanded(txn) => Secure(tracker, Written \o pending, a)
    BY <1>1 DEF Secured, Ended
  <2>2. a \notin LandedIn(tracker)
    BY <1>2 DEF LandedIn
  <2>3. ReportedLanded(txn) => a \in DOMAIN Written /\ Good(Written[a])
    BY <1>2, <2>1, <2>2 DEF Secure
  <2>4. a \in DOMAIN Written => a \in DOMAIN log /\ Written[a] = log[a].record
    BY DEF Written
  <2> QED
    BY <2>3, <2>4 DEF InFile
<1>5. \A t \in Txns : ReportedLanded(t) /\ t <= txn => InFile(final[t].attempt)
  BY <1>3, <1>4 DEF Secured
<1>6. \A t \in Txns : t > txn => final[t] = None
  BY DEF Secured
<1>7. ASSUME NEW t \in Txns, ReportedLanded(t)' PROVE InFile(final[t].attempt)'
  <2>1. ReportedLanded(t) /\ t <= txn
    BY <1>1, <1>3, <1>6, <1>7 DEF ReportedLanded
  <2> QED
    BY <1>1, <1>5, <2>1 DEF InFile
<1>8. CASE pc' = "done" /\ txn' = txn
  <2>1. (final = [t \in Txns |-> final[t]])' /\ (\A t \in Txns : t > txn => final[t] = None)'
    BY <1>1, <1>8 DEF Secured
  <2> QED
    BY <1>7, <1>8, <2>1 DEF Secured, Trying, Between, During, Ended
<1>9. CASE pc' = "begin" /\ txn < Transactions /\ txn' = txn + 1
  <2>1. /\ (final = [t \in Txns |-> final[t]])'
        /\ (\A t \in Txns : t > txn => final[t] = None)'
    BY <1>1, <1>3, <1>6, <1>9 DEF Secured
  <2>2. txn' \in Txns /\ txn' > txn
    BY <1>3, <1>9, CountAssumption DEF Transactions, Txns
  <2>3. final'[txn'] = None
    BY <1>1, <1>6, <2>2
  <2> QED
    BY <1>7, <1>9, <2>1, <2>3 DEF Secured, ReportedLanded
<1> QED
  BY <1>1, <1>8, <1>9

(* Lines are only added.                                                   *)
LEMMA SecuredAppend == Kept /\ BudgetInv' /\ Secured /\ (AppendRecord \/ AppendFails) => Secured'
<1> SUFFICES ASSUME Kept, BudgetInv', Secured, AppendRecord \/ AppendFails PROVE Secured'
  OBVIOUS
<1>1. /\ pc = "append" /\ pending # <<>> /\ pc' \in {"append", "error"}
      /\ UNCHANGED <<tracker, txn, final>>
      /\ \/ log' = log /\ pending' = pending
         \/ log' = Append(log, Line(Head(pending))) /\ pending' = Tail(pending)
  BY DEF AppendRecord, AppendFails
<1>2. log \in Seq(Lines) /\ pending \in Seq(Record) /\ torn \in BOOLEAN
  BY DEF Kept, LogTypes
<1>3. \A i \in DOMAIN log : i \in DOMAIN log' /\ log'[i] = log[i]
  <2> SUFFICES ASSUME log' = Append(log, Line(Head(pending)))
               PROVE  \A i \in DOMAIN log : i \in DOMAIN log' /\ log'[i] = log[i]
    BY <1>1
  <2> DEFINE line == Line(Head(pending))
  <2>1. line \in Lines
    BY <1>1, <1>2, HeadTailProperties DEF Line, Lines
  <2> HIDE DEF line
  <2>2. /\ log' \in Seq(Lines) /\ Len(log') = Len(log) + 1
        /\ \A i \in 1 .. Len(log) : log'[i] = log[i]
    BY <1>2, <2>1, AppendProperties DEF line
  <2>3. DOMAIN log = 1 .. Len(log) /\ DOMAIN log' = 1 .. Len(log') /\ Len(log) \in Nat
    BY <1>2, <2>2, LenProperties
  <2> QED
    BY <2>2, <2>3
<1>4. \A a : InFile(a) => InFile(a)'
  BY <1>3 DEF InFile
<1>5. (Written \o pending)' = Written \o pending
  <2>1. CASE log' = log /\ pending' = pending
    BY <2>1 DEF Written
  <2>2. CASE log' = Append(log, Line(Head(pending))) /\ pending' = Tail(pending)
    <3>1. Written' = Append(Written, Head(pending))
      BY <1>1, <1>2, <2>2, LineWritten
    <3> QED
      BY <1>1, <1>2, <2>2, <3>1, WrittenType, HeadWritten
  <2> QED
    BY <1>1, <2>1, <2>2
<1>6. \A t \in Txns : ReportedLanded(t)' <=> ReportedLanded(t)
  BY <1>1 DEF ReportedLanded
<1>7. txn \in Txns /\ ~ Trying' /\ pc' # "done" /\ pc' # "note" /\ ~ Ended
  BY <1>1 DEF Kept, LogTypes, Trying, Between, During, Ended
<1>8. ASSUME NEW t \in Txns, ReportedLanded(t)', (t < txn \/ pc = "done")'
      PROVE  InFile(final[t].attempt)'
  <2>1. InFile(final[t].attempt)
    BY <1>1, <1>6, <1>7, <1>8 DEF Secured
  <2> QED
    BY <1>1, <1>4, <2>1
<1>9. (ReportedLanded(txn) /\ ~ Ended)' => (Secure(tracker, Written \o pending, final[txn].attempt))'
  BY <1>1, <1>5, <1>6, <1>7 DEF Secured
<1>10. /\ (final = [t \in Txns |-> final[t]])'
       /\ (\A t \in Txns : t > txn => final[t] = None)'
  BY <1>1 DEF Secured
<1> QED
  BY <1>7, <1>8, <1>9, <1>10 DEF Secured

(* The steps that leave the tracker and the drained records.               *)
LEMMA SecuredControl ==
    ASSUME Kept, Secured,
           \/ Preflight \/ OpenLog \/ Begin \/ BuildContext \/ Decide \/ Refresh \/ SubmitFails
           \/ SubmitLive \/ SeeConfirmed \/ Note \/ Quit \/ SeeFinished \/ Join \/ DrawFails
           \/ UNCHANGED vars
    PROVE  Secured'
<1> USE DEF Trying, Between, During, Ended
<1>1. CASE Preflight \/ OpenLog \/ Begin \/ BuildContext \/ Refresh
  <2>1. /\ UNCHANGED <<final, txn, log, tracker, pending, mode>>
        /\ \/ pc = "preflight" /\ pc' \in {"open", "context", "error"}
           \/ pc = "open" /\ pc' \in {IF mode = "campaign" THEN "begin" ELSE "drain", "error"}
           \/ pc \in {"begin", "context", "refresh"} /\ pc' \in {"context", "decide", "submit", "error"}
    BY <1>1 DEF Preflight, OpenLog, Begin, BuildContext, Refresh, Goto, fileVars, started
  <2> QED
    BY <2>1, SecuredTracker
<1>2. CASE SubmitFails \/ SubmitLive
  <2>1. /\ UNCHANGED <<final, txn, log, tracker, pending, mode>>
        /\ pc = "submit" /\ pc' \in {"send", "error"}
    BY <1>2 DEF SubmitFails, SubmitLive, Sign, Take, fileVars, started
  <2> QED
    BY <2>1, SecuredTracker
<1>3. CASE Decide
  <2>1. /\ UNCHANGED <<txn, log, tracker, pending, attempt, mode>> /\ pc = "decide"
        /\ \/ Finish("held") \/ Finish("aborted")
           \/ final' = final /\ pc' \in {"submit", "refresh", "error"}
    BY <1>3 DEF Decide, fileVars, started
  <2>2. CASE final' = final /\ pc' \in {"submit", "refresh", "error"}
    BY <2>1, <2>2, SecuredTracker
  <2>3. CASE Finish("held") \/ Finish("aborted")
    BY <2>1, <2>3, SecuredFinish
  <2> QED
    BY <2>1, <2>2, <2>3
<1>4. CASE SeeConfirmed
  <2>1. /\ UNCHANGED <<txn, log, tracker, pending, attempt>> /\ pc = "confirm" /\ Finish("landed")
    BY <1>4 DEF SeeConfirmed, fileVars
  <2>2. attempt \in LandedIn(tracker)
    BY <1>4 DEF SeeConfirmed, ActiveProgress, IsActive, LandedIn
  <2> QED
    BY <2>1, <2>2, SecuredFinish DEF Secure
<1>5. CASE Note
  <2>1. UNCHANGED <<txn, log, tracker, pending, attempt, mode>> /\ pc = "note"
    BY <1>5 DEF Note, fileVars, started
  <2>2. CASE result.landed
    <3>1. Finish("landed")
      BY <1>5, <2>2 DEF Note
    <3>2. Secure(tracker, Written \o pending, attempt)
      BY <2>1, <2>2 DEF Secured
    <3> QED
      BY <2>1, <3>1, <3>2, SecuredFinish
  <2>3. CASE ~ result.landed
    <3>1. final' = final /\ pc' = "context"
      BY <1>5, <2>3 DEF Note
    <3> QED
      BY <2>1, <3>1, SecuredTracker
  <2> QED
    BY <2>2, <2>3
<1>6. CASE Quit \/ SeeFinished \/ Join \/ DrawFails \/ UNCHANGED vars
  <2>1. /\ UNCHANGED <<final, txn, log, tracker, pending, mode, attempt, result>>
        /\ pc' = pc \/ (~ Ended /\ pc' = "dropped")
    BY <1>6 DEF Quit, SeeFinished, Join, DrawFails, Ui, fileVars, vars, started, loopVars
  <2>2. pc = "note" /\ result.landed => Secure(tracker, Written \o pending, attempt)
    BY DEF Secured
  <2> QED
    BY <2>1, <2>2, SecuredTracker
<1> QED
  BY <1>1, <1>2, <1>3, <1>4, <1>5, <1>6

(* The steps of an attempt: its transaction has not ended.                 *)
LEMMA SecuredAttempt ==
    ASSUME Kept, BudgetInv', Secured,
           Send \/ Close \/ InjectExpiry \/ SubmitSimulated \/ SeeOutcome
    PROVE  Secured'
<1>1. /\ UNCHANGED <<final, txn, log, pending>>
      /\ pc \in {"send", "unsent", "confirm", "submit"}
      /\ pc' \in {"unsent", "confirm", "note"}
  BY DEF Send, SendResults, Close, InjectExpiry, SubmitSimulated, SeeOutcome, Take, Sign, fileVars
<1>2. Trying /\ pc' # "done" /\ ~ Ended
  BY <1>1 DEF Trying, Between, During, Ended
<1>3. ASSUME pc' = "note" /\ result'.landed
      PROVE  Secure(tracker', Written \o pending', attempt')
  <2>1. CASE Send
    BY <1>3, <2>1 DEF Send
  <2>2. CASE Close \/ InjectExpiry
    BY <1>3, <2>2 DEF Close, InjectExpiry, FailedWith
  <2>3. CASE SubmitSimulated
    BY <1>1, <2>3, OrderSimulated
  <2>4. CASE SeeOutcome
    <3> DEFINE done == CompletedOutcome(tracker, attempt)
    <3>1. /\ pc = "confirm" /\ UNCHANGED <<tracker, attempt>> /\ done # None
          /\ result' = IF done.failed THEN FailedWith(done.class) ELSE LandedAt(done.slot)
      BY <2>4 DEF SeeOutcome
    <3>2. /\ IsTracker(tracker) /\ Written \o pending \in Seq(Record)
          /\ OneOpen(tracker, Written \o pending, attempt) /\ attempt \in Nat
      BY <3>1, WrittenType, ConcatProperties
      DEF Kept, LogTypes, InOrder, Recorded, Ended, BudgetInv, CountersType
    <3>3. \A i, j \in DOMAIN tracker.completed :
            tracker.completed[i].signature = tracker.completed[j].signature => i = j
      BY <3>2, OneOpenUnique
    <3>4. PICK i \in DOMAIN tracker.completed :
            /\ tracker.completed[i].signature = attempt
            /\ \/ tracker.completed[i].failure = None /\ tracker.completed[i].landed_slot # None
               \/ \E class \in FailureClass : done = [failed |-> TRUE, class |-> class]
      BY <3>1, <3>2, <3>3, OutcomeOf
    <3>5. ~ done.failed
      BY <1>3, <3>1 DEF FailedWith
    <3> HIDE DEF done
    <3>6. Good(tracker.completed[i])
      BY <3>4, <3>5 DEF Good
    <3> DEFINE pre == Written \o pending
               all == pre \o tracker.completed
    <3>7. /\ Len(pre) + i \in DOMAIN all /\ all[Len(pre) + i] = tracker.completed[i]
      <4>1. pre \in Seq(Record) /\ tracker.completed \in Seq(Record)
        BY <3>2 DEF IsTracker
      <4> HIDE DEF pre
      <4> QED
        BY <4>1, ConcatIndex
    <3>8. Len(pre) + i = attempt
      BY <3>2, <3>4, <3>7 DEF OneOpen, Numbered
    <3>9. attempt \in DOMAIN all /\ Good(all[attempt])
      BY <3>6, <3>7, <3>8
    <3> QED
      BY <1>1, <3>1, <3>9 DEF Secure
  <2> QED
    BY <2>1, <2>2, <2>3, <2>4
<1> QED
  BY <1>1, <1>2, <1>3, SecuredTracker

(* The stream and the flush: bundles move.                                 *)
LEMMA SecuredMoves ==
    ASSUME Kept, Kept', Secured, NEW news, NEW vouched,
           Moves(tracker, tracker', LandedIn(tracker), news, vouched),
           UNCHANGED <<final, txn, log, pending, attempt>>, ~ Ended,
           \/ UNCHANGED <<pc, mode, result>>
           \/ ~ Trying /\ pc' \in {"drain", "open"} /\ (Trying' => Trying)
    PROVE  Secured'
<1>1. /\ IsTracker(tracker) /\ Written \o pending \in Seq(Record)
      /\ Written' = Written /\ Numbered((Written \o pending) \o tracker'.completed)
  <2>1. Numbered(Accounts)' /\ Written' = Written
    BY DEF Kept, InOrder, Written
  <2>2. IsTracker(tracker) /\ Written \o pending \in Seq(Record)
    BY WrittenType, ConcatProperties DEF Kept, LogTypes
  <2> QED
    BY <2>1, <2>2 DEF Accounts
<1>2. ASSUME NEW a, Secure(tracker, Written \o pending, a)
      PROVE  Secure(tracker', Written \o pending', a)
  <2> DEFINE pre == Written \o pending
  <2>1. Secure(tracker, pre, a) /\ pre \in Seq(Record) /\ Numbered(pre \o tracker'.completed)
    BY <1>1, <1>2
  <2> HIDE DEF pre
  <2>2. Secure(tracker', pre, a)
    BY <1>1, <2>1, MovesSecure
  <2> QED
    BY <2>2 DEF pre
<1>3. pc' = "note" /\ result'.landed => Secure(tracker', Written \o pending', attempt')
  <2>1. pc' = "note" => pc = "note" /\ result' = result
    OBVIOUS
  <2>2. pc = "note" /\ result.landed => Secure(tracker, Written \o pending, attempt)
    BY DEF Secured
  <2> QED
    BY <1>2, <2>1, <2>2
<1>4. (Trying' => Trying) /\ (pc' = "done" => pc = "done")
  BY DEF Trying
<1> QED
  BY <1>2, <1>3, <1>4, SecuredTracker

LEMMA SecuredDrain == Kept /\ Secured /\ DrainRecords => Secured'
<1> SUFFICES ASSUME Kept, Secured, DrainRecords PROVE Secured'
  OBVIOUS
<1>1. /\ pc = "drain" /\ pc' = "append" /\ pending' = tracker.completed
      /\ tracker' = DrainCompleted(tracker) /\ UNCHANGED <<final, txn, log>>
  BY DEF DrainRecords
<1>2. /\ IsTracker(tracker) /\ pending = <<>> /\ log \in Seq(Lines) /\ tracker.completed \in Seq(Record)
  BY <1>1 DEF Kept, LogTypes, InOrder, Ended, IsTracker
<1>3. tracker'.active = tracker.active /\ tracker'.completed = <<>>
  BY <1>1, <1>2 DEF DrainCompleted, IsTracker
<1>4. (Written \o pending') \o tracker'.completed = (Written \o pending) \o tracker.completed
  <2>1. Written \in Seq(Record) /\ Written \o pending = Written
    BY <1>2, WrittenType, ConcatEmptySeq
  <2>2. Written \o tracker.completed \in Seq(Record)
    BY <1>2, <2>1, ConcatProperties
  <2>3. (Written \o tracker.completed) \o <<>> = Written \o tracker.completed
    BY <2>2, ConcatEmptySeq
  <2> QED
    BY <1>1, <1>3, <2>1, <2>3
<1>5. \A a : Secure(tracker, Written \o pending, a) => Secure(tracker', Written \o pending', a)
  BY <1>3, <1>4 DEF Secure, LandedIn
<1>6. ~ Trying' /\ ~ Ended /\ pc' # "done" /\ pc' # "note"
  BY <1>1 DEF Trying, Between, During, Ended
<1> QED
  BY <1>1, <1>5, <1>6, SecuredTracker

LEMMA SecuredStep == Kept /\ Secured /\ [Next]_vars => Secured'
<1> SUFFICES ASSUME Kept, Secured, [Next]_vars PROVE Secured'
  OBVIOUS
<1>1. Kept' /\ BudgetInv'
  BY KeptStep DEF Kept
<1>2. CASE FinalizePending
  <2>1. /\ pc = "flush" /\ tracker' \in FlushActive(tracker)
        /\ pc' = IF mode = "campaign" THEN "drain" ELSE "open"
        /\ UNCHANGED <<final, txn, log, pending, attempt, mode>>
    BY <1>2 DEF FinalizePending, fileVars, started
  <2>2. Moves(tracker, tracker', LandedIn(tracker), {}, Slots)
    BY <2>1, FlushMoves DEF Kept, LogTypes
  <2>3. ~ Trying /\ ~ Ended /\ pc' \in {"drain", "open"} /\ (Trying' => Trying)
    BY <2>1 DEF Trying, Between, During, Ended
  <2> QED
    BY <1>1, <2>1, <2>2, <2>3, SecuredMoves
<1>3. CASE Ingest
  <2>1. ~ Ended /\ UNCHANGED <<final, txn, log, pending, attempt, pc, mode, result>>
    BY <1>3 DEF Ingest, fileVars, started, loopVars
  <2>2. PICK news \in SUBSET News, vouched \in SUBSET Slots :
           Moves(tracker, tracker', LandedIn(tracker), news, vouched)
    BY <1>3, IngestMoves
  <2> QED
    BY <1>1, <2>1, <2>2, SecuredMoves
<1> QED
  BY <1>1, <1>2, <1>3, SecuredControl, SecuredAttempt, SecuredDrain, SecuredAppend, SecuredNext DEF Next, Run

(* A transaction reported as landed is in the file as landed once the run  *)
(* has gone past it: no late update and no flush fails it.                 *)
THEOREM LandingsInTheLog == Spec => []LandedIsLogged
<1>1. Init => Secured
  BY SecuredInit
<1> QED
  BY <1>1, KeptAlways, SecuredStep, SecuredProperty, PTL DEF Spec

-------------------------------------------------------------------------------
(***************************************************************************)
(* The hash a bundle is signed with.  The loop comes to a submission with  *)
(* the one of its transaction, unless its refresh failed, and unused but   *)
(* on the model's word.                                                    *)
(***************************************************************************)
Deciding == {"context", "decide", "refresh", "submit"}

HashInv ==
    /\ cache \in {None} \cup Hash /\ refreshFailed \in BOOLEAN
    /\ pc = "preflight" => cache = None
    /\ pc \notin {"begin", "dropped"} => cache = None \/ cache.txn = txn \/ refreshFailed
    /\ pc \in Deciding /\ retries = 0 => cache = None \/ cache.used = FALSE \/ refreshFailed
    /\ pc = "submit" /\ decider = "heuristic" /\ retries # 0 => cache = None \/ cache.used = FALSE

(* The steps that sign nothing and fetch nothing.                          *)
LEMMA HashSame ==
    ASSUME HashInv, UNCHANGED <<cache, refreshFailed, decider>>,
           \/ pc' = pc /\ UNCHANGED <<txn, retries>>
           \/ pc' \in {"begin", "dropped"}
           \/ /\ pc \notin {"begin", "dropped"} /\ txn' = txn
              /\ pc' \notin Deciding \cup {"preflight"}
           \/ pc = "preflight" /\ pc' = "context" /\ txn' = txn
           \/ pc \in {"context", "decide"} /\ pc' \in {"decide", "refresh"} /\ UNCHANGED <<txn, retries>>
           \/ /\ pc = "decide" /\ pc' = "submit" /\ UNCHANGED <<txn, retries>>
              /\ decider = "heuristic" => retries = 0
           \/ pc = "note" /\ pc' = "context" /\ txn' = txn /\ retries' # 0
    PROVE  HashInv'
BY DEF HashInv, Deciding

LEMMA HashSigned ==
    ASSUME Kept, HashInv, pc = "submit",
           cache' = [HashToSign EXCEPT !.used = TRUE]
             \/ cache' = [HashToSign EXCEPT !.used = TRUE, !.forced = TRUE],
           UNCHANGED <<txn, refreshFailed>>
    PROVE  cache' \in Hash /\ (cache'.txn = txn \/ refreshFailed)
<1>1. Fetched \in Hash /\ Fetched.txn = txn
  BY DEF Fetched, Hash, Kept, LogTypes
<1>2. HashToSign \in Hash /\ (HashToSign.txn = txn \/ refreshFailed)
  BY <1>1 DEF HashToSign, HashInv
<1>3. cache'.txn = HashToSign.txn
  BY <1>2 DEF Hash
<1> QED
  BY <1>2, <1>3 DEF Hash

LEMMA HashStep == Kept /\ HashInv /\ [Next]_vars => HashInv'
<1> SUFFICES ASSUME Kept, HashInv, [Next]_vars PROVE HashInv'
  OBVIOUS
<1> USE DEF started, loopVars, hashVars
<1>1. CASE Preflight \/ OpenLog \/ BuildContext \/ SubmitFails
  BY <1>1, HashSame DEF Preflight, OpenLog, BuildContext, SubmitFails, Goto, Take, Deciding
<1>2. CASE Begin
  <2>1. Fetched \in Hash /\ Fetched.txn = txn /\ Fetched.used = FALSE
    BY DEF Fetched, Hash, Kept, LogTypes
  <2> QED
    BY <1>2, <2>1 DEF Begin, HashInv, Deciding
<1>3. CASE Decide
  <2>1. /\ UNCHANGED <<cache, refreshFailed, decider, txn, retries>> /\ pc = "decide"
        /\ pc' \in {"flush", "error", "refresh", "submit"}
    BY <1>3 DEF Decide, Finish
  <2>2. pc' = "submit" /\ decider = "heuristic" => retries = 0
    <3> SUFFICES ASSUME pc' = "submit", decider = "heuristic" PROVE retries = 0
      OBVIOUS
    <3>1. "Submit" \in Chosen
      BY <1>3 DEF Decide, Finish
    <3>2. HeuristicAction = "Submit"
      BY <3>1 DEF Chosen
    <3> QED
      BY <3>2 DEF HeuristicAction
  <2> QED
    BY <2>1, <2>2, HashSame DEF Deciding
<1>4. CASE Refresh
  <2>1. Fetched \in Hash /\ Fetched.txn = txn /\ Fetched.used = FALSE
    BY DEF Fetched, Hash, Kept, LogTypes
  <2> QED
    BY <1>4, <2>1 DEF Refresh, HashInv, Deciding
<1>5. CASE InjectExpiry \/ SubmitSimulated \/ SubmitLive
  <2>1. /\ pc = "submit" /\ UNCHANGED <<txn, refreshFailed>> /\ pc' \in {"note", "send"}
        /\ \/ cache' = [HashToSign EXCEPT !.used = TRUE]
           \/ cache' = [HashToSign EXCEPT !.used = TRUE, !.forced = TRUE]
    BY <1>5 DEF InjectExpiry, SubmitSimulated, SubmitLive, Sign, Take
  <2>2. cache' \in Hash /\ (cache'.txn = txn \/ refreshFailed)
    BY <2>1, HashSigned
  <2> QED
    BY <2>1, <2>2 DEF HashInv, Deciding
<1>6. CASE Send \/ Close \/ SeeOutcome \/ SeeConfirmed
  BY <1>6, HashSame DEF Send, SendResults, Close, SeeOutcome, SeeConfirmed, Finish, Deciding
<1>7. CASE Note
  <2>1. retries \in Nat
    BY DEF Kept, BudgetInv, CountersType
  <2>2. /\ UNCHANGED <<cache, refreshFailed, decider, txn>> /\ pc = "note"
        /\ pc' = "flush" \/ (pc' = "context" /\ retries' = retries + 1)
    BY <1>7 DEF Note, Finish
  <2> QED
    BY <2>1, <2>2, HashSame DEF Deciding
<1>8. CASE FinalizePending \/ DrainRecords \/ AppendRecord \/ AppendFails
  BY <1>8, HashSame DEF FinalizePending, DrainRecords, AppendRecord, AppendFails, Deciding
<1>9. CASE NextTransaction
  BY <1>9, HashSame DEF NextTransaction, Deciding
<1>10. CASE Ingest \/ Quit \/ SeeFinished \/ Join \/ DrawFails \/ UNCHANGED vars
  BY <1>10, HashSame DEF Ingest, Quit, SeeFinished, Join, DrawFails, Ui, vars
<1> QED
  BY <1>1, <1>2, <1>3, <1>4, <1>5, <1>6, <1>7, <1>8, <1>9, <1>10 DEF Next, Run

(* A bundle is signed with a hash of an earlier transaction, or twice with *)
(* one hash, only after a failed refresh or on the model's word.           *)
THEOREM FreshlySigned == Spec => SignsFreshHash
<1> DEFINE Signs == pc = "submit" /\ attempt' # attempt /\ pc' # "error" =>
                       /\ cache'.txn = txn \/ refreshFailed
                       /\ decider = "heuristic" =>
                             cache = None \/ ~ cache.used \/ (refreshFailed /\ retries = 0)
<1>1. Kept /\ HashInv /\ [Next]_vars => [Signs]_vars
  <2> SUFFICES ASSUME Kept, HashInv, [Next]_vars, pc = "submit", attempt' # attempt, pc' # "error"
               PROVE  /\ cache'.txn = txn \/ refreshFailed
                      /\ decider = "heuristic" =>
                            cache = None \/ ~ cache.used \/ (refreshFailed /\ retries = 0)
    OBVIOUS
  <2>1. InjectExpiry \/ SubmitSimulated \/ SubmitLive
    BY DEF Next, Run, vars, Preflight, OpenLog, Begin, BuildContext, Decide, Refresh, SubmitFails, Send,
       Close, SeeOutcome, SeeConfirmed, Note, FinalizePending, DrainRecords, AppendRecord, AppendFails,
       NextTransaction, Ingest, Quit, SeeFinished, Join, DrawFails, Ui, Goto
  <2>2. /\ UNCHANGED <<txn, refreshFailed>>
        /\ \/ cache' = [HashToSign EXCEPT !.used = TRUE]
           \/ cache' = [HashToSign EXCEPT !.used = TRUE, !.forced = TRUE]
    BY <2>1 DEF InjectExpiry, SubmitSimulated, SubmitLive, Sign, Take, hashVars
  <2>3. cache'.txn = txn \/ refreshFailed
    BY <2>2, HashSigned
  <2>4. decider = "heuristic" => cache = None \/ cache.used = FALSE \/ (refreshFailed /\ retries = 0)
    BY DEF HashInv, Deciding
  <2> QED
    BY <2>3, <2>4
<1>2. Init => HashInv
  BY DEF Init, StartDemo, StartLive, HashInv
<1>3. Spec => [](Kept /\ HashInv)
  BY <1>2, KeptAlways, HashStep, PTL DEF Spec
<1> QED
  BY <1>1, <1>3, PTL DEF Spec, SignsFreshHash

-------------------------------------------------------------------------------
(* Nobody joins a run that goes on, and a run dropped with its terminal is *)
(* not joined.                                                             *)
LeftInv ==
    /\ ui = "left" => pc \in {"done", "error"}
    /\ pc = "dropped" => ui = "broken"

LEMMA LeftStep == LeftInv /\ [Next]_vars => LeftInv'
<1> SUFFICES ASSUME LeftInv, [Next]_vars PROVE LeftInv'
  OBVIOUS
<1>1. CASE Run
  <2>1. ui' = ui /\ pc \notin {"done", "error", "dropped"} /\ pc' # "dropped"
    BY <1>1 DEF Run, Preflight, OpenLog, Begin, BuildContext, Decide, Refresh, SubmitFails, InjectExpiry,
       SubmitSimulated, SubmitLive, Sign, Take, Send, Close, SeeOutcome, SeeConfirmed, Note, FinalizePending,
       DrainRecords, AppendRecord, AppendFails, NextTransaction, Goto, Finish
  <2> QED
    BY <2>1 DEF LeftInv
<1>2. CASE Quit \/ SeeFinished \/ Join \/ DrawFails
  BY <1>2 DEF Quit, SeeFinished, Join, DrawFails, Ui, LeftInv, Ended
<1>3. CASE Ingest \/ UNCHANGED vars
  BY <1>3 DEF Ingest, vars, LeftInv
<1> QED
  BY <1>1, <1>2, <1>3 DEF Next

(* The program is left in good order only after the run has ended, with    *)
(* its attempts in the file unless it ended in an error.                   *)
THEOREM LeftInOrder == Spec => []LeftAfterRun
<1>1. Init => LeftInv
  BY DEF Init, StartDemo, StartLive, LeftInv, Dashboards
<1>2. Kept /\ LeftInv => LeftAfterRun
  BY DEF Kept, InOrder, LeftInv, LeftAfterRun
<1> QED
  BY <1>1, <1>2, KeptAlways, LeftStep, PTL DEF Spec
-------------------------------------------------------------------------------
(***************************************************************************)
(* The types of the rest of the state.  An outcome waits to be noted, the  *)
(* retries stay within the cycle, and what the tracker holds is marked     *)
(* with its last stage, so that the dashboard has a row to show of it.     *)
(***************************************************************************)
Places == {"preflight", "open", "begin", "context", "decide", "refresh", "submit", "send",
           "unsent", "confirm", "note", "flush", "drain", "append", "done", "error", "dropped"}

Ending == [how : {"landed", "held", "aborted"}, attempt : {0} \cup Sigs]

LoopTypes ==
    /\ decider \in Deciders /\ pc \in Places
    /\ first <= attempt /\ retries <= MaxRetries
    /\ lastFailure \in Opt(FailureClass) /\ expired \in BOOLEAN /\ inject \in BOOLEAN
    /\ result \in {None} \cup Outcome /\ (pc = "note" => result \in Outcome)

EndTypes == final \in [Txns -> {None} \cup Ending]

RowTypes ==
    /\ DOMAIN rows \subseteq Sigs /\ \A a \in DOMAIN rows : rows[a] \in Row
    /\ ui \in {"none", "drawing", "finished", "joining", "left", "broken"}

Typed == HashInv /\ LoopTypes /\ EndTypes /\ RowTypes /\ Marked(tracker)

(***************************************************************************)
(* The dashboard.  Only a single run has one, and its file is empty until  *)
(* its one transaction is over, so that the last record completed when an  *)
(* outcome is noted is that of the attempt it is noted for.                *)
(***************************************************************************)
\* Where no attempt is shown as under way.
Settled == Between \cup {"send", "unsent"}

RowsInv ==
    /\ mode = "campaign" => ui = "none"
    /\ ui = "none" => DOMAIN rows = {}
    /\ mode # "campaign" /\ ~ Ended /\ pc # "append" => log = <<>>
    /\ pc = "begin" => mode = "campaign"
    /\ \A a \in DOMAIN rows :
          IF rows[a].stage = Submitted
          THEN pc \notin Settled /\ (pc \in {"confirm", "note"} => a = attempt)
          ELSE a \in DOMAIN Accounts /\ rows[a] = RowOf(Accounts[a])

(***************************************************************************)
(* The demo with the heuristic decider, attempt by attempt.                *)
(***************************************************************************)
FailedFirst == 1 \in DOMAIN Accounts /\ Accounts[1].failure = "ExpiredBlockhash"

FaultArmed ==
    /\ attempt = 0 /\ retries = 0 /\ inject
    /\ pc \in {"context", "decide", "submit"}

FaultMet ==
    /\ attempt = 1 /\ ~ inject /\ FailedFirst /\ cache # None
    /\ \/ pc = "note" /\ result = FailedWith("ExpiredBlockhash") /\ retries = 0 /\ cache.forced
       \/ pc \in {"context", "refresh"} /\ retries = 1 /\ cache.forced
       \/ pc = "decide" /\ retries = 1 /\ cache.forced /\ expired
       \/ pc = "submit" /\ retries = 1 /\ ~ cache.forced

FaultPast ==
    /\ attempt = 2 /\ FailedFirst /\ cache # None /\ ~ cache.forced
    /\ 2 \in DOMAIN Accounts /\ RowOf(Accounts[2]).stage = Finalized
    /\ pc \in {"note", "flush", "open", "drain", "append", "done"}
    /\ pc = "note" => result.landed

FaultInv ==
    (mode = "demo" /\ decider = "heuristic" /\ MaxRetries >= 2) =>
        pc \in {"error", "dropped"} \/ FaultArmed \/ FaultMet \/ FaultPast

-------------------------------------------------------------------------------
(* The dashboard's rows with one more, or one anew.                        *)
Shown(a, row) ==
    /\ DOMAIN rows' = {a} \cup DOMAIN rows
    /\ rows'[a] = row
    /\ \A b \in DOMAIN rows \ {a} : rows'[b] = rows[b]

LEMMA Upserted ==
    ASSUME NEW a, NEW row, ui = "none"
    PROVE  Upsert(a, row) = rows
BY DEF Upsert

LEMMA UpsertDrawn ==
    ASSUME NEW a, NEW row, ui # "none", rows' = Upsert(a, row)
    PROVE  Shown(a, row)
BY DEF Upsert, Shown

LEMMA UpsertShown ==
    ASSUME NEW a, NEW row, rows' = Upsert(a, row)
    PROVE  rows' = rows \/ Shown(a, row)
BY Upserted, UpsertDrawn

(* The steps that note nothing and open no new transaction.                *)
LEMMA LoopSame ==
    ASSUME LoopTypes, UNCHANGED <<decider, first, retries, lastFailure>>,
           attempt \in Nat, first \in Nat, attempt' = attempt \/ attempt' = attempt + 1,
           expired' \in BOOLEAN, inject' \in BOOLEAN, pc' \in Places,
           \/ result' = result /\ (pc' = "note" => pc = "note")
           \/ result' \in Outcome
    PROVE  LoopTypes'
BY DEF LoopTypes

LEMMA LoopControl ==
    ASSUME Kept, LoopTypes,
           \/ Preflight \/ OpenLog \/ Begin \/ Decide \/ Refresh \/ SubmitFails \/ SubmitLive
           \/ Send \/ SeeConfirmed \/ FinalizePending \/ DrainRecords \/ AppendRecord \/ AppendFails
           \/ Ingest \/ Quit \/ SeeFinished \/ Join \/ DrawFails \/ UNCHANGED vars
    PROVE  LoopTypes'
<1>1. attempt \in Nat /\ first \in Nat /\ expired \in BOOLEAN /\ inject \in BOOLEAN /\ pc \in Places
  BY DEF Kept, BudgetInv, CountersType, LoopTypes
<1> DEFINE Same == /\ UNCHANGED <<decider, first, retries, lastFailure, expired, inject, result>>
                   /\ attempt' = attempt \/ attempt' = attempt + 1
                   /\ pc' \in Places /\ (pc' = "note" => pc = "note")
<1>2. CASE Preflight \/ OpenLog \/ Begin \/ Refresh \/ SubmitFails \/ SubmitLive
  <2>1. Same
    BY <1>2 DEF Preflight, OpenLog, Begin, Refresh, SubmitFails, SubmitLive, Goto, Sign, Take, Places,
       started, loopVars, hashVars
  <2> QED
    BY <1>1, <2>1, LoopSame
<1>3. CASE Decide \/ Send \/ SeeConfirmed
  <2>1. Same
    BY <1>3 DEF Decide, Send, SendResults, SeeConfirmed, Finish, Places, started, loopVars, hashVars
  <2> QED
    BY <1>1, <2>1, LoopSame
<1>4. CASE FinalizePending \/ DrainRecords \/ AppendRecord \/ AppendFails
  <2>1. Same
    BY <1>1, <1>4 DEF FinalizePending, DrainRecords, AppendRecord, AppendFails, Places,
       started, loopVars, hashVars
  <2> QED
    BY <1>1, <2>1, LoopSame
<1>5. CASE Ingest \/ Quit \/ SeeFinished \/ Join \/ DrawFails \/ UNCHANGED vars
  <2>1. Same
    BY <1>1, <1>5 DEF Ingest, Quit, SeeFinished, Join, DrawFails, Ui, vars, Places,
       started, loopVars, hashVars
  <2> QED
    BY <1>1, <2>1, LoopSame
<1> QED
  BY <1>2, <1>3, <1>4, <1>5

LEMMA LandedType == \A slot \in Slots : LandedAt(slot) \in Outcome
BY DEF Outcome

LEMMA FailedType == \A class \in FailureClass : FailedWith(class) \in Outcome
BY DEF Outcome

LEMMA OutcomeType ==
    ASSUME NEW o \in Outcome
    PROVE  /\ o.landed \in BOOLEAN
           /\ ~ o.landed => o.class \in FailureClass
<1>1. CASE \E slot \in Slots : o = LandedAt(slot)
  <2>1. o.landed = TRUE
    BY <1>1 DEF LandedAt
  <2> QED
    BY <2>1
<1>2. CASE \E class \in FailureClass : o = FailedWith(class)
  <2>1. o.landed = FALSE /\ o.class \in FailureClass
    BY <1>2 DEF FailedWith
  <2> QED
    BY <2>1
<1> QED
  BY <1>1, <1>2 DEF Outcome

(* What the tracker tells the executor of its bundle is an outcome.        *)
LEMMA SeenOutcome == Kept /\ SeeOutcome => result' \in Outcome
<1> SUFFICES ASSUME Kept, SeeOutcome PROVE result' \in Outcome
  OBVIOUS
<1> DEFINE done == CompletedOutcome(tracker, attempt)
<1>1. /\ pc = "confirm" /\ done # None
      /\ result' = IF done.failed THEN FailedWith(done.class) ELSE LandedAt(done.slot)
  BY DEF SeeOutcome
<1>2. /\ IsTracker(tracker) /\ Written \o pending \in Seq(Record)
      /\ OneOpen(tracker, Written \o pending, attempt) /\ attempt \in Nat
  BY <1>1, WrittenType, ConcatProperties
  DEF Kept, LogTypes, InOrder, Recorded, Ended, BudgetInv, CountersType
<1>3. \A i, j \in DOMAIN tracker.completed :
        tracker.completed[i].signature = tracker.completed[j].signature => i = j
  BY <1>2, OneOpenUnique
<1>4. PICK i \in DOMAIN tracker.completed :
        LET rec == tracker.completed[i]
        IN  \/ /\ rec.landed_slot # None
               /\ done = [failed |-> FALSE, slot |-> rec.landed_slot]
            \/ \E class \in FailureClass : done = [failed |-> TRUE, class |-> class]
  BY <1>1, <1>2, <1>3, OutcomeOf
<1>5. tracker.completed[i] \in Record
  BY <1>2, <1>4, ElementOfSeq, LenProperties DEF IsTracker
<1> HIDE DEF done
<1>6. CASE tracker.completed[i].landed_slot # None
           /\ done = [failed |-> FALSE, slot |-> tracker.completed[i].landed_slot]
  <2>1. done.failed = FALSE /\ done.slot \in Slots
    BY <1>5, <1>6 DEF Record, Opt
  <2> QED
    BY <1>1, <2>1, LandedType
<1>7. CASE \E class \in FailureClass : done = [failed |-> TRUE, class |-> class]
  <2>1. done.failed = TRUE /\ done.class \in FailureClass
    BY <1>7
  <2> QED
    BY <1>1, <2>1, FailedType
<1> QED
  BY <1>4, <1>6, <1>7

LEMMA LoopOutcome ==
    ASSUME Kept, LoopTypes,
           BuildContext \/ InjectExpiry \/ SubmitSimulated \/ Close \/ SeeOutcome
    PROVE  LoopTypes'
<1>1. attempt \in Nat /\ first \in Nat /\ expired \in BOOLEAN /\ inject \in BOOLEAN
  BY DEF Kept, BudgetInv, CountersType, LoopTypes
<1>2. CASE BuildContext
  <2>1. /\ UNCHANGED <<decider, first, retries, lastFailure, inject, result, attempt>>
        /\ pc' = "decide" /\ expired' \in BOOLEAN
    BY <1>2 DEF BuildContext, MaySeemExpired, started, hashVars
  <2> QED
    BY <1>1, <2>1, LoopSame DEF Places
<1>3. CASE InjectExpiry
  <2>1. /\ UNCHANGED <<decider, first, retries, lastFailure, expired>>
        /\ pc' = "note" /\ inject' = FALSE /\ attempt' = attempt + 1
        /\ result' = FailedWith("ExpiredBlockhash")
    BY <1>3 DEF InjectExpiry, Take, started
  <2>2. result' \in Outcome
    BY <2>1, FailedType DEF FailureClass
  <2> QED
    BY <1>1, <2>1, <2>2, LoopSame DEF Places
<1>4. CASE SubmitSimulated
  <2>1. /\ UNCHANGED <<decider, first, retries, lastFailure, expired, inject>>
        /\ pc' = "note" /\ attempt' = attempt + 1
        /\ \E slot \in Slots : result' = LandedAt(slot)
    BY <1>4 DEF SubmitSimulated, Sign, Take, started
  <2>2. result' \in Outcome
    BY <2>1, LandedType
  <2> QED
    BY <1>1, <2>1, <2>2, LoopSame DEF Places
<1>5. CASE Close
  <2>1. /\ UNCHANGED <<decider, first, retries, lastFailure, expired, inject, attempt>>
        /\ pc' = "note" /\ \E class \in FailureClass : result' = FailedWith(class)
    BY <1>5 DEF Close, started, hashVars
  <2>2. result' \in Outcome
    BY <2>1, FailedType
  <2> QED
    BY <1>1, <2>1, <2>2, LoopSame DEF Places
<1>6. CASE SeeOutcome
  <2>1. /\ UNCHANGED <<decider, first, retries, lastFailure, expired, inject, attempt>>
        /\ pc' = "note" /\ result' \in Outcome
    BY <1>6, SeenOutcome DEF SeeOutcome, started, hashVars
  <2> QED
    BY <1>1, <2>1, LoopSame DEF Places
<1> QED
  BY <1>2, <1>3, <1>4, <1>5, <1>6

(* A failure noted leaves the retries within the cycle.                    *)
LEMMA LoopNote == Kept /\ LoopTypes /\ Note => LoopTypes'
<1> SUFFICES ASSUME Kept, LoopTypes, Note PROVE LoopTypes'
  OBVIOUS
<1>1. /\ pc = "note" /\ UNCHANGED <<decider, attempt, first, expired, inject>> /\ result' = None
      /\ \/ pc' = "flush" /\ UNCHANGED <<retries, lastFailure>>
         \/ /\ pc' = "context" /\ ~ result.landed
            /\ retries' = retries + 1 /\ lastFailure' = result.class
  BY DEF Note, Finish, started, hashVars
<1>2. ~ result.landed => result.class \in FailureClass
  BY <1>1, OutcomeType DEF LoopTypes
<1>3. retries + 1 <= MaxRetries
  <2>1. attempt - first = retries + 1
    BY <1>1 DEF Kept, BudgetInv, Counted, During
  <2>2. attempt - first <= 1 \/ attempt - first <= MaxRetries
    BY DEF Kept, BudgetInv, BudgetKept
  <2>3. retries \in Nat /\ attempt \in Nat /\ first \in Nat /\ MaxRetries \in Nat \ {0}
    BY RetryAssumption DEF Kept, BudgetInv, CountersType
  <2> QED
    BY <2>1, <2>2, <2>3
<1>4. pc' \in Places /\ pc' # "note" /\ lastFailure' \in Opt(FailureClass) /\ retries' <= MaxRetries
  BY <1>1, <1>2, <1>3 DEF LoopTypes, Places, Opt
<1>5. /\ decider' \in Deciders /\ first' <= attempt' /\ expired' \in BOOLEAN /\ inject' \in BOOLEAN
  BY <1>1 DEF LoopTypes
<1> QED
  BY <1>1, <1>4, <1>5 DEF LoopTypes

LEMMA LoopNext == Kept /\ LoopTypes /\ NextTransaction => LoopTypes'
<1> SUFFICES ASSUME Kept, LoopTypes, NextTransaction PROVE LoopTypes'
  OBVIOUS
<1>1. /\ UNCHANGED <<decider, attempt, inject, result>>
      /\ \/ /\ pc' = "begin" /\ first' = attempt
            /\ retries' = 0 /\ lastFailure' = None /\ expired' = FALSE
         \/ pc' = "done" /\ UNCHANGED <<first, retries, lastFailure, expired>>
  BY DEF NextTransaction, started, hashVars
<1>2. attempt \in Nat /\ first \in Nat /\ retries \in Nat /\ MaxRetries \in Nat \ {0}
  BY RetryAssumption DEF Kept, BudgetInv, CountersType
<1>3. /\ decider' \in Deciders /\ pc' \in Places /\ pc' # "note"
      /\ inject' \in BOOLEAN /\ result' \in {None} \cup Outcome
  BY <1>1 DEF LoopTypes, Places
<1>4. expired' \in BOOLEAN /\ lastFailure' \in Opt(FailureClass)
  BY <1>1 DEF LoopTypes, Opt
<1>5. first' <= attempt' /\ retries' <= MaxRetries
  BY <1>1, <1>2 DEF LoopTypes
<1> QED
  BY <1>3, <1>4, <1>5 DEF LoopTypes

-------------------------------------------------------------------------------
(* What was reported of a transaction.                                     *)
LEMMA AttemptId == Kept => attempt \in {0} \cup Sigs
<1> SUFFICES ASSUME Kept PROVE attempt \in {0} \cup Sigs
  OBVIOUS
<1> DEFINE top == Count * MaxRetries
<1>1. attempt \in 0 .. top /\ Sigs = 1 .. top /\ top \in Nat
  BY AttemptRange, SigsAreAttempts, CountAssumption, RetryAssumption
<1> HIDE DEF top
<1> QED
  BY <1>1

LEMMA EndStep == Kept /\ EndTypes /\ [Next]_vars => EndTypes'
<1> SUFFICES ASSUME Kept, EndTypes, [Next]_vars PROVE EndTypes'
  OBVIOUS
<1>1. txn \in Txns /\ attempt \in {0} \cup Sigs
  BY AttemptId DEF Kept, LogTypes
<1>2. ASSUME NEW how \in {"landed", "held", "aborted"}, Finish(how) PROVE EndTypes'
  <2>1. [how |-> how, attempt |-> attempt] \in Ending
    BY <1>1 DEF Ending
  <2> QED
    BY <1>1, <1>2, <2>1 DEF Finish, EndTypes
<1>3. CASE UNCHANGED final
  BY <1>3 DEF EndTypes
<1>4. CASE Decide
  BY <1>2, <1>3, <1>4 DEF Decide
<1>5. CASE SeeConfirmed
  BY <1>2, <1>5 DEF SeeConfirmed
<1>6. CASE Note
  BY <1>2, <1>3, <1>6 DEF Note
<1>7. CASE Preflight \/ OpenLog \/ Begin \/ BuildContext \/ Refresh \/ SubmitFails \/ InjectExpiry
           \/ SubmitSimulated \/ SubmitLive \/ Send \/ Close \/ SeeOutcome
  BY <1>3, <1>7 DEF Preflight, OpenLog, Begin, BuildContext, Refresh, SubmitFails, InjectExpiry,
     SubmitSimulated, SubmitLive, Send, Close, SeeOutcome, Goto
<1>8. CASE FinalizePending \/ DrainRecords \/ AppendRecord \/ AppendFails \/ NextTransaction
           \/ Ingest \/ Quit \/ SeeFinished \/ Join \/ DrawFails \/ UNCHANGED vars
  BY <1>3, <1>8 DEF FinalizePending, DrainRecords, AppendRecord, AppendFails, NextTransaction,
     Ingest, Quit, SeeFinished, Join, DrawFails, Ui, vars
<1> QED
  BY <1>4, <1>5, <1>6, <1>7, <1>8 DEF Next, Run

-------------------------------------------------------------------------------
(* The made-up landing files one record, as finalized.                     *)
LEMMA SimulatedFiles ==
    ASSUME NEW tr, IsTracker(tr), Marked(tr), NEW sig \in Sigs, NEW slot \in Slots,
           NEW after \in Simulated(tr, sig, slot)
    PROVE  /\ IsTracker(after) /\ Marked(after)
           /\ EndIn(after, Len(tr.completed), {Finalized})
           /\ GrowsTo(tr.completed, after.completed)
<1> DEFINE seen == OnTransaction(tr, sig, slot, FALSE)
           mid  == CHOOSE t \in OnSlotCommitment(seen, slot, Confirmed) : TRUE
<1>1. IsTracker(seen) /\ Marked(seen) /\ seen.completed = tr.completed
  <2>1. FALSE \in BOOLEAN
    OBVIOUS
  <2>2. seen.completed = tr.completed
    BY DEF OnTransaction, IsTracker
  <2> HIDE DEF seen
  <2> QED
    BY <2>1, <2>2, OnTransactionType, OnTransactionMarked DEF seen
<1>2. after \in OnSlotCommitment(mid, slot, Finalized)
  BY DEF Simulated
<1> HIDE DEF seen
<1>3. Confirmed \in Levels /\ Finalized \in Levels
  BY DEF Levels
<1>4. mid = AdvanceAll(seen, slot, Confirmed) /\ mid \in OnSlotCommitment(seen, slot, Confirmed)
  BY DEF OnSlotCommitment, Confirmed, Finalized
<1> HIDE DEF mid
<1>5. IsTracker(mid) /\ Marked(mid) /\ mid.completed = tr.completed
  <2>1. mid.completed = seen.completed
    BY <1>1, <1>3, <1>4, AdvanceAllMarked
  <2> QED
    BY <1>1, <1>3, <1>4, <2>1, OnSlotCommitmentType, OnSlotCommitmentMarked
<1>6. /\ IsTracker(after) /\ Marked(after)
      /\ EndIn(after, Len(mid.completed), {Finalized})
      /\ GrowsTo(mid.completed, after.completed)
  BY <1>2, <1>3, <1>5, OnSlotCommitmentType, OnSlotCommitmentMarked, OnSlotCommitmentFiles
<1>7. GrowsTo(tr.completed, after.completed)
  BY <1>5, <1>6
<1> QED
  BY <1>5, <1>6, <1>7

-------------------------------------------------------------------------------
LEMMA SelfGrows == \A c : GrowsTo(c, c)
BY DEF GrowsTo

(* Whatever is done to the tracker but the drain marks what it holds and   *)
(* takes no record back.                                                   *)
LEMMA TrackerSend ==
    ASSUME Kept, Marked(tracker), Send
    PROVE  Marked(tracker') /\ GrowsTo(tracker.completed, tracker'.completed)
<1>1. pc = "send" /\ tracker' = Track(tracker, NewRecord(attempt, Lvbh))
  BY DEF Send
<1>2. attempt \in Sigs /\ Lvbh \in Heights /\ IsTracker(tracker) /\ Sound(tracker)
  BY <1>1, AttemptRange, SomeHeight DEF During, Lvbh, Kept, LogTypes
<1>3. Marked(tracker')
  BY <1>1, <1>2, TrackMarked
<1>4. tracker'.completed = tracker.completed
  BY <1>1, <1>2, TrackFollows
<1> QED
  BY <1>3, <1>4 DEF GrowsTo

(* The record of a simulated attempt is opened.                            *)
LEMMA OpenedMarked ==
    ASSUME Kept, Kept', Marked(tracker), pc = "submit", attempt' = attempt + 1, UNCHANGED <<txn, first>>
    PROVE  /\ attempt \in Nat /\ attempt = Recorded /\ attempt + 1 \in Sigs
           /\ IsTracker(Opened) /\ Sound(Opened) /\ Marked(Opened)
           /\ Opened.completed = tracker.completed
<1>1. attempt \in Nat /\ attempt = Recorded /\ attempt + 1 \in Sigs
  <2>1. BudgetInv'
    BY DEF Kept
  <2> QED
    BY <2>1, AttemptTaken
<1>2. Lvbh \in Heights /\ IsTracker(tracker) /\ Sound(tracker)
  BY SomeHeight DEF Lvbh, Kept, LogTypes
<1> DEFINE sig == attempt + 1
<1>3. sig \in Sigs
  BY <1>1
<1> HIDE DEF sig
<1> DEFINE after == Track(tracker, NewRecord(sig, Lvbh))
<1>4. IsTracker(after) /\ Sound(after) /\ after.completed = tracker.completed
  BY <1>2, <1>3, TrackFollows
<1>5. Marked(after)
  BY <1>2, <1>3, TrackMarked
<1> QED
  BY <1>1, <1>4, <1>5 DEF Opened, sig

LEMMA TrackerInject ==
    ASSUME Kept, Kept', Marked(tracker), InjectExpiry
    PROVE  Marked(tracker') /\ GrowsTo(tracker.completed, tracker'.completed)
<1>1. /\ pc = "submit" /\ attempt' = attempt + 1 /\ UNCHANGED <<txn, first>>
      /\ tracker' = Fail(Opened, attempt + 1, "ExpiredBlockhash")
  BY DEF InjectExpiry, Take
<1>2. /\ attempt + 1 \in Sigs /\ IsTracker(Opened) /\ Sound(Opened) /\ Marked(Opened)
      /\ Opened.completed = tracker.completed
  BY <1>1, OpenedMarked
<1>3. "ExpiredBlockhash" \in FailureClass
  BY DEF FailureClass
<1> HIDE DEF Opened
<1>4. Marked(tracker') /\ Moves(Opened, tracker', {}, {}, {})
  BY <1>1, <1>2, <1>3, FailMarked, FailMoves
<1> QED
  BY <1>2, <1>4, MovesKeepRecords

LEMMA TrackerSimulated ==
    ASSUME Kept, Kept', Marked(tracker), SubmitSimulated
    PROVE  /\ Marked(tracker') /\ GrowsTo(tracker.completed, tracker'.completed)
           /\ EndIn(tracker', Len(tracker.completed), {Finalized})
<1>1. /\ pc = "submit" /\ attempt' = attempt + 1 /\ UNCHANGED <<txn, first>>
  BY DEF SubmitSimulated, Sign, Take
<1>2. PICK slot \in Slots : tracker' \in Simulated(Opened, attempt + 1, slot)
  BY DEF SubmitSimulated
<1>3. /\ attempt + 1 \in Sigs /\ IsTracker(Opened) /\ Marked(Opened)
      /\ Opened.completed = tracker.completed
  BY <1>1, OpenedMarked
<1> HIDE DEF Opened
<1>4. /\ Marked(tracker') /\ EndIn(tracker', Len(Opened.completed), {Finalized})
      /\ GrowsTo(Opened.completed, tracker'.completed)
  BY <1>2, <1>3, SimulatedFiles
<1> QED
  BY <1>3, <1>4

LEMMA TrackerClose ==
    ASSUME Kept, Marked(tracker), Close
    PROVE  Marked(tracker') /\ GrowsTo(tracker.completed, tracker'.completed)
<1>1. PICK class \in FailureClass : tracker' = Fail(tracker, attempt, class)
  BY DEF Close
<1>2. pc \in {"unsent", "confirm"}
  BY DEF Close
<1>3. attempt \in Sigs /\ IsTracker(tracker) /\ Sound(tracker)
  BY <1>2, AttemptRange DEF During, Kept, LogTypes
<1>4. Marked(tracker') /\ Moves(tracker, tracker', {}, {}, {})
  BY <1>1, <1>3, FailMarked, FailMoves
<1> QED
  BY <1>3, <1>4, MovesKeepRecords

LEMMA TrackerFlush ==
    ASSUME Kept, Marked(tracker), FinalizePending
    PROVE  Marked(tracker') /\ GrowsTo(tracker.completed, tracker'.completed)
<1>1. tracker' \in FlushActive(tracker) /\ IsTracker(tracker) /\ Sound(tracker)
  BY DEF FinalizePending, Kept, LogTypes
<1>2. Marked(tracker') /\ Moves(tracker, tracker', LandedIn(tracker), {}, Slots)
  BY <1>1, FlushMarked, FlushMoves
<1> QED
  BY <1>1, <1>2, MovesKeepRecords

LEMMA TrackerIngest ==
    ASSUME Kept, Marked(tracker), Ingest
    PROVE  Marked(tracker') /\ GrowsTo(tracker.completed, tracker'.completed)
<1>1. IsTracker(tracker) /\ DOMAIN tracker.active \subseteq Sigs
  BY DEF Kept, LogTypes, IsTracker
<1>2. Marked(tracker')
  <2>1. CASE \E slot \in Slots, failed \in BOOLEAN, sig \in DOMAIN tracker.active :
               tracker' = OnTransaction(tracker, sig, slot, failed)
    BY <1>1, <2>1, OnTransactionMarked
  <2>2. CASE \E slot \in Slots, level \in Levels : tracker' \in OnSlotCommitment(tracker, slot, level)
    BY <1>1, <2>2, OnSlotCommitmentMarked
  <2> QED
    BY <2>1, <2>2 DEF Ingest
<1>3. \E news, vouched : Moves(tracker, tracker', LandedIn(tracker), news, vouched)
  BY IngestMoves
<1> QED
  BY <1>1, <1>2, <1>3, MovesKeepRecords

LEMMA DrainMarked ==
    ASSUME Kept, Marked(tracker), DrainRecords
    PROVE  Marked(tracker')
<1>1. tracker' = [active |-> tracker.active, completed |-> <<>>]
  BY DEF DrainRecords, DrainCompleted, Kept, LogTypes, IsTracker
<1>2. DOMAIN (<<>>) = {}
  BY EmptySeq
<1> QED
  BY <1>1, <1>2 DEF Marked, EndIn

\* The steps that leave the tracker alone.
KeepsTracker ==
    \/ Preflight \/ OpenLog \/ Begin \/ BuildContext \/ Decide \/ Refresh \/ SubmitFails \/ SubmitLive
    \/ SeeOutcome \/ SeeConfirmed \/ Note \/ AppendRecord \/ AppendFails \/ NextTransaction
    \/ Quit \/ SeeFinished \/ Join \/ DrawFails \/ UNCHANGED vars

LEMMA TrackerKept == KeepsTracker => tracker' = tracker
BY DEF KeepsTracker, Preflight, OpenLog, Begin, BuildContext, Decide, Refresh, SubmitFails, SubmitLive,
   SeeOutcome, SeeConfirmed, Note, AppendRecord, AppendFails, NextTransaction,
   Quit, SeeFinished, Join, DrawFails, Goto, Ui, vars

LEMMA MarkedStep == Kept /\ Kept' /\ Marked(tracker) /\ [Next]_vars => Marked(tracker')
<1> SUFFICES ASSUME Kept, Kept', Marked(tracker), [Next]_vars PROVE Marked(tracker')
  OBVIOUS
<1>1. CASE KeepsTracker
  <2>1. tracker' = tracker
    BY <1>1, TrackerKept
  <2> QED
    BY <2>1
<1> QED
  BY <1>1, TrackerSend, TrackerInject, TrackerSimulated, TrackerClose, TrackerFlush, TrackerIngest, DrainMarked
  DEF Next, Run, KeepsTracker

(* A drained record is pending, a line written is a record still: no       *)
(* account changes or is lost.                                             *)
LEMMA AccountsGrow == Kept /\ Kept' /\ Marked(tracker) /\ [Next]_vars => GrowsTo(Accounts, Accounts')
<1> SUFFICES ASSUME Kept, Kept', Marked(tracker), [Next]_vars PROVE GrowsTo(Accounts, Accounts')
  OBVIOUS
<1>1. /\ log \in Seq(Lines) /\ pending \in Seq(Record) /\ torn \in BOOLEAN
      /\ Written \in Seq(Record) /\ Written \o pending \in Seq(Record)
      /\ tracker.completed \in Seq(Record) /\ tracker'.completed \in Seq(Record)
  BY WrittenType, ConcatProperties DEF Kept, LogTypes, IsTracker
<1>2. ASSUME UNCHANGED <<pending, log>>, GrowsTo(tracker.completed, tracker'.completed)
      PROVE  GrowsTo(Accounts, Accounts')
  <2>1. Written' = Written
    BY <1>2 DEF Written
  <2>2. Accounts = (Written \o pending) \o tracker.completed
        /\ Accounts' = (Written \o pending) \o tracker'.completed
    BY <1>2, <2>1 DEF Accounts
  <2> QED
    BY <1>1, <1>2, <2>2, ConcatGrows
<1>3. CASE Send \/ InjectExpiry \/ SubmitSimulated \/ Close \/ FinalizePending \/ Ingest
  <2>1. UNCHANGED <<pending, log>>
    BY <1>3 DEF Send, InjectExpiry, SubmitSimulated, Close, FinalizePending, Ingest, fileVars
  <2>2. GrowsTo(tracker.completed, tracker'.completed)
    BY <1>3, TrackerSend, TrackerInject, TrackerSimulated, TrackerClose, TrackerFlush, TrackerIngest
  <2> QED
    BY <1>2, <2>1, <2>2
<1>4. CASE DrainRecords
  <2>1. /\ pending = <<>> /\ pending' = tracker.completed /\ log' = log
        /\ tracker'.completed = <<>>
    BY <1>4 DEF DrainRecords, DrainCompleted, Kept, InOrder, LogTypes, IsTracker, Ended
  <2>2. Written' = Written
    BY <2>1 DEF Written
  <2>3. Written \o pending = Written
    BY <1>1, <2>1, ConcatEmptySeq
  <2>4. (Written \o pending)' = Written \o tracker.completed
    BY <2>1, <2>2
  <2>5. Written \o tracker.completed \in Seq(Record)
    BY <1>1, ConcatProperties
  <2>6. (Written \o tracker.completed) \o <<>> = Written \o tracker.completed
    BY <2>5, ConcatEmptySeq
  <2>7. Accounts' = Accounts
    BY <2>1, <2>3, <2>4, <2>6 DEF Accounts
  <2> QED
    BY <2>7, SelfGrows
<1>5. CASE AppendRecord \/ AppendFails
  <2>1. /\ pending # <<>> /\ tracker' = tracker
        /\ \/ log' = log /\ pending' = pending
           \/ log' = Append(log, Line(Head(pending))) /\ pending' = Tail(pending)
    BY <1>5 DEF AppendRecord, AppendFails
  <2>2. CASE log' = log /\ pending' = pending
    BY <1>2, <2>1, <2>2, SelfGrows
  <2>3. CASE log' = Append(log, Line(Head(pending))) /\ pending' = Tail(pending)
    <3>1. Written' = Append(Written, Head(pending))
      BY <1>1, <2>1, <2>3, LineWritten
    <3>2. (Written \o pending)' = Written \o pending
      BY <1>1, <2>1, <2>3, <3>1, HeadWritten
    <3>3. Accounts' = Accounts
      BY <2>1, <3>2 DEF Accounts
    <3> QED
      BY <3>3, SelfGrows
  <2> QED
    BY <2>1, <2>2, <2>3
<1>6. CASE KeepsTracker /\ ~ (AppendRecord \/ AppendFails)
  <2>1. tracker' = tracker
    BY <1>6, TrackerKept
  <2>2. UNCHANGED <<pending, log>>
    BY <1>6 DEF KeepsTracker, Preflight, OpenLog, Begin, BuildContext, Decide, Refresh, SubmitFails,
       SubmitLive, SeeOutcome, SeeConfirmed, Note, NextTransaction,
       Quit, SeeFinished, Join, DrawFails, Goto, Ui, vars, fileVars
  <2> QED
    BY <1>2, <2>1, <2>2, SelfGrows
<1> QED
  BY <1>3, <1>4, <1>5, <1>6 DEF Next, Run, KeepsTracker

-------------------------------------------------------------------------------
(* The record behind a row that is noted.                                  *)
LEMMA FiledRow ==
    ASSUME NEW rec \in Record, EndsIn(rec, Levels)
    PROVE  RowOf(rec) \in Row /\ RowOf(rec).stage # Submitted
<1>1. RowOf(rec) = [stage   |-> IF rec.failure # None THEN Failed ELSE LastStage(rec),
                    slot    |-> rec.landed_slot,
                    failure |-> rec.failure]
  BY DEF RowOf, LastStage
<1>2. rec.landed_slot \in Opt(Slots) /\ rec.failure \in Opt(FailureClass)
  BY DEF Record
<1> DEFINE st == IF rec.failure # None THEN Failed ELSE LastStage(rec)
<1>3. st \in {Failed} \cup Levels /\ st # Submitted
  BY DEF EndsIn, Levels, Submitted, Processed, Confirmed, Finalized, Failed
<1> HIDE DEF st
<1>4. RowOf(rec) = [stage |-> st, slot |-> rec.landed_slot, failure |-> rec.failure]
  BY <1>1 DEF st
<1> QED
  BY <1>2, <1>3, <1>4 DEF Row

LEMMA NotedRecord ==
    ASSUME Kept, RowsInv, Marked(tracker), pc = "note", ui # "none"
    PROVE  /\ attempt \in Sigs /\ attempt \in DOMAIN Accounts
           /\ RowOf(Accounts[attempt]) \in Row /\ RowOf(Accounts[attempt]).stage # Submitted
           /\ NotedRows = Upsert(attempt, RowOf(Accounts[attempt]))
<1> DEFINE c == tracker.completed
<1>1. attempt \in Sigs /\ attempt \in Nat \ {0}
  BY AttemptRange, SigsAreAttempts DEF During
<1>2. mode # "campaign" /\ log = <<>> /\ pending = <<>> /\ DOMAIN tracker.active = {}
  BY DEF RowsInv, Kept, InOrder, Ended, Alone
<1>3. /\ log \in Seq(Lines) /\ c \in Seq(Record)
      /\ OneOpen(tracker, Written \o pending, attempt) /\ Numbered(Accounts)
  BY DEF Kept, LogTypes, InOrder, Ended, Recorded, IsTracker
<1>4. Written = <<>>
  <2>1. DOMAIN log = {}
    BY <1>2, EmptySeq
  <2> QED
    BY <2>1 DEF Written
<1>5. Accounts = c /\ Len(c) = attempt
  <2>1. <<>> \in Seq(Record) /\ (<<>> \o <<>>) = <<>> /\ <<>> \o c = c
    BY <1>3, EmptySeq, ConcatEmptySeq
  <2>2. (Written \o pending) \o tracker.completed = c
    BY <1>2, <1>4, <2>1
  <2> QED
    BY <1>1, <1>2, <1>3, <2>2 DEF OneOpen, Accounts
<1> HIDE DEF c
<1>6. DOMAIN c = 1 .. attempt /\ attempt \in DOMAIN c /\ c # <<>>
  <2>1. DOMAIN c = 1 .. attempt
    BY <1>3, <1>5, LenProperties
  <2>2. Len(<<>>) = 0
    BY EmptySeq
  <2> QED
    BY <1>1, <1>5, <2>1, <2>2
<1>7. Last(c) = c[attempt] /\ c[attempt] \in Record /\ c[attempt].signature = attempt
  <2>1. c[attempt] \in Record
    BY <1>3, <1>5, <1>6, ElementOfSeq
  <2> QED
    BY <1>3, <1>5, <1>6, <2>1 DEF Last, Numbered
<1>8. EndsIn(c[attempt], Levels)
  BY <1>1, <1>6 DEF Marked, EndIn, c
<1>9. NotedRows = Upsert(attempt, RowOf(c[attempt]))
  BY <1>6, <1>7 DEF NotedRows, c
<1> QED
  BY <1>1, <1>5, <1>6, <1>7, <1>8, <1>9, FiledRow

(* A row is shown for an attempt under way, or for the one just noted.     *)
LEMMA SubmittedShown ==
    ASSUME RowTypes, NEW a \in Sigs, rows' = Upsert(a, SubmittedRow), ui' = ui
    PROVE  RowTypes'
<1>1. SubmittedRow \in Row
  BY DEF SubmittedRow, Row, Opt
<1>2. rows' = rows \/ Shown(a, SubmittedRow)
  BY UpsertShown
<1> QED
  BY <1>1, <1>2 DEF RowTypes, Shown

LEMMA RowTypeStep ==
    Kept /\ Kept' /\ RowsInv /\ Marked(tracker) /\ RowTypes /\ [Next]_vars => RowTypes'
<1> SUFFICES ASSUME Kept, Kept', RowsInv, Marked(tracker), RowTypes, [Next]_vars PROVE RowTypes'
  OBVIOUS
<1>1. CASE rows' = rows /\ ui' = ui
  BY <1>1 DEF RowTypes
<1>2. CASE Send
  <2>1. pc = "send" /\ ui' = ui /\ (rows' = rows \/ rows' = Upsert(attempt, SubmittedRow))
    BY <1>2 DEF Send
  <2>2. attempt \in Sigs
    BY <2>1, AttemptRange DEF During
  <2> QED
    BY <1>1, <2>1, <2>2, SubmittedShown
<1>3. CASE SubmitSimulated
  <2>1. /\ pc = "submit" /\ attempt' = attempt + 1 /\ UNCHANGED <<txn, first, ui>>
        /\ rows' = Upsert(attempt + 1, SubmittedRow)
    BY <1>3 DEF SubmitSimulated, Sign, Take
  <2>2. attempt + 1 \in Sigs
    BY <2>1, AttemptTaken DEF Kept
  <2> QED
    BY <2>1, <2>2, SubmittedShown
<1>4. CASE Note
  <2>1. pc = "note" /\ ui' = ui /\ rows' = NotedRows
    BY <1>4 DEF Note
  <2>2. CASE ui = "none"
    <3>1. NotedRows = rows
      BY <2>2, Upserted DEF NotedRows
    <3> QED
      BY <1>1, <2>1, <3>1
  <2>3. CASE ui # "none"
    <3> DEFINE row == RowOf(Accounts[attempt])
    <3>1. attempt \in Sigs /\ row \in Row /\ rows' = Upsert(attempt, row)
      BY <2>1, <2>3, NotedRecord
    <3> HIDE DEF row
    <3>2. rows' = rows \/ Shown(attempt, row)
      BY <3>1, UpsertShown
    <3> QED
      BY <2>1, <3>1, <3>2 DEF RowTypes, Shown
  <2> QED
    BY <2>2, <2>3
<1>5. CASE Quit \/ SeeFinished \/ Join \/ DrawFails
  BY <1>5 DEF Quit, SeeFinished, Join, DrawFails, Ui, RowTypes
<1>6. CASE Preflight \/ OpenLog \/ Begin \/ BuildContext \/ Decide \/ Refresh \/ SubmitFails
           \/ InjectExpiry \/ SubmitLive \/ Close \/ SeeOutcome \/ SeeConfirmed
  BY <1>1, <1>6 DEF Preflight, OpenLog, Begin, BuildContext, Decide, Refresh, SubmitFails, InjectExpiry,
     SubmitLive, Close, SeeOutcome, SeeConfirmed, Goto
<1>7. CASE FinalizePending \/ DrainRecords \/ AppendRecord \/ AppendFails \/ NextTransaction \/ Ingest
           \/ UNCHANGED vars
  BY <1>1, <1>7 DEF FinalizePending, DrainRecords, AppendRecord, AppendFails, NextTransaction, Ingest, vars
<1> QED
  BY <1>2, <1>3, <1>4, <1>5, <1>6, <1>7 DEF Next, Run

-------------------------------------------------------------------------------
(* The steps that change no row.                                           *)
LEMMA RowsSame ==
    ASSUME RowsInv, GrowsTo(Accounts, Accounts'), UNCHANGED <<mode, rows>>,
           ui' = ui \/ (ui # "none" /\ ui' # "none"),
           mode # "campaign" /\ ~ Ended' /\ pc' # "append" => log' = log /\ ~ Ended /\ pc # "append",
           pc' = "begin" => mode = "campaign",
           \/ pc' = pc /\ attempt' = attempt
           \/ pc \in Settled
           \/ pc' \notin Settled \cup {"confirm", "note"}
           \/ pc = "confirm" /\ pc' = "note" /\ attempt' = attempt
           \/ mode = "campaign"
    PROVE  RowsInv'
<1>1. /\ (mode = "campaign" => ui = "none")'
      /\ (ui = "none" => DOMAIN rows = {})'
      /\ (mode # "campaign" /\ ~ Ended /\ pc # "append" => log = <<>>)'
      /\ (pc = "begin" => mode = "campaign")'
  BY DEF RowsInv
<1>2. ASSUME NEW a \in DOMAIN rows, rows[a].stage = Submitted
      PROVE  pc' \notin Settled /\ (pc' \in {"confirm", "note"} => a = attempt')
  <2>1. pc \notin Settled /\ (pc \in {"confirm", "note"} => a = attempt)
    BY <1>2 DEF RowsInv
  <2>2. mode # "campaign"
    BY <1>2 DEF RowsInv
  <2> QED
    BY <2>1, <2>2 DEF Settled, Between
<1>3. ASSUME NEW a \in DOMAIN rows, rows[a].stage # Submitted
      PROVE  a \in DOMAIN Accounts' /\ rows[a] = RowOf(Accounts'[a])
  <2>1. a \in DOMAIN Accounts /\ rows[a] = RowOf(Accounts[a])
    BY <1>3 DEF RowsInv
  <2> QED
    BY <2>1 DEF GrowsTo
<1> QED
  BY <1>1, <1>2, <1>3 DEF RowsInv, Settled

(* A row for an attempt under way.                                         *)
LEMMA RowsSubmitted ==
    ASSUME RowsInv, GrowsTo(Accounts, Accounts'), UNCHANGED <<mode, ui, log>>,
           pc \in Settled, ~ Ended, pc' \in {"confirm", "note"},
           rows' = Upsert(attempt', SubmittedRow)
    PROVE  RowsInv'
<1>1. CASE ui = "none"
  <2>1. rows' = rows
    BY <1>1, Upserted
  <2> QED
    BY <2>1, RowsSame DEF Settled, Between, Ended
<1>2. CASE ui # "none"
  <2>1. /\ DOMAIN rows' = {attempt'} \cup DOMAIN rows /\ rows'[attempt'] = SubmittedRow
        /\ \A b \in DOMAIN rows \ {attempt'} : rows'[b] = rows[b]
    <3> DEFINE a == attempt'
    <3>1. rows' = Upsert(a, SubmittedRow)
      OBVIOUS
    <3> HIDE DEF a
    <3>2. Shown(a, SubmittedRow)
      BY <1>2, <3>1, UpsertDrawn
    <3> QED
      BY <3>2 DEF Shown, a
  <2>2. rows'[attempt'].stage = Submitted
    BY <2>1 DEF SubmittedRow
  <2>3. ASSUME NEW a \in DOMAIN rows \ {attempt'}
        PROVE  /\ rows[a].stage # Submitted
               /\ a \in DOMAIN Accounts' /\ rows[a] = RowOf(Accounts'[a])
    <3>1. rows[a].stage # Submitted /\ a \in DOMAIN Accounts /\ rows[a] = RowOf(Accounts[a])
      BY DEF RowsInv
    <3> QED
      BY <3>1 DEF GrowsTo
  <2>4. \A a \in DOMAIN rows' :
          IF rows'[a].stage = Submitted
          THEN pc' \notin Settled /\ (pc' \in {"confirm", "note"} => a = attempt')
          ELSE a \in DOMAIN Accounts' /\ rows'[a] = RowOf(Accounts'[a])
    BY <2>1, <2>2, <2>3 DEF Settled, Between
  <2>5. /\ (mode = "campaign" => ui = "none")'
        /\ (ui = "none" => DOMAIN rows = {})'
        /\ (mode # "campaign" /\ ~ Ended /\ pc # "append" => log = <<>>)'
        /\ (pc = "begin" => mode = "campaign")'
    BY <1>2 DEF RowsInv, Settled, Between
  <2> QED
    BY <2>4, <2>5 DEF RowsInv, Settled
<1> QED
  BY <1>1, <1>2

(* The row of the attempt whose outcome is noted.                          *)
LEMMA RowsNote ==
    ASSUME Kept, RowsInv, Marked(tracker), GrowsTo(Accounts, Accounts'), Note
    PROVE  RowsInv'
<1>1. /\ pc = "note" /\ pc' \in {"context", "flush"} /\ rows' = NotedRows
      /\ UNCHANGED <<mode, ui, log, attempt>>
  BY DEF Note, Finish, started, fileVars
<1>2. CASE ui = "none"
  <2>1. rows' = rows
    BY <1>1, <1>2, Upserted DEF NotedRows
  <2>2. DOMAIN rows = {}
    BY <1>2 DEF RowsInv
  <2> QED
    BY <1>1, <2>1, <2>2 DEF RowsInv, Ended
<1>3. CASE ui # "none"
  <2> DEFINE row == RowOf(Accounts[attempt])
  <2>1. attempt \in DOMAIN Accounts /\ row.stage # Submitted /\ rows' = Upsert(attempt, row)
    BY <1>1, <1>3, NotedRecord
  <2> HIDE DEF row
  <2>2. /\ DOMAIN rows' = {attempt} \cup DOMAIN rows /\ rows'[attempt] = row
        /\ \A b \in DOMAIN rows \ {attempt} : rows'[b] = rows[b]
    BY <1>3, <2>1, UpsertDrawn DEF Shown
  <2>3. attempt \in DOMAIN Accounts' /\ Accounts'[attempt] = Accounts[attempt]
    BY <2>1 DEF GrowsTo
  <2>4. ASSUME NEW a \in DOMAIN rows \ {attempt}
        PROVE  /\ rows[a].stage # Submitted
               /\ a \in DOMAIN Accounts' /\ rows[a] = RowOf(Accounts'[a])
    <3>1. rows[a].stage # Submitted /\ a \in DOMAIN Accounts /\ rows[a] = RowOf(Accounts[a])
      BY <1>1 DEF RowsInv
    <3> QED
      BY <3>1 DEF GrowsTo
  <2>5. \A a \in DOMAIN rows' :
          /\ rows'[a].stage # Submitted
          /\ a \in DOMAIN Accounts' /\ rows'[a] = RowOf(Accounts'[a])
    BY <2>1, <2>2, <2>3, <2>4 DEF row
  <2>6. /\ (mode = "campaign" => ui = "none")'
        /\ (ui = "none" => DOMAIN rows = {})'
        /\ (mode # "campaign" /\ ~ Ended /\ pc # "append" => log = <<>>)'
        /\ (pc = "begin" => mode = "campaign")'
    BY <1>1, <1>3 DEF RowsInv, Ended
  <2> QED
    BY <2>5, <2>6 DEF RowsInv, Settled
<1> QED
  BY <1>2, <1>3

LEMMA RowsStep ==
    Kept /\ Kept' /\ Marked(tracker) /\ RowsInv /\ [Next]_vars => RowsInv'
<1> SUFFICES ASSUME Kept, Kept', Marked(tracker), RowsInv, [Next]_vars PROVE RowsInv'
  OBVIOUS
<1>1. GrowsTo(Accounts, Accounts')
  BY AccountsGrow
<1>2. CASE Preflight \/ OpenLog \/ Begin \/ BuildContext \/ Decide \/ Refresh
  <2>1. /\ UNCHANGED <<mode, rows, ui, log>>
        /\ pc \in Settled \/ pc' \notin Settled \cup {"confirm", "note"} \/ mode = "campaign"
        /\ ~ Ended /\ pc # "append" /\ (pc' = "begin" => mode = "campaign")
    BY <1>2 DEF Preflight, OpenLog, Begin, BuildContext, Decide, Refresh, Goto, Finish, Settled, Between,
       Ended, started, fileVars
  <2> QED
    BY <1>1, <2>1, RowsSame
<1>3. CASE SubmitFails \/ InjectExpiry \/ SubmitLive
  <2>1. /\ UNCHANGED <<mode, rows, ui, log>> /\ pc \in Settled
        /\ ~ Ended /\ pc # "append" /\ pc' # "begin"
    BY <1>3 DEF SubmitFails, InjectExpiry, SubmitLive, Sign, Take, Settled, Between,
       Ended, started, fileVars
  <2> QED
    BY <1>1, <2>1, RowsSame
<1>4. CASE SubmitSimulated
  <2>1. /\ UNCHANGED <<mode, ui, log>> /\ pc \in Settled /\ ~ Ended /\ pc' \in {"confirm", "note"}
        /\ attempt' = attempt + 1 /\ rows' = Upsert(attempt + 1, SubmittedRow)
    BY <1>4 DEF SubmitSimulated, Sign, Take, Settled, Between, Ended, started, fileVars
  <2>2. rows' = Upsert(attempt', SubmittedRow)
    BY <2>1
  <2> QED
    BY <1>1, <2>1, <2>2, RowsSubmitted
<1>5. CASE Send
  <2>1. /\ UNCHANGED <<mode, ui, log, attempt>> /\ pc \in Settled /\ ~ Ended /\ pc # "append"
        /\ \/ pc' = "confirm" /\ rows' = Upsert(attempt, SubmittedRow)
           \/ pc' = "unsent" /\ rows' = rows
    BY <1>5 DEF Send, SendResults, Settled, Ended, started, fileVars
  <2>2. CASE pc' = "confirm" /\ rows' = Upsert(attempt, SubmittedRow)
    <3>1. rows' = Upsert(attempt', SubmittedRow)
      BY <2>1, <2>2
    <3> QED
      BY <1>1, <2>1, <2>2, <3>1, RowsSubmitted
  <2>3. CASE pc' = "unsent" /\ rows' = rows
    BY <1>1, <2>1, <2>3, RowsSame
  <2> QED
    BY <2>1, <2>2, <2>3
<1>6. CASE Close \/ SeeOutcome \/ SeeConfirmed
  <2>1. /\ UNCHANGED <<mode, rows, ui, log, attempt>> /\ ~ Ended /\ pc # "append" /\ pc' # "begin"
        /\ \/ pc \in Settled
           \/ pc = "confirm" /\ pc' = "note"
           \/ pc' \notin Settled \cup {"confirm", "note"}
    BY <1>6 DEF Close, SeeOutcome, SeeConfirmed, Finish, Settled, Between, Ended, started, fileVars
  <2> QED
    BY <1>1, <2>1, RowsSame
<1>7. CASE FinalizePending \/ DrainRecords \/ AppendRecord \/ AppendFails
  <2>1. /\ UNCHANGED <<mode, rows, ui>> /\ pc' # "begin"
        /\ pc' \notin Settled \cup {"confirm", "note"}
        /\ ~ Ended' /\ pc' # "append" => log' = log /\ ~ Ended /\ pc # "append"
    BY <1>7 DEF FinalizePending, DrainRecords, AppendRecord, AppendFails, Settled, Between, Ended,
       started, fileVars
  <2> QED
    BY <1>1, <2>1, RowsSame
<1>8. CASE NextTransaction
  <2>1. /\ UNCHANGED <<mode, rows, ui>>
        /\ (pc' = "begin" /\ txn < Transactions) \/ pc' = "done"
    BY <1>8 DEF NextTransaction, started
  <2>2. txn \in Nat /\ txn >= 1
    BY CountAssumption DEF Kept, LogTypes, Txns
  <2>3. pc' = "begin" => mode = "campaign"
    BY <2>1, <2>2 DEF Transactions
  <2>4. mode = "campaign" \/ (Ended' /\ pc' \notin Settled \cup {"confirm", "note"})
    BY <2>1, <2>3 DEF Ended, Settled, Between
  <2> QED
    BY <1>1, <2>1, <2>3, <2>4, RowsSame
<1>9. CASE Ingest \/ UNCHANGED vars
  <2>1. UNCHANGED <<mode, rows, ui, log, pc, attempt>>
    BY <1>9 DEF Ingest, vars, started, fileVars
  <2>2. pc' = "begin" => mode = "campaign"
    BY <2>1 DEF RowsInv
  <2>3. Ended' = Ended
    BY <2>1 DEF Ended
  <2> QED
    BY <1>1, <2>1, <2>2, <2>3, RowsSame
<1>10. CASE Quit \/ SeeFinished \/ Join \/ DrawFails
  <2>1. /\ UNCHANGED <<mode, rows, log, attempt>> /\ ui # "none" /\ ui' # "none"
        /\ pc' = pc \/ pc' = "dropped"
    BY <1>10 DEF Quit, SeeFinished, Join, DrawFails, Ui, started, fileVars
  <2>2. CASE pc' = pc
    <3>1. pc' = "begin" => mode = "campaign"
      BY <2>2 DEF RowsInv
    <3>2. Ended' = Ended
      BY <2>2 DEF Ended
    <3> QED
      BY <1>1, <2>1, <2>2, <3>1, <3>2, RowsSame
  <2>3. CASE pc' = "dropped"
    BY <1>1, <2>1, <2>3, RowsSame DEF Ended, Settled, Between
  <2> QED
    BY <2>1, <2>2, <2>3
<1> QED
  BY <1>1, <1>2, <1>3, <1>4, <1>5, <1>6, <1>7, <1>8, <1>9, <1>10, RowsNote DEF Next, Run

-------------------------------------------------------------------------------
(* All of it together.                                                     *)
LEMMA TypedInit == Init => Typed /\ RowsInv
<1> SUFFICES ASSUME Init PROVE Typed /\ RowsInv
  OBVIOUS
<1>1. /\ mode \in {"campaign", "live", "demo"} /\ decider \in Deciders /\ pc \in {"context", "preflight"}
      /\ attempt = 0 /\ first = 0 /\ retries = 0 /\ lastFailure = None /\ expired = FALSE /\ result = None
      /\ inject \in BOOLEAN /\ cache = None /\ refreshFailed = FALSE
      /\ tracker = EmptyTracker /\ log = <<>>
      /\ final = [t \in Txns |-> None] /\ rows = [a \in {} |-> None]
      /\ ui \in Dashboards /\ (mode = "campaign" => ui = "none")
  BY DEF Init, StartDemo, StartLive, Dashboards
<1>2. HashInv
  BY <1>1 DEF HashInv, Deciding
<1>3. LoopTypes
  <2>1. first <= attempt /\ retries <= MaxRetries
    BY <1>1, RetryAssumption
  <2>2. expired \in BOOLEAN /\ inject \in BOOLEAN /\ lastFailure \in Opt(FailureClass)
    BY <1>1 DEF Opt
  <2>3. decider \in Deciders /\ pc \in Places /\ pc # "note" /\ result = None
    BY <1>1 DEF Places
  <2> QED
    BY <2>1, <2>2, <2>3 DEF LoopTypes
<1>4. EndTypes
  BY <1>1 DEF EndTypes
<1>5. DOMAIN rows = {}
  BY <1>1
<1>6. RowTypes
  BY <1>1, <1>5 DEF RowTypes, Dashboards
<1>7. Marked(tracker)
  <2>1. DOMAIN (<<>>) = {}
    BY EmptySeq
  <2> QED
    BY <1>1, <2>1 DEF Marked, EndIn, EmptyTracker
<1>8. RowsInv
  BY <1>1, <1>5 DEF RowsInv
<1> QED
  BY <1>2, <1>3, <1>4, <1>6, <1>7, <1>8 DEF Typed

LEMMA TypedStep == Kept /\ Typed /\ RowsInv /\ [Next]_vars => Kept' /\ Typed' /\ RowsInv'
<1> SUFFICES ASSUME Kept, Typed, RowsInv, [Next]_vars PROVE Kept' /\ Typed' /\ RowsInv'
  OBVIOUS
<1>1. Kept'
  BY KeptStep
<1>2. HashInv' /\ EndTypes'
  BY HashStep, EndStep DEF Typed
<1>3. LoopTypes'
  BY LoopControl, LoopOutcome, LoopNote, LoopNext DEF Typed, Next, Run
<1>4. Marked(tracker') /\ RowsInv' /\ RowTypes'
  BY <1>1, MarkedStep, RowsStep, RowTypeStep DEF Typed
<1> QED
  BY <1>1, <1>2, <1>3, <1>4 DEF Typed

LEMMA TypedAlways == Spec => [](Kept /\ Typed /\ RowsInv)
BY KeptInit, TypedInit, TypedStep, PTL DEF Spec

(* Every field of the run keeps its type: in particular an attempt id is   *)
(* one of the cycle's, no retry goes beyond it, and every row shown and    *)
(* every ending reported is one the dashboard and the summary can print.   *)
THEOREM TypeCorrect == Spec => []TypeOK
<1>1. Kept /\ Typed => TypeOK
  <2> SUFFICES ASSUME Kept, Typed PROVE TypeOK
    OBVIOUS
  <2>1. /\ mode \in {"campaign", "live", "demo"} /\ txn \in Txns /\ retries \in 0 .. MaxRetries
        /\ IsTracker(tracker) /\ pending \in Seq(Record) /\ torn \in BOOLEAN
        /\ log \in Seq([record : Record, glued : BOOLEAN])
    BY RetryAssumption DEF Kept, BudgetInv, CountersType, LogTypes, Lines, Typed, LoopTypes
  <2>2. attempt \in {0} \cup Sigs /\ first \in 0 .. attempt
    BY AttemptId DEF Kept, BudgetInv, CountersType, Typed, LoopTypes
  <2>3. /\ lastFailure \in Opt(FailureClass) /\ expired \in BOOLEAN /\ result \in {None} \cup Outcome
        /\ decider \in Deciders /\ pc \in Places /\ inject \in BOOLEAN
        /\ cache \in {None} \cup Hash /\ refreshFailed \in BOOLEAN
    BY DEF Typed, LoopTypes, HashInv
  <2>4. \A t \in Txns : final[t] \in {None} \cup Ending
    BY DEF Typed, EndTypes
  <2>5. RowTypes
    BY DEF Typed
  <2> QED
    BY <2>1, <2>2, <2>3, <2>4, <2>5 DEF TypeOK, Places, Ending, RowTypes
<1> QED
  BY <1>1, TypedAlways, PTL

(* The dashboard never shows an attempt as ended otherwise than its record *)
(* says, and shows it ended by the time the decider is consulted again.    *)
THEOREM ShownAsRecorded == Spec => []RowsTruthful
<1>1. RowsInv => RowsTruthful
  BY DEF RowsInv, RowsTruthful, Settled, Between
<1> QED
  BY <1>1, TypedAlways, PTL

-------------------------------------------------------------------------------
(* The fault demo.                                                         *)
Demo == mode = "demo" /\ decider = "heuristic" /\ MaxRetries >= 2

LEMMA FirstChoice == Demo /\ retries = 0 => Chosen = {"Submit"}
<1> SUFFICES ASSUME Demo, retries = 0 PROVE Chosen = {"Submit"}
  OBVIOUS
<1>1. ~ (retries >= MaxRetries) /\ ~ (retries > 0)
  BY RetryAssumption DEF Demo
<1> QED
  BY <1>1 DEF Chosen, HeuristicAction, Demo

LEMMA RetryChoice == Demo /\ retries = 1 /\ expired => Chosen = {"RefreshAndResubmit"}
<1> SUFFICES ASSUME Demo, retries = 1, expired PROVE Chosen = {"RefreshAndResubmit"}
  OBVIOUS
<1>1. Budget = MaxRetries
  BY DEF Budget, Starving, Demo
<1>2. ~ (retries >= MaxRetries) /\ retries # 0
  BY RetryAssumption DEF Demo
<1>3. HeuristicAction = "RefreshAndResubmit"
  BY <1>2 DEF HeuristicAction
<1> QED
  BY <1>1, <1>2, <1>3 DEF Chosen, Demo

LEMMA StartedKept == [Next]_vars => UNCHANGED <<mode, decider>>
<1> SUFFICES ASSUME [Next]_vars PROVE UNCHANGED <<mode, decider>>
  OBVIOUS
<1>1. CASE Preflight \/ OpenLog \/ Begin \/ BuildContext \/ Decide \/ Refresh \/ SubmitFails
           \/ InjectExpiry \/ SubmitSimulated \/ SubmitLive
  BY <1>1 DEF started, Preflight, OpenLog, Begin, BuildContext, Decide, Refresh, SubmitFails,
     InjectExpiry, SubmitSimulated, SubmitLive, Goto
<1>2. CASE Send \/ Close \/ SeeOutcome \/ SeeConfirmed \/ Note \/ FinalizePending \/ DrainRecords
           \/ AppendRecord \/ AppendFails \/ NextTransaction
  BY <1>2 DEF started, Send, Close, SeeOutcome, SeeConfirmed, Note, FinalizePending, DrainRecords,
     AppendRecord, AppendFails, NextTransaction
<1>3. CASE Ingest \/ Quit \/ SeeFinished \/ Join \/ DrawFails \/ UNCHANGED vars
  BY <1>3 DEF started, Ingest, Quit, SeeFinished, Join, DrawFails, Ui, vars
<1> QED
  BY <1>1, <1>2, <1>3 DEF Next, Run

\* The steps a demo has where the run goes on.
LEMMA DemoNext ==
    ASSUME Demo, [Next]_vars
    PROVE  /\ UNCHANGED <<mode, decider>>
           /\ \/ Run
              \/ UNCHANGED <<attempt, retries, inject, expired, result, cache, tracker, pending, log>>
                 /\ (pc' = pc \/ (~ Ended /\ pc' = "dropped"))
<1>1. UNCHANGED <<mode, decider>>
  BY StartedKept
<1>2. ~ Ingest
  BY DEF Ingest, Demo
<1>3. CASE Quit \/ SeeFinished \/ Join \/ DrawFails \/ UNCHANGED vars
  BY <1>1, <1>3 DEF Quit, SeeFinished, Join, DrawFails, Ui, vars, loopVars, hashVars, fileVars
<1> QED
  BY <1>1, <1>2, <1>3 DEF Next

\* What a demo does at each place.
LEMMA DemoRun ==
    ASSUME Demo, Run
    PROVE  /\ pc = "context" => BuildContext
           /\ pc = "decide"  => Decide
           /\ pc = "refresh" => Refresh
           /\ pc = "submit"  => InjectExpiry \/ SubmitSimulated
           /\ pc = "note"    => Note
           /\ pc = "flush"   => FinalizePending
           /\ pc = "open"    => OpenLog
           /\ pc = "drain"   => DrainRecords
           /\ pc = "append"  => AppendRecord \/ AppendFails \/ NextTransaction
           /\ pc \notin {"done", "error", "dropped"}
<1>1. ~ SubmitFails /\ ~ SubmitLive
  BY DEF Demo, SubmitFails, SubmitLive
<1>2. CASE Preflight \/ OpenLog \/ Begin \/ BuildContext \/ Decide \/ Refresh
  BY <1>2 DEF Preflight, OpenLog, Begin, BuildContext, Decide, Refresh
<1>3. CASE InjectExpiry
  BY <1>3 DEF InjectExpiry, Take
<1>4. CASE SubmitSimulated
  BY <1>4 DEF SubmitSimulated, Sign, Take
<1>5. CASE Send \/ Close \/ SeeOutcome \/ SeeConfirmed \/ Note
  BY <1>5 DEF Send, Close, SeeOutcome, SeeConfirmed, Note
<1>6. CASE FinalizePending \/ DrainRecords \/ AppendRecord \/ AppendFails \/ NextTransaction
  BY <1>6 DEF FinalizePending, DrainRecords, AppendRecord, AppendFails, NextTransaction
<1> QED
  BY <1>1, <1>2, <1>3, <1>4, <1>5, <1>6 DEF Run

(* The record of a bundle marked failed is the next one, with its class.   *)
LEMMA FailFiles ==
    ASSUME NEW tr, IsTracker(tr), NEW sig \in DOMAIN tr.active, NEW class \in FailureClass
    PROVE  LET c == Fail(tr, sig, class).completed
               n == Len(tr.completed) + 1
           IN  c \in Seq(Record) /\ n \in DOMAIN c /\ c[n].failure = class
<1> DEFINE rec == FailedRecord(tr.active[sig].record, class)
           c   == tr.completed
<1>1. sig \in Sigs /\ tr.active[sig].record \in Record /\ c \in Seq(Record)
  BY DEF IsTracker, Entry
<1>2. rec \in Record /\ rec.failure = class
  <2>1. rec.failure = class
    BY <1>1 DEF FailedRecord, Push, Record
  <2> QED
    BY <1>1, <2>1, FailedRecordType
<1>3. Fail(tr, sig, class).completed = c \o <<rec>>
  <2>1. Fail(tr, sig, class).completed
          = c \o [i \in DOMAIN <<sig>> |-> [s \in {sig} |-> rec][<<sig>>[i]]]
    BY DEF Fail, Settle
  <2> HIDE DEF rec, c
  <2>2. [i \in DOMAIN <<sig>> |-> [s \in {sig} |-> rec][<<sig>>[i]]] = <<rec>>
    OBVIOUS
  <2> QED
    BY <2>1, <2>2
<1> HIDE DEF rec, c
<1>4. <<rec>> \in Seq(Record) /\ DOMAIN <<rec>> = {1} /\ <<rec>>[1] = rec
  BY <1>2
<1>5. /\ c \o <<rec>> \in Seq(Record) /\ Len(c) + 1 \in DOMAIN (c \o <<rec>>)
      /\ (c \o <<rec>>)[Len(c) + 1] = rec
  BY <1>1, <1>4, ConcatIndex
<1> QED
  BY <1>2, <1>3, <1>5 DEF c

LEMMA FailedFirstKept == FailedFirst /\ GrowsTo(Accounts, Accounts') => FailedFirst'
BY DEF FailedFirst, GrowsTo

(* The armed fault fails the first attempt as expired.                     *)
LEMMA FaultInjected ==
    ASSUME Kept, Kept', HashInv, HashInv', pc = "submit", attempt = 0, retries = 0, InjectExpiry
    PROVE  FaultMet'
<1>1. /\ attempt' = 1 /\ inject' = FALSE /\ pc' = "note" /\ retries' = retries
      /\ result' = FailedWith("ExpiredBlockhash") /\ UNCHANGED <<txn, first, pending, log>>
      /\ cache' = [HashToSign EXCEPT !.used = TRUE, !.forced = TRUE]
      /\ tracker' = Fail(Opened, attempt + 1, "ExpiredBlockhash")
  BY DEF InjectExpiry, Take, fileVars
<1>2. attempt \in Nat /\ attempt = Recorded /\ attempt + 1 \in Sigs
  <2>1. attempt' = attempt + 1 /\ BudgetInv'
    BY <1>1 DEF Kept
  <2> QED
    BY <1>1, <2>1, AttemptTaken
<1>3. /\ IsTracker(Opened) /\ Opened.completed = tracker.completed
      /\ DOMAIN Opened.active = {attempt + 1}
  BY <1>2, OrderOpened DEF Opened
<1> DEFINE c   == tracker'.completed
           pre == Written \o pending
<1>4. c \in Seq(Record) /\ Len(tracker.completed) + 1 \in DOMAIN c
      /\ c[Len(tracker.completed) + 1].failure = "ExpiredBlockhash"
  <2>1. "ExpiredBlockhash" \in FailureClass /\ attempt + 1 \in DOMAIN Opened.active
    BY <1>3 DEF FailureClass
  <2> DEFINE sig == attempt + 1
             d   == Fail(Opened, sig, "ExpiredBlockhash").completed
             n   == Len(Opened.completed) + 1
  <2> HIDE DEF Opened, sig
  <2>2. d \in Seq(Record) /\ n \in DOMAIN d /\ d[n].failure = "ExpiredBlockhash"
    <3>1. sig \in DOMAIN Opened.active
      BY <2>1 DEF sig
    <3> QED
      BY <1>3, <2>1, <3>1, FailFiles
  <2>3. c = d /\ n = Len(tracker.completed) + 1
    BY <1>1, <1>3 DEF sig
  <2> HIDE DEF c, d, n
  <2> QED
    BY <2>2, <2>3
<1>5. pre \in Seq(Record) /\ tracker.completed \in Seq(Record)
      /\ OneOpen(tracker, pre, 0) /\ DOMAIN tracker.active = {}
  BY <1>2, WrittenType, ConcatProperties DEF Kept, LogTypes, IsTracker, InOrder, Ended, Alone, Between
<1>6. Accounts' = pre \o c
  BY <1>1 DEF Accounts, Written
<1> HIDE DEF pre, c
<1>7. Len(pre) = 0 /\ Len(tracker.completed) = 0
  <2>1. Len(pre \o tracker.completed) = 0
    BY <1>5 DEF OneOpen
  <2> QED
    BY <1>5, <2>1, ConcatIndex
<1>8. 1 \in DOMAIN (pre \o c) /\ (pre \o c)[1] = c[1]
  <2>1. 1 \in DOMAIN c
    BY <1>4, <1>7
  <2>2. /\ DOMAIN (pre \o c) = 1 .. Len(pre) + Len(c) /\ DOMAIN c = 1 .. Len(c) /\ Len(c) \in Nat
        /\ (pre \o c)[Len(pre) + 1] = c[1]
    BY <1>4, <1>5, <2>1, ConcatIndex
  <2> QED
    BY <1>7, <2>1, <2>2
<1>9. FailedFirst'
  BY <1>4, <1>6, <1>7, <1>8 DEF FailedFirst
<1>10. cache' # None /\ cache'.forced = TRUE
  <2>1. Fetched \in Hash
    BY DEF Fetched, Hash, Kept, LogTypes
  <2>2. HashToSign \in Hash
    BY <2>1 DEF HashToSign, HashInv
  <2>3. cache' \in Hash /\ cache'.forced = TRUE
    BY <1>1, <2>2 DEF Hash
  <2> QED
    BY <2>3, NoneIsNoHash
<1> QED
  BY <1>1, <1>9, <1>10 DEF FaultMet

LEMMA FaultArmedStep ==
    ASSUME Demo, Kept, Kept', HashInv, HashInv', FaultArmed, [Next]_vars
    PROVE  pc' \in {"error", "dropped"} \/ FaultArmed' \/ FaultMet'
<1>1. CASE ~ Run
  BY <1>1, DemoNext DEF FaultArmed
<1>2. CASE Run /\ pc = "context"
  <2>1. BuildContext
    BY <1>2, DemoRun
  <2> QED
    BY <2>1 DEF BuildContext, FaultArmed, hashVars
<1>3. CASE Run /\ pc = "decide"
  <2>1. Decide /\ Chosen = {"Submit"}
    BY <1>3, DemoRun, FirstChoice DEF FaultArmed
  <2> QED
    BY <2>1 DEF Decide, FaultArmed, loopVars, hashVars
<1>4. CASE Run /\ pc = "submit"
  <2>1. InjectExpiry
    BY <1>4, DemoRun DEF FaultArmed, SubmitSimulated
  <2> QED
    BY <1>4, <2>1, FaultInjected DEF FaultArmed
<1> QED
  BY <1>1, <1>2, <1>3, <1>4 DEF FaultArmed

(* A simulated attempt with a fresh hash ends as finalized.                *)
LEMMA FaultPassed ==
    ASSUME Demo, Kept, Kept', HashInv, HashInv', Marked(tracker),
           FaultMet, pc = "submit", SubmitSimulated
    PROVE  FaultPast'
<1>1. /\ attempt = 1 /\ attempt' = 2 /\ pc' = "note" /\ UNCHANGED <<pending, log>>
      /\ cache' = [HashToSign EXCEPT !.used = TRUE] /\ cache # None /\ ~ cache.forced
      /\ \E slot \in Slots : result' = LandedAt(slot)
  BY DEF SubmitSimulated, Sign, Take, FaultMet, fileVars
<1>2. result'.landed
  BY <1>1 DEF LandedAt
<1>3. cache' # None /\ ~ cache'.forced
  <2>1. cache \in Hash /\ cache' = [cache EXCEPT !.used = TRUE]
    BY <1>1 DEF HashInv, HashToSign
  <2>2. cache' \in Hash /\ cache'.forced = cache.forced
    BY <2>1 DEF Hash
  <2> QED
    BY <1>1, <2>2, NoneIsNoHash
<1>4. FailedFirst'
  <2>1. [Next]_vars
    BY DEF Next, Run
  <2> QED
    BY <2>1, AccountsGrow, FailedFirstKept DEF FaultMet
<1> DEFINE pre == Written \o pending
           c   == tracker'.completed
<1>5. /\ pre \in Seq(Record) /\ c \in Seq(Record) /\ tracker.completed \in Seq(Record)
      /\ Accounts' = pre \o c /\ OneOpen(tracker, pre, 1) /\ DOMAIN tracker.active = {}
      /\ DOMAIN tracker'.active = {}
  BY <1>1, WrittenType, ConcatProperties
  DEF SubmitSimulated, Sign, Take, Kept, LogTypes, IsTracker, InOrder, Recorded, Ended, Alone, Between,
      Accounts, Written
<1>6. Secure(tracker', pre, 2) /\ EndIn(tracker', Len(tracker.completed), {Finalized})
  <2>1. Secure(tracker', pre, attempt')
    BY OrderSimulated DEF Kept
  <2> QED
    BY <1>1, <2>1, TrackerSimulated
<1> HIDE DEF pre, c
<1>7. 2 \in DOMAIN (pre \o c) /\ Good((pre \o c)[2])
  BY <1>5, <1>6 DEF Secure, LandedIn, c
<1>8. Len(pre) + Len(tracker.completed) = 1 /\ Len(pre) \in Nat /\ Len(tracker.completed) \in Nat
  <2>1. Len(pre \o tracker.completed) = 1
    BY <1>5 DEF OneOpen
  <2> QED
    BY <1>5, <2>1, ConcatIndex
<1>9. 2 - Len(pre) \in DOMAIN c /\ (pre \o c)[2] = c[2 - Len(pre)]
  <2>1. /\ 2 \in 1 .. Len(pre) + Len(c) /\ DOMAIN pre = 1 .. Len(pre)
        /\ 2 \in DOMAIN pre \/ (2 - Len(pre) \in DOMAIN c /\ (pre \o c)[2] = c[2 - Len(pre)])
    BY <1>5, <1>7, ConcatIndex
  <2> QED
    BY <1>8, <2>1
<1>10. EndsIn((pre \o c)[2], {Finalized})
  <2>1. 2 - Len(pre) > Len(tracker.completed)
    BY <1>8
  <2> QED
    BY <1>6, <1>9, <2>1 DEF EndIn, c
<1>11. RowOf((pre \o c)[2]).stage = Finalized
  BY <1>7, <1>10 DEF Good, EndsIn, RowOf, LastStage
<1> QED
  BY <1>1, <1>2, <1>3, <1>4, <1>5, <1>7, <1>11 DEF FaultPast

LEMMA FaultMetStep ==
    ASSUME Demo, Kept, Kept', HashInv, HashInv', Marked(tracker), FaultMet, [Next]_vars
    PROVE  pc' \in {"error", "dropped"} \/ FaultMet' \/ FaultPast'
<1>1. FailedFirst'
  BY AccountsGrow, FailedFirstKept DEF FaultMet
<1>2. CASE ~ Run
  BY <1>1, <1>2, DemoNext DEF FaultMet
<1>3. CASE Run /\ pc = "note"
  <2>1. Note /\ result = FailedWith("ExpiredBlockhash")
    BY <1>3, DemoRun DEF FaultMet
  <2>2. ~ result.landed
    BY <2>1 DEF FailedWith
  <2>3. /\ pc' = "context" /\ retries' = retries + 1
        /\ UNCHANGED <<attempt, inject, cache>>
    BY <2>1, <2>2 DEF Note, hashVars
  <2> QED
    BY <1>1, <1>3, <2>3 DEF FaultMet
<1>4. CASE Run /\ pc = "context"
  <2>1. /\ pc' = "decide" /\ UNCHANGED <<attempt, retries, inject, cache>>
        /\ cache # None /\ cache.forced /\ expired' \in {TRUE}
    BY <1>4, DemoRun DEF BuildContext, FaultMet, hashVars
  <2>2. expired' = TRUE
    BY <2>1
  <2>3. expired'
    BY <2>2
  <2> QED
    BY <1>1, <1>4, <2>1, <2>3 DEF FaultMet
<1>5. CASE Run /\ pc = "decide"
  <2>1. Decide /\ Chosen = {"RefreshAndResubmit"}
    BY <1>5, DemoRun, RetryChoice DEF FaultMet
  <2>2. pc' \in {"refresh", "error"} /\ UNCHANGED <<attempt, retries, inject, cache>>
    BY <2>1 DEF Decide, loopVars, hashVars
  <2> QED
    BY <1>1, <1>5, <2>2 DEF FaultMet
<1>6. CASE Run /\ pc = "refresh"
  <2>1. pc' = "submit" /\ cache' = Fetched /\ UNCHANGED <<attempt, retries, inject>>
    BY <1>6, DemoRun DEF Refresh, Demo, loopVars
  <2>2. Fetched \in Hash /\ Fetched.forced = FALSE
    BY DEF Fetched, Hash, Kept, LogTypes
  <2>3. cache' # None /\ ~ cache'.forced
    BY <2>1, <2>2, NoneIsNoHash
  <2> QED
    BY <1>1, <1>6, <2>1, <2>3 DEF FaultMet
<1>7. CASE Run /\ pc = "submit"
  <2>1. SubmitSimulated
    BY <1>7, DemoRun DEF FaultMet, InjectExpiry
  <2> QED
    BY <1>7, <2>1, FaultPassed
<1> QED
  BY <1>2, <1>3, <1>4, <1>5, <1>6, <1>7 DEF FaultMet

LEMMA FaultPastStep ==
    ASSUME Demo, Kept, Kept', HashInv, Marked(tracker), FaultPast, [Next]_vars
    PROVE  pc' \in {"error", "dropped"} \/ FaultPast'
<1>1. FailedFirst' /\ 2 \in DOMAIN Accounts' /\ RowOf(Accounts'[2]).stage = Finalized
  <2>1. GrowsTo(Accounts, Accounts')
    BY AccountsGrow
  <2>2. 2 \in DOMAIN Accounts' /\ Accounts'[2] = Accounts[2]
    BY <2>1 DEF FaultPast, GrowsTo
  <2> QED
    BY <2>1, <2>2, FailedFirstKept DEF FaultPast
<1>2. UNCHANGED <<attempt, cache>>
      /\ \/ pc' \in {"error", "dropped", "flush", "open", "drain", "append", "done"}
         \/ pc' = "note" /\ pc = "note" /\ result' = result
  <2>1. CASE ~ Run
    BY <2>1, DemoNext DEF FaultPast
  <2>2. CASE Run /\ pc = "note"
    <3>1. Note /\ result.landed
      BY <2>2, DemoRun DEF FaultPast
    <3> QED
      BY <3>1 DEF Note, Finish, hashVars
  <2>3. CASE Run /\ pc \in {"flush", "open", "drain"}
    <3>1. FinalizePending \/ OpenLog \/ DrainRecords
      BY <2>3, DemoRun
    <3> QED
      BY <3>1 DEF FinalizePending, OpenLog, DrainRecords, Goto, Demo, hashVars
  <2>4. CASE Run /\ pc = "append"
    <3>1. AppendRecord \/ AppendFails \/ NextTransaction
      BY <2>4, DemoRun
    <3>2. CASE AppendRecord \/ AppendFails
      BY <2>4, <3>2 DEF AppendRecord, AppendFails, hashVars
    <3>3. CASE NextTransaction
      <4>1. ~ (txn < Transactions)
        <5>1. txn \in Nat /\ txn >= 1 /\ Transactions = 1
          BY CountAssumption DEF Kept, LogTypes, Txns, Transactions, Demo
        <5> QED
          BY <5>1
      <4> QED
        BY <3>3, <4>1 DEF NextTransaction, hashVars
    <3> QED
      BY <3>1, <3>2, <3>3
  <2> QED
    BY <2>1, <2>2, <2>3, <2>4, DemoRun DEF FaultPast
<1> QED
  BY <1>1, <1>2 DEF FaultPast

LEMMA FaultStep ==
    Kept /\ Kept' /\ HashInv /\ HashInv' /\ Marked(tracker) /\ FaultInv /\ [Next]_vars => FaultInv'
<1> SUFFICES ASSUME Kept, Kept', HashInv, HashInv', Marked(tracker), FaultInv, [Next]_vars, Demo'
             PROVE  pc' \in {"error", "dropped"} \/ FaultArmed' \/ FaultMet' \/ FaultPast'
  BY DEF FaultInv, Demo
<1>1. Demo
  BY StartedKept DEF Demo
<1>2. CASE pc \in {"error", "dropped"}
  BY <1>1, <1>2, DemoNext, DemoRun DEF Ended
<1> QED
  BY <1>1, <1>2, FaultArmedStep, FaultMetStep, FaultPastStep DEF FaultInv, Demo

(* The demo with the heuristic decider ends in exactly one recovery: an    *)
(* attempt failed by the injected expiry, then one that finalized, signed  *)
(* with a hash that is not the stale one.                                  *)
THEOREM FaultOvercome == Spec => []FaultRecovered
<1>1. Init => FaultInv
  BY DEF Init, StartDemo, StartLive, FaultInv, FaultArmed
<1>2. Kept /\ FaultInv => FaultRecovered
  <2> SUFFICES ASSUME Kept, FaultInv, mode = "demo", decider = "heuristic", pc = "done", MaxRetries >= 2
               PROVE  /\ Len(log) = 2 /\ Written[1].failure = "ExpiredBlockhash"
                      /\ RowOf(Written[2]).stage = Finalized /\ ~ cache.forced
    BY DEF FaultRecovered
  <2>1. FaultPast
    BY DEF FaultInv, FaultArmed, FaultMet
  <2>2. Len(log) = attempt /\ pending = <<>> /\ tracker.completed = <<>> /\ log \in Seq(Lines)
    BY DEF Kept, InOrder, LogTypes
  <2>3. Accounts = Written
    <3>1. Written \in Seq(Record) /\ Written \o <<>> = Written
      BY <2>2, WrittenType, ConcatEmptySeq
    <3> QED
      BY <2>2, <3>1 DEF Accounts
  <2> QED
    BY <2>1, <2>2, <2>3 DEF FaultPast, FailedFirst
<1>3. Spec => [](Kept /\ Typed /\ RowsInv /\ FaultInv)
  <2>1. Kept /\ Typed /\ RowsInv /\ FaultInv /\ [Next]_vars => (Kept /\ Typed /\ RowsInv /\ FaultInv)'
    BY TypedStep, FaultStep DEF Typed
  <2> QED
    BY <1>1, <2>1, KeptInit, TypedInit, PTL DEF Spec
<1> QED
  BY <1>2, <1>3, PTL
===============================================================================
